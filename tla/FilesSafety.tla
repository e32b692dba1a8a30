---------------------------- MODULE FilesSafety ----------------------------
(***************************************************************************)
(* Proofs about files, for any host directory, any paths and any number of *)
(* processes, descriptors and handles: every process is always in a        *)
(* directory that exists (CwdIsDirectory of module Files), the image holds *)
(* what belongs into it and nothing else (ImageFaithful of module FsTool), *)
(* and what is read through a handle is what the host's file or directory  *)
(* holds, in order (ReadsInOrder).                                         *)
(*                                                                         *)
(* The last two need that the image is right while it is built, that the   *)
(* components of a path are its names, and that a path leads to the host's *)
(* file of its names; the last also that a handle has as many references   *)
(* as its reference count says.                                            *)
(***************************************************************************)
EXTENDS Files, ListFacts, FiniteSetTheorems, SequenceTheorems, TLAPS

(* A path leads to a directory of the image.                               *)
LeadsToDir(img, path) ==
  LET e == get_directory_entry(img, path) IN e # NotFound /\ Cell(img, e).type = "DIR"

-----------------------------------------------------------------------------
(***************************************************************************)
(* The root. An empty path and a single slash have no components, so that  *)
(* the recursive functions that walk them are found by giving them.        *)
(***************************************************************************)
LEMMA NoComponents ==
  ASSUME NEW path, path = <<>> \/ path = <<"/">>
  PROVE  Components(path) = <<>>
<1> DEFINE Slash(k) == k > Len(path) \/ path[k] = "/"
           Rest(f, k) ==
             IF k > Len(path) THEN <<>>
             ELSE IF Slash(k) THEN f[k + 1]
             ELSE LET end == CHOOSE e \in k .. (Len(path) + 1) :
                               Slash(e) /\ \A j \in k .. (e - 1) : ~ Slash(j)
                  IN <<SubSeq(path, k, end - 1)>> \o f[end]
           W(f) == f = [k \in 1 .. (Len(path) + 1) |-> Rest(f, k)]
           from == CHOOSE f : W(f)
           g == [k \in 1 .. (Len(path) + 1) |-> <<>>]
<1>1. Components(path) = from[1]
  BY DEF Components
<1>2. Len(path) \in {0, 1} /\ \A k \in 1 .. Len(path) : path[k] = "/"
  OBVIOUS
<1>3. \A f, k : k \in 1 .. (Len(path) + 1) => Slash(k)
  BY <1>2
<1> HIDE DEF Slash
<1>4. \A f : \A k \in 1 .. (Len(path) + 1) :
        Rest(f, k) = IF k > Len(path) THEN <<>> ELSE f[k + 1]
  BY <1>3, Zenon
<1> HIDE DEF Rest
<1>5. \A k \in 1 .. (Len(path) + 1) : Rest(g, k) = <<>>
  BY <1>2, <1>4
<1>6. W(g)
  BY <1>5, Zenon
<1>7. W(from)
  BY <1>6, Zenon
<1> HIDE DEF from, g
<1>8. \A k \in 1 .. (Len(path) + 1) : from[k] = Rest(from, k)
  BY <1>7, Zenon
<1>9. from[Len(path) + 1] = <<>>
  BY <1>2, <1>4, <1>8
<1>10. from[1] = <<>>
  BY <1>2, <1>4, <1>8, <1>9
<1> QED
  BY <1>1, <1>10

LEMMA RootEntry ==
  ASSUME NEW img, NEW path, Components(path) = <<>>
  PROVE  get_directory_entry(img, path) = 0
<1> DEFINE names == Components(path)
           Step(f, k) ==
             IF k = 0 THEN 0
             ELSE IF f[k - 1] = NotFound THEN NotFound
             ELSE LET e == lookup(img, Cell(img, f[k - 1]).location, names[k]) IN
                  IF e # NotFound /\ Cell(img, e).type = "FILE"
                       /\ (k < Len(names) \/ path[Len(path)] = "/")
                  THEN NotFound ELSE e
           W(f) == f = [k \in 0 .. Len(names) |-> Step(f, k)]
           found == CHOOSE f : W(f)
           g == [k \in 0 .. Len(names) |-> 0]
<1>1. get_directory_entry(img, path) = found[Len(names)]
  BY DEF get_directory_entry
<1>2. Len(names) = 0
  OBVIOUS
<1>3. \A f : Step(f, 0) = 0
  BY Zenon
<1> HIDE DEF Step, names
<1>4. \A k \in 0 .. Len(names) : k = 0
  BY <1>2
<1>5. \A k \in 0 .. Len(names) : Step(g, k) = 0
  BY <1>3, <1>4, Zenon
<1>6. W(g)
  BY <1>5, Zenon
<1>7. W(found)
  BY <1>6, Zenon
<1> HIDE DEF found
<1>8. found[0] = Step(found, 0)
  <2>1. 0 \in 0 .. Len(names)
    BY <1>2
  <2> QED
    BY <1>7, <2>1, Zenon
<1> QED
  BY <1>1, <1>2, <1>3, <1>8

-----------------------------------------------------------------------------
(***************************************************************************)
(* The image while it is built: its first cell, the entry of the root, is  *)
(* never overwritten.                                                      *)
(***************************************************************************)
ImageOk(img) ==
  (\E S : img \in Seq(S)) /\ Len(img) >= 1 /\ img[1].type = "DIR"

IsEntry(e, names) == \E t, m, s, l, n : e = Entry(t, m, s, l, n) /\ n \in names

(* An activation of process_dir writes behind the root's entry.            *)
FrameOk(f) ==
  /\ f = [path |-> f.path, entries |-> f.entries, diroffset |-> f.diroffset, i |-> f.i]
  /\ f.diroffset \in Nat /\ f.diroffset >= 1 /\ f.i \in Nat /\ f.i >= 1
  /\ \E E : f.entries \in Seq(E)
  /\ \A k \in 1 .. Len(f.entries) : IsEntry(f.entries[k], Listed(f.path))

FramesOk(stack) == \E F : stack \in Seq(F) /\ \A f \in F : FrameOk(f)

BuildInv == ImageOk(image) /\ FramesOk(frames)

LEMMA LastFrame ==
  ASSUME NEW stack, FramesOk(stack), stack # <<>>
  PROVE  FrameOk(Last(stack)) /\ FramesOk(Front(stack))
<1>1. PICK F : stack \in Seq(F) /\ \A f \in F : FrameOk(f)
  BY DEF FramesOk
<1>2. Len(stack) \in Nat /\ Len(stack) >= 1
  BY <1>1
<1>3. Last(stack) \in F
  BY <1>1, <1>2 DEF Last
<1>4. Front(stack) \in Seq(F)
  BY <1>1, <1>2 DEF Front
<1> QED
  BY <1>1, <1>3, <1>4 DEF FramesOk

LEMMA PushFrame ==
  ASSUME NEW stack, FramesOk(stack), NEW f, FrameOk(f)
  PROVE  FramesOk(Append(stack, f))
<1>1. PICK F : stack \in Seq(F) /\ \A e \in F : FrameOk(e)
  BY DEF FramesOk
<1> DEFINE G == F \cup {f}
<1>2. stack \in Seq(G) /\ f \in G
  BY <1>1
<1>3. Append(stack, f) \in Seq(G)
  BY <1>2, AppendProperties
<1>4. \A e \in G : FrameOk(e)
  BY <1>1
<1> QED
  BY <1>3, <1>4 DEF FramesOk

LEMMA FilledOk ==
  ASSUME NEW f, FrameOk(f), f.i <= Len(f.entries)
  PROVE  FrameOk(Filled(f))
<1> DEFINE L == Len(image)
           e == f.entries[f.i]
           d == [e EXCEPT !.location = L]
           es == [f.entries EXCEPT ![f.i] = d]
           g == Filled(f)
           N == Listed(f.path)
<1>0. PICK E : f.entries \in Seq(E)
  BY DEF FrameOk
<1>1. f.i \in 1 .. Len(f.entries) /\ Len(f.entries) \in Nat
  BY <1>0 DEF FrameOk
<1>2. IsEntry(d, N)
  <2>1. IsEntry(e, N)
    BY <1>1 DEF FrameOk
  <2>2. PICK t, m, s, l, n : e = Entry(t, m, s, l, n) /\ n \in N
    BY <2>1 DEF IsEntry
  <2> HIDE DEF e, L, N
  <2>3. d = Entry(t, m, s, L, n)
    BY <2>2 DEF Entry
  <2> HIDE DEF d
  <2> QED
    BY <2>2, <2>3, Zenon DEF IsEntry
<1>3. g = [f EXCEPT !.entries = es, !.i = f.i + 1]
  BY DEF Filled
<1> HIDE DEF L, e, d
<1>4. es \in Seq(E \cup {d}) /\ Len(es) = Len(f.entries)
  <2>1. f.entries \in Seq(E \cup {d}) /\ f.i \in 1 .. Len(f.entries)
    BY <1>0, <1>1
  <2> QED
    BY <2>1, ExceptSeq
<1>5. \A k \in 1 .. Len(f.entries) : es[k] = IF k = f.i THEN d ELSE f.entries[k]
  BY <1>0, <1>1
<1> HIDE DEF es, N, g
<1>a. f = [path |-> f.path, entries |-> f.entries, diroffset |-> f.diroffset, i |-> f.i]
  BY DEF FrameOk
<1> DEFINE j == f.i + 1
<1>b. j \in Nat /\ j >= 1
  BY DEF FrameOk
<1>c. g = [f EXCEPT !.entries = es, !.i = j]
  BY <1>3
<1> HIDE DEF j
<1>6. g = [path |-> f.path, entries |-> es, diroffset |-> f.diroffset, i |-> j]
  BY <1>a, <1>c
<1>7. g.path = f.path /\ g.entries = es /\ g.diroffset = f.diroffset /\ g.i = j
  BY <1>6
<1>8. \A k \in 1 .. Len(es) : IsEntry(es[k], N)
  BY <1>2, <1>4, <1>5 DEF FrameOk, N
<1>9. FrameOk(g)
  <2>1. g = [path |-> g.path, entries |-> g.entries, diroffset |-> g.diroffset, i |-> g.i]
    BY <1>6, <1>7
  <2>2. \E D : g.entries \in Seq(D)
    BY <1>4, <1>7
  <2>3. \A k \in 1 .. Len(g.entries) : IsEntry(g.entries[k], Listed(g.path))
    BY <1>7, <1>8 DEF N
  <2> QED
    BY <1>7, <1>b, <2>1, <2>2, <2>3 DEF FrameOk
<1> QED
  BY <1>9 DEF g

(* Appending to an image leaves its first cell alone.                      *)
LEMMA ImageGrows ==
  ASSUME NEW img, ImageOk(img), NEW S, NEW more \in Seq(S)
  PROVE  ImageOk(img \o more) /\ Len(img \o more) = Len(img) + Len(more)
<1>1. PICK R : img \in Seq(R)
  BY DEF ImageOk
<1> DEFINE Q == R \cup S
<1>2. img \in Seq(Q) /\ more \in Seq(Q)
  BY <1>1
<1>3. /\ img \o more \in Seq(Q) /\ Len(img \o more) = Len(img) + Len(more)
      /\ \A k \in 1 .. (Len(img) + Len(more)) :
           (img \o more)[k] = IF k <= Len(img) THEN img[k] ELSE more[k - Len(img)]
  BY <1>2, ConcatProperties
<1>4. Len(img) \in Nat /\ Len(more) \in Nat /\ Len(img) >= 1
  BY <1>1 DEF ImageOk
<1>5. (img \o more)[1] = img[1] /\ Len(img \o more) >= 1
  BY <1>3, <1>4
<1> QED
  BY <1>3, <1>5 DEF ImageOk

LEMMA ListedFinite ==
  ASSUME NEW path
  PROVE  IsFiniteSet(Listed(path))
<1> DEFINE R == {r \in DOMAIN Host : r # <<>> /\ Front(r) = path}
           N == {Last(q) : q \in R}
<1>1. IsFiniteSet(R)
  BY HostAssumption, FS_Subset
<1> HIDE DEF R
<1>2. IsFiniteSet(N)
  <2> DEFINE f == [q \in R |-> Last(q)]
  <2>1. f \in Surjection(R, N)
    BY DEF Surjection
  <2> QED
    BY <1>1, <2>1, FS_Surjection
<1>3. Listed(path) \subseteq N
  BY DEF Listed, R
<1> QED
  BY <1>2, <1>3, FS_Subset

(* A listed name belongs to a file of the host.                            *)
LEMMA ListedExists ==
  ASSUME NEW path, NEW name \in Listed(path)
  PROVE  Append(path, name) \in DOMAIN Host
<1>1. PICK q \in DOMAIN Host : q # <<>> /\ Front(q) = path /\ name = Last(q)
  BY DEF Listed
<1>2. q \in Seq(Range(q))
  BY <1>1, HostAssumption
<1> DEFINE S == Range(q)
<1>3. q \in Seq(S) /\ Len(q) \in Nat /\ Len(q) >= 1
  BY <1>1, <1>2
<1> HIDE DEF S
<1>4. Append(SubSeq(q, 1, Len(q) - 1), q[Len(q)]) = q
  BY <1>3
<1> QED
  BY <1>1, <1>4 DEF Front, Last

LEMMA ListDirStep ==
  ASSUME NEW path, ImageOk(image), NEW stack, FramesOk(stack), ListDir(path, image, stack)
  PROVE  BuildInv' /\ frames' # <<>>
<1>1. PICK order \in SetToSeqs(Listed(path)) :
        LET entries == [k \in DOMAIN order |-> NewEntry(path, order[k])] IN
        /\ image' = image \o <<Header(Len(entries))>> \o entries
        /\ frames' = Append(stack, [path |-> path, entries |-> entries,
                                    diroffset |-> Len(image), i |-> 1])
  BY DEF ListDir
<1> DEFINE L == Listed(path)
           n == Cardinality(L)
           entries == [k \in DOMAIN order |-> NewEntry(path, order[k])]
           E == {NewEntry(path, name) : name \in L}
           f == [path |-> path, entries |-> entries, diroffset |-> Len(image), i |-> 1]
           h == <<Header(Len(entries))>>
<1>2. n \in Nat
  BY ListedFinite, FS_CardinalityType
<1>3. order \in [1 .. n -> L]
  BY DEF SetToSeqs
<1> HIDE DEF n, L
<1>4. entries = [k \in 1 .. n |-> NewEntry(path, order[k])]
  BY <1>3
<1>5. entries \in [1 .. n -> E]
  BY <1>3, <1>4
<1>6. entries \in Seq(E) /\ Len(entries) = n
  <2> HIDE DEF entries, E
  <2>1. DOMAIN entries = 1 .. n
    BY <1>5
  <2> QED
    BY <1>2, <1>5, <2>1, SeqDef, LenProperties
<1>7. \A k \in 1 .. n : IsEntry(entries[k], L)
  <2> TAKE k \in 1 .. n
  <2> DEFINE t == Host[Append(path, order[k])]
  <2>1. entries[k] = NewEntry(path, order[k]) /\ order[k] \in L
    BY <1>3, <1>4
  <2>2. NewEntry(path, order[k]) = Entry(t.type, t.type, t.size, 0, order[k])
    BY DEF NewEntry
  <2> HIDE DEF t, entries
  <2> QED
    BY <2>1, <2>2, Zenon DEF IsEntry
<1>8. image' = image \o h \o entries /\ frames' = Append(stack, f)
  BY <1>1, Zenon
<1>a. Len(image) \in Nat /\ Len(image) >= 1
  BY DEF ImageOk
<1> HIDE DEF entries, E
<1>9. FrameOk(f)
  <2>1. f.path = path /\ f.entries = entries /\ f.diroffset = Len(image) /\ f.i = 1
    OBVIOUS
  <2>2. \E D : f.entries \in Seq(D)
    BY <1>6
  <2>3. \A k \in 1 .. Len(f.entries) : IsEntry(f.entries[k], Listed(f.path))
    BY <1>6, <1>7 DEF L
  <2> QED
    BY <1>a, <2>1, <2>2, <2>3 DEF FrameOk
<1>10. FramesOk(frames')
  BY <1>8, <1>9, PushFrame
<1>11. h \in Seq({Header(Len(entries))})
  OBVIOUS
<1> HIDE DEF h, f
<1>12. ImageOk(image \o h)
  BY <1>11, ImageGrows
<1>13. ImageOk((image \o h) \o entries)
  BY <1>6, <1>12, ImageGrows
<1>14. ImageOk(image')
  BY <1>8, <1>13
<1>15. frames' # <<>>
  <2>1. PICK F : stack \in Seq(F)
    BY DEF FramesOk
  <2>2. stack \in Seq(F \cup {f}) /\ f \in F \cup {f}
    BY <2>1
  <2>3. Len(Append(stack, f)) = Len(stack) + 1 /\ Len(stack) \in Nat
    BY <2>2, AppendProperties
  <2> QED
    BY <1>8, <2>3
<1>16. BuildInv' <=> ImageOk(image') /\ FramesOk(frames')
  BY DEF BuildInv, ImageOk, FramesOk, FrameOk
<1> QED
  BY <1>10, <1>14, <1>15, <1>16

LEMMA BuildStep ==
  ASSUME BuildInv, BuildNext
  PROVE  BuildInv' /\ ~ Built
<1>0. BuildInv' <=> ImageOk(image') /\ FramesOk(frames')
  BY DEF BuildInv, ImageOk, FramesOk, FrameOk
<1>1. CASE Begin
  <2>1. FramesOk(<<>>)
    <3> DEFINE F == {}
    <3>1. <<>> \in Seq(F) /\ \A e \in F : FrameOk(e)
      OBVIOUS
    <3> HIDE DEF F
    <3> QED
      BY <3>1, Zenon DEF FramesOk
  <2> QED
    BY <1>1, <2>1, ListDirStep DEF Begin, Built, BuildInv
<1>2. CASE ProcessEntry
  <2> DEFINE frame == Last(frames)
             entry == frame.entries[frame.i]
             path == Append(frame.path, entry.name)
             stack == Append(Front(frames), Filled(frame))
             bytes == Host[path].bytes
             more == [k \in DOMAIN bytes |-> Byte(bytes[k])]
  <2>1. /\ frames # <<>> /\ frame.i <= Len(frame.entries)
        /\ \/ ListDir(path, image, stack)
           \/ image' = image \o more /\ frames' = stack
    BY <1>2 DEF ProcessEntry
  <2>2. FrameOk(frame) /\ FramesOk(Front(frames))
    BY <2>1, LastFrame DEF BuildInv
  <2> HIDE DEF frame
  <2>3. FramesOk(stack)
    BY <2>1, <2>2, FilledOk, PushFrame
  <2>4. CASE ListDir(path, image, stack)
    <3> HIDE DEF path, stack
    <3> QED
      BY <2>1, <2>3, <2>4, ListDirStep DEF BuildInv, Built
  <2>5. CASE image' = image \o more /\ frames' = stack
    <3>1. IsEntry(entry, Listed(frame.path))
      <4>1. frame.i \in 1 .. Len(frame.entries)
        <5>1. Len(frame.entries) \in Nat /\ frame.i \in Nat /\ frame.i >= 1
          BY <2>2 DEF FrameOk
        <5>2. frame.i <= Len(frame.entries)
          BY <2>1
        <5> QED
          BY <5>1, <5>2
      <4> QED
        BY <2>2, <4>1 DEF FrameOk
    <3>2. entry.name \in Listed(frame.path)
      BY <3>1 DEF IsEntry, Entry
    <3>3. path \in DOMAIN Host
      BY <3>2, ListedExists
    <3> HIDE DEF path, stack
    <3>4. bytes \in Seq(Range(bytes))
      BY <3>3, HostAssumption
    <3> DEFINE S == {Byte(bytes[k]) : k \in DOMAIN bytes}
    <3>5. more \in Seq(S)
      <4>1. Len(bytes) \in Nat /\ DOMAIN bytes = 1 .. Len(bytes)
        BY <3>4, LenProperties
      <4>2. more \in [1 .. Len(bytes) -> S]
        BY <4>1
      <4> HIDE DEF more, S
      <4> QED
        BY <4>1, <4>2, SeqDef
    <3> HIDE DEF more, S
    <3>6. ImageOk(image \o more)
      BY <3>5, ImageGrows DEF BuildInv
    <3> QED
      BY <1>0, <2>1, <2>3, <2>5, <3>6 DEF Built
  <2> QED
    BY <2>1, <2>4, <2>5
<1>3. CASE FillIn
  <2> DEFINE frame == Last(frames)
  <2>1. /\ frames # <<>> /\ frames' = Front(frames)
        /\ image' = [k \in DOMAIN image |->
                       LET n == k - (frame.diroffset + 1) IN
                       IF n \in DOMAIN frame.entries THEN frame.entries[n] ELSE image[k]]
    BY <1>3 DEF FillIn
  <2>2. FrameOk(frame) /\ FramesOk(Front(frames))
    BY <2>1, LastFrame DEF BuildInv
  <2> HIDE DEF frame
  <2>3. frame.diroffset \in Nat /\ frame.diroffset >= 1
    BY <2>2 DEF FrameOk
  <2>4. DOMAIN frame.entries = 1 .. Len(frame.entries) /\ Len(frame.entries) \in Nat
    BY <2>2 DEF FrameOk
  <2>5. PICK S : image \in Seq(S)
    BY DEF BuildInv, ImageOk
  <2>6. Len(image) \in Nat /\ Len(image) >= 1 /\ DOMAIN image = 1 .. Len(image)
        /\ image[1].type = "DIR"
    BY <2>5 DEF BuildInv, ImageOk
  <2>7. image'[1] = image[1]
    <3>1. 1 \in DOMAIN image
      BY <2>6
    <3>2. 1 - (frame.diroffset + 1) \notin DOMAIN frame.entries
      BY <2>3, <2>4
    <3> QED
      BY <2>1, <3>1, <3>2
  <2> DEFINE T == {image'[k] : k \in 1 .. Len(image)}
  <2>8. image' \in Seq(T) /\ Len(image') = Len(image)
    <3>1. DOMAIN image' = 1 .. Len(image)
      BY <2>1, <2>6, Zenon
    <3>2. image' = [k \in 1 .. Len(image) |-> image'[k]]
      BY <2>1, <2>6, Zenon
    <3>3. image' \in [1 .. Len(image) -> T]
      BY <3>2
    <3> HIDE DEF T
    <3> QED
      BY <2>6, <3>1, <3>3, SeqDef, LenProperties
  <2>9. ImageOk(image')
    BY <2>6, <2>7, <2>8 DEF ImageOk
  <2> QED
    BY <1>0, <2>1, <2>2, <2>9 DEF Built
<1> QED
  BY <1>1, <1>2, <1>3 DEF BuildNext

-----------------------------------------------------------------------------
(***************************************************************************)
(* The working directories.                                                *)
(***************************************************************************)

(* While the image is built, only the first process exists and it is in    *)
(* the root; afterwards the image never changes.                           *)
FilesInv ==
  /\ BuildInv
  /\ exists \subseteq Pids /\ cwd = [p \in Pids |-> cwd[p]]
  /\ ~ Built => exists = {1} /\ cwd[1] = <<"/">>
  /\ Built => \A p \in exists : LeadsToDir(image, cwd[p])

LEMMA RootIsDir ==
  ASSUME NEW img, ImageOk(img), NEW path, path = <<>> \/ path = <<"/">>
  PROVE  LeadsToDir(img, path)
<1>1. get_directory_entry(img, path) = 0
  BY NoComponents, RootEntry
<1>2. Len(img) \in Nat /\ Len(img) >= 1 /\ img[1].type = "DIR"
  BY DEF ImageOk
<1>3. Cell(img, 0) = img[1]
  BY <1>2 DEF Cell
<1> QED
  BY <1>1, <1>2, <1>3 DEF LeadsToDir, NotFound

LEMMA FilesInvInit == FilesInit => FilesInv
<1> SUFFICES ASSUME FilesInit PROVE FilesInv
  OBVIOUS
<1> DEFINE r == Entry("DIR", Uninitialized, 0, 1, <<"R", "O", "O", "T">>)
<1>1. image = <<r>> /\ frames = <<>>
  BY DEF FilesInit, BuildInit
<1>2. r.type = "DIR"
  BY DEF Entry
<1> HIDE DEF r
<1>3. image \in Seq({r}) /\ Len(image) = 1 /\ image[1] = r
  BY <1>1
<1>4. ImageOk(image) /\ ~ Built
  BY <1>2, <1>3 DEF ImageOk, Built
<1>5. FramesOk(frames)
  <2> DEFINE F == {}
  <2>1. frames \in Seq(F) /\ \A e \in F : FrameOk(e)
    BY <1>1
  <2> HIDE DEF F
  <2> QED
    BY <2>1, Zenon DEF FramesOk
<1>6. 1 \in Pids
  BY FilesAssumption DEF Pids
<1>7. exists = {1} /\ cwd = [p \in Pids |-> IF p = 1 THEN <<"/">> ELSE <<>>]
  BY DEF FilesInit
<1>8. cwd = [p \in Pids |-> cwd[p]] /\ cwd[1] = <<"/">>
  BY <1>6, <1>7
<1> QED
  BY <1>4, <1>5, <1>6, <1>7, <1>8 DEF FilesInv, BuildInv

LEMMA CallStep ==
  ASSUME FilesInv, Built, NEW p \in exists, Call(p), UNCHANGED buildVars
  PROVE  FilesInv'
<1>0. /\ UNCHANGED <<image, frames>> /\ p \in Pids /\ exists \subseteq Pids
      /\ cwd = [q \in Pids |-> cwd[q]]
  BY DEF buildVars, FilesInv
<1>1. \A q \in exists : LeadsToDir(image, cwd[q])
  BY DEF FilesInv
<1>2. BuildInv' /\ Built'
  <2>1. BuildInv' <=> BuildInv
    BY <1>0 DEF BuildInv
  <2>2. Built' <=> Built
    BY <1>0 DEF Built
  <2> QED
    BY <2>1, <2>2 DEF FilesInv
<1>3. SUFFICES /\ exists' \subseteq Pids /\ cwd' = [q \in Pids |-> cwd'[q]]
               /\ \A q \in exists' : LeadsToDir(image, cwd'[q])
  <2>1. (\A q \in exists : LeadsToDir(image, cwd[q]))' <=>
          \A q \in exists' : LeadsToDir(image, cwd'[q])
    BY <1>0
  <2> QED
    BY <1>2, <1>3, <2>1 DEF FilesInv
<1>4. ASSUME UNCHANGED <<exists, cwd>>
      PROVE  /\ exists' \subseteq Pids /\ cwd' = [q \in Pids |-> cwd'[q]]
             /\ \A q \in exists' : LeadsToDir(image, cwd'[q])
  BY <1>0, <1>1, <1>4
<1>5. ASSUME NEW q \in Pids, NEW dir, cwd' = [cwd EXCEPT ![q] = dir]
      PROVE  /\ cwd' = [r \in Pids |-> cwd'[r]]
             /\ \A r \in Pids : cwd'[r] = IF r = q THEN dir ELSE cwd[r]
  BY <1>0, <1>5
<1>6. ASSUME NEW path \in Entered, syscall_chdir(p, path)
      PROVE  /\ exists' \subseteq Pids /\ cwd' = [q \in Pids |-> cwd'[q]]
             /\ \A q \in exists' : LeadsToDir(image, cwd'[q])
  <2>1. PICK slash \in SlashBefore(p) :
          /\ IsDir(Found(p, path, slash))
          /\ cwd' = [cwd EXCEPT ![p] = AbsPath(p, path, slash)] /\ exists' = exists
    BY <1>6 DEF syscall_chdir
  <2>2. LeadsToDir(image, AbsPath(p, path, slash))
    BY <2>1 DEF IsDir, Found, LeadsToDir
  <2> QED
    BY <1>0, <1>1, <1>5, <2>1, <2>2
<1>7. ASSUME NEW child \in Pids, NEW dir, NewProcess(p, child, dir), LeadsToDir(image, dir)
      PROVE  /\ exists' \subseteq Pids /\ cwd' = [q \in Pids |-> cwd'[q]]
             /\ \A q \in exists' : LeadsToDir(image, cwd'[q])
  <2>1. exists' = exists \cup {child} /\ cwd' = [cwd EXCEPT ![child] = dir]
    BY <1>7 DEF NewProcess
  <2> QED
    BY <1>0, <1>1, <1>5, <1>7, <2>1
<1>8. ASSUME NEW child \in Pids, syscall_fork(p, child) \/ syscall_vfork(p, child)
      PROVE  /\ exists' \subseteq Pids /\ cwd' = [q \in Pids |-> cwd'[q]]
             /\ \A q \in exists' : LeadsToDir(image, cwd'[q])
  <2>1. LeadsToDir(image, cwd[p]) /\ LeadsToDir(image, <<>>)
    BY <1>1, RootIsDir DEF FilesInv, BuildInv
  <2> QED
    BY <1>7, <1>8, <2>1 DEF syscall_fork, syscall_vfork
<1>9. CASE syscall_exit(p)
  <2>1. exists' = exists \ {p} /\ cwd' = [cwd EXCEPT ![p] = <<>>]
    BY <1>9 DEF syscall_exit
  <2> QED
    BY <1>0, <1>1, <1>5, <2>1
<1>10. ASSUME \/ \E path \in Opened, flags \in Flags : syscall_open(p, path, flags)
              \/ \E fd \in FDs, count \in Counts : file_read(p, fd, count)
              \/ \E fd \in FDs : syscall_getdent(p, fd)
              \/ \E fd \in FDs : syscall_close(p, fd)
              \/ \E oldfd, newfd \in FDs : syscall_dup2(p, oldfd, newfd)
       PROVE  UNCHANGED <<exists, cwd>>
  BY <1>10 DEF syscall_open, file_read, syscall_getdent, syscall_close, syscall_dup2
<1> QED
  BY <1>4, <1>6, <1>8, <1>9, <1>10 DEF Call

LEMMA FilesInvNext ==
  ASSUME FilesInv, [Next]_vars
  PROVE  FilesInv'
<1>1. CASE UNCHANGED vars
  BY <1>1 DEF vars, buildVars, callVars, FilesInv, BuildInv, Built
<1>2. CASE BuildNext /\ UNCHANGED callVars
  <2>1. BuildInv' /\ ~ Built /\ UNCHANGED <<exists, cwd>>
    BY <1>2, BuildStep DEF callVars, FilesInv
  <2>2. exists = {1} /\ cwd[1] = <<"/">>
    BY <2>1 DEF FilesInv
  <2>3. ImageOk(image')
    <3>1. BuildInv' => ImageOk(image')
      BY DEF BuildInv, ImageOk
    <3> QED
      BY <2>1, <3>1
  <2>4. LeadsToDir(image', <<"/">>)
    BY <2>3, RootIsDir
  <2>5. \A p \in exists' : LeadsToDir(image', cwd'[p])
    BY <2>1, <2>2, <2>4
  <2>6. (\A p \in exists : LeadsToDir(image, cwd[p]))' <=>
          \A p \in exists' : LeadsToDir(image', cwd'[p])
    BY DEF LeadsToDir, get_directory_entry, lookup, Cell
  <2> QED
    BY <2>1, <2>2, <2>5, <2>6 DEF FilesInv
<1>3. CASE Built /\ (\E p \in exists : Call(p)) /\ UNCHANGED buildVars
  BY <1>3, CallStep
<1> QED
  BY <1>1, <1>2, <1>3 DEF Next

(* Whatever paths programs change to, in whatever order processes fork,    *)
(* vfork and exit and however relative_to_absolute cuts a path: every      *)
(* process is in a directory of the image (fscalls.c, syscall_chdir;       *)
(* unixproc.c, syscall_fork). fstool never overwrites the root's entry.    *)
THEOREM AlwaysInADirectory == Spec => []CwdIsDirectory
<1>1. FilesInv => CwdIsDirectory
  BY DEF FilesInv, CwdIsDirectory, LeadsToDir
<1>2. FilesInv /\ [Next]_vars => FilesInv'
  BY FilesInvNext
<1> QED
  BY <1>1, <1>2, FilesInvInit, PTL DEF Spec

-----------------------------------------------------------------------------
(***************************************************************************)
(* Texts and lists of names.                                               *)
(***************************************************************************)
IsSeq(s) == \E C : s \in Seq(C)
IsNames(ns) == IsSeq(ns) /\ \A k \in 1 .. Len(ns) : IsSeq(ns[k])

LEMMA SeqIs ==
  ASSUME NEW n \in Nat, NEW s, s = [k \in 1 .. n |-> s[k]]
  PROVE  IsSeq(s) /\ Len(s) = n
<1> DEFINE C == {s[k] : k \in 1 .. n}
<1>1. s \in [1 .. n -> C] /\ DOMAIN s = 1 .. n
  OBVIOUS
<1> HIDE DEF C
<1>2. s \in Seq(C)
  BY <1>1, SeqDef
<1>3. Len(s) = n
  BY <1>1, <1>2, LenProperties
<1> QED
  BY <1>2, <1>3 DEF IsSeq

LEMMA SeqFacts ==
  ASSUME NEW s, IsSeq(s)
  PROVE  Len(s) \in Nat /\ DOMAIN s = 1 .. Len(s) /\ s = [k \in 1 .. Len(s) |-> s[k]]
<1>1. PICK C : s \in Seq(C)
  BY DEF IsSeq
<1> QED
  BY <1>1, LenProperties, SeqDef

(* Two texts with the same characters are the same.                        *)
LEMMA SameTexts ==
  ASSUME NEW s, IsSeq(s), NEW t, IsSeq(t), Len(s) = Len(t), \A k \in 1 .. Len(s) : s[k] = t[k]
  PROVE  s = t
<1>1. s = [k \in 1 .. Len(s) |-> s[k]] /\ t = [k \in 1 .. Len(t) |-> t[k]]
  BY SeqFacts
<1>2. [k \in 1 .. Len(s) |-> s[k]] = [k \in 1 .. Len(s) |-> t[k]]
  OBVIOUS
<1> QED
  BY <1>1, <1>2, Zenon

LEMMA SeqConcat ==
  ASSUME NEW s, IsSeq(s), NEW t, IsSeq(t)
  PROVE  /\ IsSeq(s \o t) /\ Len(s \o t) = Len(s) + Len(t)
         /\ \A k \in 1 .. (Len(s) + Len(t)) :
              (s \o t)[k] = IF k <= Len(s) THEN s[k] ELSE t[k - Len(s)]
<1>1. PICK C : s \in Seq(C)
  BY DEF IsSeq
<1>2. PICK D : t \in Seq(D)
  BY DEF IsSeq
<1> DEFINE Q == C \cup D
<1>3. s \in Seq(Q) /\ t \in Seq(Q)
  BY <1>1, <1>2
<1> HIDE DEF Q
<1>4. s \o t \in Seq(Q)
  BY <1>3, ConcatProperties
<1> QED
  BY <1>3, <1>4, ConcatProperties DEF IsSeq

LEMMA SeqAppend ==
  ASSUME NEW s, IsSeq(s), NEW e
  PROVE  /\ IsSeq(Append(s, e)) /\ Len(Append(s, e)) = Len(s) + 1
         /\ \A k \in 1 .. (Len(s) + 1) : Append(s, e)[k] = IF k <= Len(s) THEN s[k] ELSE e
<1>1. PICK C : s \in Seq(C)
  BY DEF IsSeq
<1> DEFINE Q == C \cup {e}
<1>2. s \in Seq(Q) /\ e \in Q
  BY <1>1
<1> HIDE DEF Q
<1>3. /\ Append(s, e) \in Seq(Q) /\ Len(Append(s, e)) = Len(s) + 1
      /\ \A k \in 1 .. Len(s) : Append(s, e)[k] = s[k]
      /\ Append(s, e)[Len(s) + 1] = e
  BY <1>2, AppendProperties
<1>4. Len(s) \in Nat
  BY <1>2
<1> QED
  BY <1>3, <1>4 DEF IsSeq

LEMMA SeqPart ==
  ASSUME NEW s, IsSeq(s), NEW m \in 1 .. (Len(s) + 1), NEW n \in 0 .. Len(s), m <= n + 1
  PROVE  /\ IsSeq(SubSeq(s, m, n)) /\ Len(SubSeq(s, m, n)) = n - m + 1
         /\ \A k \in 1 .. (n - m + 1) : SubSeq(s, m, n)[k] = s[m + k - 1]
<1>1. PICK C : s \in Seq(C)
  BY DEF IsSeq
<1>2. Len(s) \in Nat
  BY <1>1
<1>3. SubSeq(s, m, n) \in Seq(C) /\ Len(SubSeq(s, m, n)) = n - m + 1
      /\ \A k \in 1 .. (n - m + 1) : SubSeq(s, m, n)[k] = s[m + k - 1]
  BY <1>1, <1>2
<1> QED
  BY <1>3 DEF IsSeq

-----------------------------------------------------------------------------
(***************************************************************************)
(* The components of a path are texts.                                     *)
(***************************************************************************)
AtSlash(path, k) == k > Len(path) \/ path[k] = "/"
NameEnd(path, k) ==
  CHOOSE e \in k .. (Len(path) + 1) : AtSlash(path, e) /\ \A j \in k .. (e - 1) : ~ AtSlash(path, j)
Split(f, path, k) ==
  IF k > Len(path) THEN <<>>
  ELSE IF AtSlash(path, k) THEN f[k + 1]
  ELSE <<SubSeq(path, k, NameEnd(path, k) - 1)>> \o f[NameEnd(path, k)]
SplitFrom(f, path, m) == f = [k \in m .. (Len(path) + 1) |-> Split(f, path, k)]

LEMMA NameEnds ==
  ASSUME NEW path, Len(path) \in Nat, NEW k \in 1 .. Len(path), ~ AtSlash(path, k)
  PROVE  NameEnd(path, k) \in (k + 1) .. (Len(path) + 1)
<1> DEFINE S == {e \in Nat : e >= k /\ AtSlash(path, e)}
<1>1. S \in SUBSET Nat /\ Len(path) + 1 \in S
  BY DEF AtSlash
<1>2. PICK e \in S : \A y \in S : e <= y
  BY <1>1, LeastNat
<1>3. e \in k .. (Len(path) + 1) /\ AtSlash(path, e)
  BY <1>1, <1>2
<1>4. \A j \in k .. (e - 1) : ~ AtSlash(path, j)
  BY <1>2, <1>3
<1> DEFINE P(x) == AtSlash(path, x) /\ \A j \in k .. (x - 1) : ~ AtSlash(path, j)
           z == CHOOSE x \in k .. (Len(path) + 1) : P(x)
<1>5. P(e)
  BY <1>3, <1>4
<1> HIDE DEF P
<1>6. z \in k .. (Len(path) + 1) /\ P(z)
  BY <1>3, <1>5, Zenon
<1>7. NameEnd(path, k) = z
  BY DEF NameEnd, P
<1>8. AtSlash(path, z)
  BY <1>6 DEF P
<1> HIDE DEF z
<1>9. z # k
  BY <1>8
<1> QED
  BY <1>6, <1>7, <1>9

LEMMA SplitExists ==
  ASSUME NEW path, Len(path) \in Nat
  PROVE  \E f : SplitFrom(f, path, 1)
<1> DEFINE L == Len(path) + 1
           Bad == {j \in 0 .. Len(path) : ~ \E f : SplitFrom(f, path, L - j)}
<1>1. SUFFICES ASSUME Bad # {} PROVE FALSE
  <2>1. Len(path) \notin Bad /\ L - Len(path) = 1
    BY <1>1
  <2> QED
    BY <2>1
<1>a. Bad \in SUBSET Nat
  OBVIOUS
<1>2. PICK j \in Bad : \A y \in Bad : j <= y
  BY <1>1, <1>a, LeastNat
<1>3. j # 0
  <2> DEFINE g == [k \in L .. L |-> <<>>]
  <2>1. \A k \in L .. L : k > Len(path)
    OBVIOUS
  <2>2. \A k \in L .. L : Split(g, path, k) = <<>>
    BY <2>1 DEF Split
  <2>3. SplitFrom(g, path, L)
    BY <2>2 DEF SplitFrom
  <2>4. L - 0 = L
    OBVIOUS
  <2> QED
    BY <1>2, <2>3, <2>4
<1> DEFINE m == L - j
<1>4. m \in 1 .. Len(path) /\ L - (j - 1) = m + 1 /\ j - 1 \notin Bad /\ j - 1 \in 0 .. Len(path)
  BY <1>2, <1>3
<1>5. PICK f : SplitFrom(f, path, m + 1)
  BY <1>4
<1> HIDE DEF m
<1> DEFINE v == Split(f, path, m)
           g == [k \in m .. L |-> IF k = m THEN v ELSE f[k]]
<1>6. \A k \in (m + 1) .. L : f[k] = Split(f, path, k)
  BY <1>5, Zenon DEF SplitFrom
<1>7. \A k \in (m + 1) .. L : g[k] = f[k]
  BY <1>4
<1>8. g[m] = v
  BY <1>4
<1>9. \A k \in m .. L : Split(g, path, k) = Split(f, path, k)
  <2> TAKE k \in m .. L
  <2>1. CASE k > Len(path)
    BY <2>1, Zenon DEF Split
  <2>2. CASE ~ (k > Len(path)) /\ AtSlash(path, k)
    <3>1. k + 1 \in (m + 1) .. L
      BY <1>4, <2>2
    <3>2. g[k + 1] = f[k + 1]
      BY <1>7, <3>1
    <3> QED
      BY <2>2, <3>2, Zenon DEF Split
  <2>3. CASE ~ (k > Len(path)) /\ ~ AtSlash(path, k)
    <3>1. k \in 1 .. Len(path)
      BY <1>4, <2>3
    <3>2. NameEnd(path, k) \in (k + 1) .. (Len(path) + 1)
      BY <2>3, <3>1, NameEnds
    <3>3. NameEnd(path, k) \in (m + 1) .. L
      BY <1>4, <3>2
    <3>4. g[NameEnd(path, k)] = f[NameEnd(path, k)]
      BY <1>7, <3>3
    <3>5. \A h : Split(h, path, k) =
            <<SubSeq(path, k, NameEnd(path, k) - 1)>> \o h[NameEnd(path, k)]
      BY <2>3, Zenon DEF Split
    <3> HIDE DEF g
    <3> QED
      BY <3>4, <3>5, Zenon
  <2> QED
    BY <2>1, <2>2, <2>3
<1>10. \A k \in m .. L : g[k] = Split(g, path, k)
  <2> TAKE k \in m .. L
  <2>1. k = m \/ k \in (m + 1) .. L
    BY <1>4
  <2> HIDE DEF g
  <2> QED
    BY <1>6, <1>7, <1>8, <1>9, <2>1
<1>11. SplitFrom(g, path, m)
  BY <1>10 DEF SplitFrom
<1> QED
  BY <1>2, <1>11 DEF m

LEMMA ComponentsAreNames ==
  ASSUME NEW path, IsSeq(path)
  PROVE  IsNames(Components(path))
<1>0. Len(path) \in Nat
  BY SeqFacts
<1> DEFINE L == Len(path) + 1
           W(f) == SplitFrom(f, path, 1)
           from == CHOOSE f : W(f)
<1>1. Components(path) = from[1]
  BY DEF Components, SplitFrom, Split, NameEnd, AtSlash
<1>2. W(from)
  BY <1>0, SplitExists, Zenon
<1> HIDE DEF from
<1>3. \A k \in 1 .. L : from[k] = Split(from, path, k)
  BY <1>2, Zenon DEF SplitFrom
<1> DEFINE Bad == {j \in 0 .. Len(path) : ~ IsNames(from[L - j])}
<1>4. ASSUME Bad # {} PROVE FALSE
  <2>1. Bad \in SUBSET Nat
    OBVIOUS
  <2>2. PICK j \in Bad : \A y \in Bad : j <= y
    BY <1>4, <2>1, LeastNat
  <2>3. PICK m : m = L - j
    OBVIOUS
  <2>4. m \in 1 .. L
    BY <1>0, <2>2, <2>3
  <2>5. \A k \in (m + 1) .. L : IsNames(from[k])
    <3> TAKE k \in (m + 1) .. L
    <3>1. L - k \in 0 .. Len(path) /\ L - k < j /\ L - (L - k) = k
      BY <1>0, <2>2, <2>3
    <3>2. L - k \notin Bad
      BY <2>2, <3>1
    <3> QED
      BY <3>1, <3>2
  <2>6. IsNames(<<>>)
    <3>1. <<>> \in Seq({}) /\ Len(<<>>) = 0
      OBVIOUS
    <3> QED
      BY <3>1 DEF IsNames, IsSeq
  <2>7. IsNames(Split(from, path, m))
    <3>1. CASE m > Len(path)
      BY <2>6, <3>1, Zenon DEF Split
    <3>2. CASE ~ (m > Len(path)) /\ AtSlash(path, m)
      <4>1. m + 1 \in (m + 1) .. L
        BY <1>0, <2>4, <3>2
      <4> QED
        BY <2>5, <3>2, <4>1, Zenon DEF Split
    <3>3. CASE ~ (m > Len(path)) /\ ~ AtSlash(path, m)
      <4>1. m \in 1 .. Len(path)
        BY <1>0, <2>4, <3>3
      <4>2. PICK e : e = NameEnd(path, m)
        OBVIOUS
      <4>3. e \in (m + 1) .. L
        BY <1>0, <3>3, <4>1, <4>2, NameEnds
      <4> DEFINE word == SubSeq(path, m, e - 1)
      <4>4. IsSeq(word)
        BY <1>0, <4>1, <4>3, SeqPart
      <4> HIDE DEF word
      <4>5. IsNames(from[e])
        BY <2>5, <4>3
      <4>6. IsSeq(<<word>>) /\ Len(<<word>>) = 1 /\ <<word>>[1] = word
        <5>1. <<word>> \in Seq({word})
          OBVIOUS
        <5> QED
          BY <5>1 DEF IsSeq
      <4> DEFINE all == <<word>> \o from[e]
      <4>7. /\ IsSeq(all) /\ Len(all) = 1 + Len(from[e])
            /\ \A k \in 1 .. (1 + Len(from[e])) :
                 all[k] = IF k <= 1 THEN <<word>>[k] ELSE from[e][k - 1]
        BY <4>5, <4>6, SeqConcat DEF IsNames
      <4>8. Len(from[e]) \in Nat
        BY <4>5, SeqFacts DEF IsNames
      <4> HIDE DEF all
      <4>9. \A k \in 1 .. Len(all) : IsSeq(all[k])
        <5> TAKE k \in 1 .. Len(all)
        <5>1. CASE k = 1
          BY <4>4, <4>6, <4>7, <4>8, <5>1
        <5>2. CASE k # 1
          <6>1. k - 1 \in 1 .. Len(from[e]) /\ all[k] = from[e][k - 1]
            BY <4>7, <4>8, <5>2
          <6> QED
            BY <4>5, <6>1 DEF IsNames
        <5> QED
          BY <5>1, <5>2
      <4>10. Split(from, path, m) = all
        BY <3>3, <4>2, Zenon DEF Split, all, word
      <4> QED
        BY <4>7, <4>9, <4>10 DEF IsNames
    <3> QED
      BY <3>1, <3>2, <3>3
  <2> QED
    BY <1>3, <2>2, <2>3, <2>4, <2>7
<1>5. 1 = L - Len(path) /\ Len(path) \in 0 .. Len(path)
  BY <1>0
<1>6. IsNames(from[1])
  BY <1>4, <1>5
<1> QED
  BY <1>1, <1>6

-----------------------------------------------------------------------------
(***************************************************************************)
(* relative_to_absolute makes a text of texts.                             *)
(***************************************************************************)
LEMMA GreatestUpTo ==
  ASSUME NEW n \in Nat, NEW S \in SUBSET (0 .. n), S # {}
  PROVE  Max(S) \in S
<1> DEFINE R == {k \in 0 .. n : n - k \in S}
<1>1. R \in SUBSET Nat /\ R # {}
  <2>1. PICK x \in S : TRUE
    OBVIOUS
  <2>2. n - x \in 0 .. n /\ n - (n - x) = x
    BY <2>1
  <2>3. n - x \in R
    BY <2>1, <2>2
  <2>4. R \in SUBSET Nat
    OBVIOUS
  <2> QED
    BY <2>3, <2>4
<1>2. PICK k \in R : \A y \in R : k <= y
  BY <1>1, LeastNat
<1>3. n - k \in S /\ k \in 0 .. n
  BY <1>2
<1>4. \A y \in S : n - k >= y
  <2> TAKE y \in S
  <2>1. n - y \in 0 .. n /\ n - (n - y) = y
    OBVIOUS
  <2>2. n - y \in R
    BY <2>1
  <2> QED
    BY <1>2, <1>3, <2>1, <2>2
<1> DEFINE P(x) == \A y \in S : x >= y
<1>5. Max(S) = CHOOSE x \in S : P(x)
  BY DEF Max
<1>6. P(n - k)
  BY <1>4
<1> HIDE DEF P
<1> QED
  BY <1>3, <1>5, <1>6, Zenon

LEMMA LeastOf ==
  ASSUME NEW S \in SUBSET Nat, S # {}
  PROVE  Min(S) \in S /\ \A y \in S : Min(S) <= y
<1> DEFINE P(x) == \A y \in S : x <= y
<1>1. PICK k \in S : P(k)
  BY LeastNat
<1>2. Min(S) = CHOOSE x \in S : P(x)
  BY DEF Min
<1> HIDE DEF P
<1>3. Min(S) \in S /\ P(Min(S))
  BY <1>1, <1>2, Zenon
<1> QED
  BY <1>3 DEF P

LEMMA CutIsText ==
  ASSUME NEW path, IsSeq(path)
  PROVE  IsSeq(Cut(path))
<1>1. Len(path) \in Nat /\ PATH_MAX \in Nat /\ PATH_MAX >= 2
  BY SeqFacts, PathMaxAssumption
<1> DEFINE n == IF Len(path) < PATH_MAX THEN Len(path) ELSE PATH_MAX - 1
<1>2. n \in 0 .. Len(path)
  BY <1>1
<1>3. Cut(path) = SubSeq(path, 1, n)
  BY DEF Cut
<1> HIDE DEF n
<1>4. 1 \in 1 .. (Len(path) + 1) /\ 1 <= n + 1
  BY <1>1, <1>2
<1> QED
  BY <1>2, <1>3, <1>4, SeqPart

LEMMA WithoutLastIsText ==
  ASSUME NEW abs, IsSeq(abs)
  PROVE  IsSeq(WithoutLast(abs))
<1> DEFINE S == {0} \cup {j \in 1 .. Len(abs) : j = 1 \/ abs[j] = "/"}
           k == Max(S)
           n == IF k > 1 THEN k - 1 ELSE k
<1>1. Len(abs) \in Nat
  BY SeqFacts
<1>2. S \in SUBSET (0 .. Len(abs)) /\ S # {}
  BY <1>1
<1>3. WithoutLast(abs) = SubSeq(abs, 1, n)
  BY DEF WithoutLast
<1> HIDE DEF S
<1>4. k \in 0 .. Len(abs)
  BY <1>1, <1>2, GreatestUpTo
<1> HIDE DEF k
<1>5. n \in 0 .. Len(abs) /\ 1 \in 1 .. (Len(abs) + 1) /\ 1 <= n + 1
  BY <1>1, <1>4
<1> HIDE DEF n
<1> QED
  BY <1>3, <1>5, SeqPart

LEMMA WithNameIsText ==
  ASSUME NEW abs, IsSeq(abs), NEW name, IsSeq(name), NEW slash
  PROVE  IsSeq(WithName(abs, name, slash))
<1> DEFINE s == IF (IF abs = <<>> THEN ~ slash ELSE abs[Len(abs)] # "/") /\ Len(abs) < PATH_MAX - 1
                THEN Append(abs, "/") ELSE abs
<1>1. IsSeq(s)
  BY SeqAppend
<1>2. WithName(abs, name, slash) = Cut(s \o name)
  BY DEF WithName
<1> HIDE DEF s
<1> QED
  BY <1>1, <1>2, SeqConcat, CutIsText

AbsStep(abs, name, slash) ==
  IF name = <<".">> THEN abs
  ELSE IF name = <<".", ".">> THEN WithoutLast(abs)
  ELSE WithName(abs, name, slash)
AbsWalk(f, a, names, slash, n) ==
  f = [k \in 0 .. n |-> IF k = 0 THEN a ELSE AbsStep(f[k - 1], names[k], slash)]

LEMMA AbsWalkExists ==
  ASSUME NEW a, NEW names, NEW slash, NEW n \in Nat
  PROVE  \E f : AbsWalk(f, a, names, slash, n)
<1> DEFINE Bad == {m \in Nat : ~ \E f : AbsWalk(f, a, names, slash, m)}
<1>1. SUFFICES ASSUME Bad # {} PROVE FALSE
  OBVIOUS
<1>2. PICK m \in Bad : \A y \in Bad : m <= y
  BY <1>1, LeastNat
<1>3. m # 0
  <2> DEFINE g == [k \in 0 .. 0 |-> a]
  <2>1. AbsWalk(g, a, names, slash, 0)
    BY DEF AbsWalk
  <2> QED
    BY <2>1
<1>4. m - 1 \in Nat /\ m - 1 \notin Bad
  BY <1>2, <1>3
<1>5. PICK f : AbsWalk(f, a, names, slash, m - 1)
  BY <1>4
<1> DEFINE v == AbsStep(f[m - 1], names[m], slash)
           g == [k \in 0 .. m |-> IF k = m THEN v ELSE f[k]]
<1>6. \A k \in 0 .. (m - 1) : f[k] = IF k = 0 THEN a ELSE AbsStep(f[k - 1], names[k], slash)
  BY <1>5, Zenon DEF AbsWalk
<1>7. \A k \in 0 .. (m - 1) : g[k] = f[k]
  BY <1>4
<1>8. \A k \in 0 .. m : g[k] = IF k = 0 THEN a ELSE AbsStep(g[k - 1], names[k], slash)
  <2> TAKE k \in 0 .. m
  <2>1. CASE k = m
    <3>1. k - 1 \in 0 .. (m - 1) /\ g[k] = v /\ k # 0
      BY <1>3, <1>4, <2>1
    <3> QED
      BY <1>7, <2>1, <3>1
  <2>2. CASE k # m
    <3>1. k \in 0 .. (m - 1) /\ (k # 0 => k - 1 \in 0 .. (m - 1))
      BY <1>4, <2>2
    <3> HIDE DEF g
    <3> QED
      BY <1>6, <1>7, <3>1
  <2> QED
    BY <2>1, <2>2
<1>9. AbsWalk(g, a, names, slash, m)
  BY <1>8 DEF AbsWalk
<1> QED
  BY <1>2, <1>9

LEMMA AbsoluteIsText ==
  ASSUME NEW base, IsSeq(base), NEW rel, IsSeq(rel), NEW slash
  PROVE  IsSeq(relative_to_absolute(base, rel, slash))
<1> DEFINE names == Components(rel)
           n == Len(names)
           a == IF rel # <<>> /\ Head(rel) = "/" THEN <<"/">> ELSE Cut(base)
           W(f) == AbsWalk(f, a, names, slash, n)
           abs == CHOOSE f : W(f)
<1>1. relative_to_absolute(base, rel, slash) = abs[n]
  BY DEF relative_to_absolute, AbsWalk, AbsStep
<1>2. IsNames(names)
  BY ComponentsAreNames
<1> HIDE DEF names
<1>3. n \in Nat
  BY <1>2, SeqFacts DEF IsNames
<1>4. IsSeq(a)
  <2>1. <<"/">> \in Seq({"/"})
    OBVIOUS
  <2>2. IsSeq(<<"/">>)
    BY <2>1 DEF IsSeq
  <2> QED
    BY <2>2, CutIsText
<1> HIDE DEF a
<1>5. W(abs)
  BY <1>3, AbsWalkExists, Zenon
<1> HIDE DEF abs, n
<1>6. \A k \in 0 .. n : abs[k] = IF k = 0 THEN a ELSE AbsStep(abs[k - 1], names[k], slash)
  BY <1>5, Zenon DEF AbsWalk
<1> DEFINE Bad == {k \in 0 .. n : ~ IsSeq(abs[k])}
<1>7. ASSUME Bad # {} PROVE FALSE
  <2>1. Bad \in SUBSET Nat
    OBVIOUS
  <2>2. PICK m \in Bad : \A y \in Bad : m <= y
    BY <1>7, <2>1, LeastNat
  <2>3. m # 0
    BY <1>4, <1>6, <2>2
  <2>4. m \in 1 .. n /\ m - 1 \in 0 .. n /\ m - 1 \notin Bad
    BY <1>3, <2>2, <2>3
  <2>5. IsSeq(abs[m - 1]) /\ IsSeq(names[m])
    BY <1>2, <2>4 DEF IsNames, n
  <2>6. abs[m] = AbsStep(abs[m - 1], names[m], slash)
    BY <1>6, <2>3, <2>4
  <2>7. IsSeq(AbsStep(abs[m - 1], names[m], slash))
    BY <2>5, WithoutLastIsText, WithNameIsText DEF AbsStep
  <2> QED
    BY <2>2, <2>6, <2>7
<1> QED
  BY <1>1, <1>3, <1>7

-----------------------------------------------------------------------------
(***************************************************************************)
(* Where things are in an image. places holds <<path, location>> for every *)
(* directory of the host that is in it.                                    *)
(***************************************************************************)
IsEntryOf(path, e) ==
  /\ e.kind = "entry" /\ e.name \in Listed(path) /\ e.location \in Nat
  /\ e.type = Host[Append(path, e.name)].type /\ e.size = Host[Append(path, e.name)].size

(* A header, and after it an entry for each name of the directory.         *)
NamesAt(img, dir, path) ==
  LET n == Cell(img, dir).count IN
  /\ path \in DOMAIN Host /\ dir \in Nat \ {0} /\ Cell(img, dir).kind = "directory" /\ n \in Nat
  /\ \A k \in 1 .. n : IsEntryOf(path, Cell(img, dir + k))
  /\ \A j, k \in 1 .. n : Cell(img, dir + j).name = Cell(img, dir + k).name => j = k
  /\ \A name \in Listed(path) : \E k \in 1 .. n : Cell(img, dir + k).name = name

BytesAt(img, location, bytes) ==
  \A k \in 1 .. Len(bytes) : Cell(img, location + k - 1) = Byte(bytes[k])

(* The location of an entry is the right one; a directory is behind the    *)
(* one that it is in.                                                      *)
Right(img, places, path, dir, e) ==
  LET q == Append(path, e.name) IN
  IF e.type = "FILE" THEN BytesAt(img, e.location, Host[q].bytes)
  ELSE <<q, e.location>> \in places /\ dir < e.location

Tree(img, places) ==
  /\ Cell(img, 0).type = "DIR" /\ <<<<>>, Cell(img, 0).location>> \in places
  /\ \A path, dir : <<path, dir>> \in places =>
       /\ NamesAt(img, dir, path)
       /\ \A k \in 1 .. Cell(img, dir).count : Right(img, places, path, dir, Cell(img, dir + k))
  /\ \A p, q, dir : <<p, dir>> \in places /\ <<q, dir>> \in places => p = q
  /\ \A dir \in Nat : Cell(img, dir).kind = "directory" => \E path : <<path, dir>> \in places

(* The entry at a location is that of a host path.                         *)
Leads(img, places, e, path) ==
  LET c == Cell(img, e) IN
  /\ path \in DOMAIN Host /\ c.type = Host[path].type
  /\ \/ c.type = "DIR" /\ <<path, c.location>> \in places
     \/ /\ c.type = "FILE" /\ c.size = Len(Host[path].bytes) /\ c.location \in Nat
        /\ BytesAt(img, c.location, Host[path].bytes)

LEMMA ListedNames ==
  ASSUME NEW path, NEW name \in Listed(path)
  PROVE  /\ Append(path, name) \in DOMAIN Host /\ IsSeq(name)
         /\ Len(name) <= NAME_MAX /\ \A k \in 1 .. Len(name) : name[k] # "%"
         /\ Host[Append(path, name)].type \in {"DIR", "FILE"}
<1>1. PICK q \in DOMAIN Host : q # <<>> /\ name = Last(q)
  BY DEF Listed
<1>2. q \in Seq(Range(q)) /\ \A k \in DOMAIN q : q[k] \in Seq(Range(q[k]))
  BY <1>1, HostAssumption
<1> DEFINE S == Range(q)
<1>3. q \in Seq(S)
  BY <1>2
<1> HIDE DEF S
<1>4. Len(q) \in DOMAIN q
  BY <1>1, <1>3
<1>5. name = q[Len(q)]
  BY <1>1 DEF Last
<1>6. name \in Seq(Range(name)) /\ Len(name) <= NAME_MAX /\ "%" \notin Range(name)
  BY <1>2, <1>4, <1>5, NamesAssumption
<1>7. IsSeq(name)
  BY <1>6 DEF IsSeq
<1>8. DOMAIN name = 1 .. Len(name)
  BY <1>7, SeqFacts
<1>9. \A k \in 1 .. Len(name) : name[k] # "%"
  BY <1>6, <1>8 DEF Range
<1>10. Host[Append(path, name)].type \in {"DIR", "FILE"}
  BY DEF Listed
<1> QED
  BY <1>6, <1>7, <1>9, <1>10, ListedExists

(* A name that is found in a directory leads to the host's file.           *)
LEMMA LookupLeads ==
  ASSUME NEW img, NEW places, Tree(img, places), NEW path, NEW dir, <<path, dir>> \in places,
         NEW name, IsSeq(name), lookup(img, dir, name) # NotFound
  PROVE  LET e == lookup(img, dir, name) IN
         e \in Nat /\ Leads(img, places, e, Append(path, name))
<1> DEFINE n == Cell(img, dir).count
           found == {k \in 1 .. n :
                       /\ Len(Cell(img, dir + k).name) = Len(name)
                       /\ SameFirst(Cell(img, dir + k).name, name, Len(name))}
           j == Min(found)
<1>1. found # {} /\ lookup(img, dir, name) = dir + j
  BY DEF lookup
<1>2. NamesAt(img, dir, path) /\ \A k \in 1 .. n : Right(img, places, path, dir, Cell(img, dir + k))
  BY DEF Tree
<1>3. n \in Nat /\ dir \in Nat
  BY <1>2 DEF NamesAt
<1>4. found \in SUBSET Nat
  OBVIOUS
<1>5. j \in found
  BY <1>1, <1>4, LeastOf
<1> HIDE DEF j
<1> DEFINE c == Cell(img, dir + j)
<1>6. j \in 1 .. n /\ Len(c.name) = Len(name) /\ SameFirst(c.name, name, Len(name))
  BY <1>5
<1>7. IsEntryOf(path, c) /\ Right(img, places, path, dir, c)
  BY <1>2, <1>6 DEF NamesAt
<1> HIDE DEF c, found, n
<1>8. c.name \in Listed(path)
  BY <1>7 DEF IsEntryOf
<1>9. IsSeq(c.name)
  BY <1>8, ListedNames
<1>10. c.name = name
  <2>1. \A k \in 1 .. Len(c.name) : c.name[k] = name[k]
    BY <1>6 DEF SameFirst
  <2> QED
    BY <1>6, <1>9, <2>1, SameTexts
<1> DEFINE q == Append(path, name)
<1>11. q \in DOMAIN Host /\ Host[q].type \in {"DIR", "FILE"}
  BY <1>8, <1>10, ListedNames
<1>12. c.type = Host[q].type /\ c.size = Host[q].size /\ c.location \in Nat
  BY <1>7, <1>10 DEF IsEntryOf
<1>13. IF c.type = "FILE" THEN BytesAt(img, c.location, Host[q].bytes)
       ELSE <<q, c.location>> \in places
  BY <1>7, <1>10 DEF Right
<1>14. c.type = "FILE" => c.size = Len(Host[q].bytes)
  BY <1>11, <1>12, HostAssumption
<1> HIDE DEF q
<1>15. Leads(img, places, dir + j, q)
  BY <1>11, <1>12, <1>13, <1>14 DEF Leads, c
<1>16. dir + j \in Nat
  BY <1>3, <1>6
<1> QED
  BY <1>1, <1>15, <1>16 DEF q

FoundStep(img, prev, name, deeper) ==
  IF prev = NotFound THEN NotFound
  ELSE LET e == lookup(img, Cell(img, prev).location, name) IN
       IF e # NotFound /\ Cell(img, e).type = "FILE" /\ deeper THEN NotFound ELSE e
FoundWalk(f, img, names, trailing, m, n) ==
  f = [k \in 0 .. n |->
         IF k = 0 THEN 0 ELSE FoundStep(img, f[k - 1], names[k], k < m \/ trailing)]

LEMMA FoundWalkExists ==
  ASSUME NEW img, NEW names, NEW trailing, NEW len, NEW n \in Nat
  PROVE  \E f : FoundWalk(f, img, names, trailing, len, n)
<1> DEFINE Step(p, k) == FoundStep(img, p, names[k], k < len \/ trailing)
           Bad == {m \in Nat : ~ \E f : FoundWalk(f, img, names, trailing, len, m)}
<1>1. SUFFICES ASSUME Bad # {} PROVE FALSE
  OBVIOUS
<1>2. PICK m \in Bad : \A y \in Bad : m <= y
  BY <1>1, LeastNat
<1>3. m # 0
  <2> DEFINE g == [k \in 0 .. 0 |-> 0]
  <2>1. FoundWalk(g, img, names, trailing, len, 0)
    BY DEF FoundWalk
  <2> QED
    BY <2>1
<1>4. m - 1 \in Nat /\ m - 1 \notin Bad
  BY <1>2, <1>3
<1>5. PICK f : FoundWalk(f, img, names, trailing, len, m - 1)
  BY <1>4
<1> DEFINE v == Step(f[m - 1], m)
           g == [k \in 0 .. m |-> IF k = m THEN v ELSE f[k]]
<1>6. \A k \in 0 .. (m - 1) : f[k] = IF k = 0 THEN 0 ELSE Step(f[k - 1], k)
  BY <1>5, Zenon DEF FoundWalk
<1>a. \A h : FoundWalk(h, img, names, trailing, len, m) <=>
               h = [k \in 0 .. m |-> IF k = 0 THEN 0 ELSE Step(h[k - 1], k)]
  BY Zenon DEF FoundWalk
<1> HIDE DEF Step
<1>7. \A k \in 0 .. (m - 1) : g[k] = f[k]
  BY <1>4
<1>8. \A k \in 0 .. m : g[k] = IF k = 0 THEN 0 ELSE Step(g[k - 1], k)
  <2> TAKE k \in 0 .. m
  <2>1. CASE k = m
    <3>1. k - 1 \in 0 .. (m - 1) /\ g[k] = v /\ k # 0
      BY <1>3, <1>4, <2>1
    <3> QED
      BY <1>7, <2>1, <3>1
  <2>2. CASE k # m
    <3>1. k \in 0 .. (m - 1) /\ (k # 0 => k - 1 \in 0 .. (m - 1))
      BY <1>4, <2>2
    <3> HIDE DEF g
    <3> QED
      BY <1>6, <1>7, <3>1
  <2> QED
    BY <2>1, <2>2
<1>9. FoundWalk(g, img, names, trailing, len, m)
  BY <1>8, <1>a
<1> QED
  BY <1>2, <1>9

(* What get_directory_entry finds in an image is the host's file of that   *)
(* path.                                                                   *)
LEMMA EntryLeads ==
  ASSUME NEW img, NEW places, Tree(img, places), NEW path, IsSeq(path),
         get_directory_entry(img, path) # NotFound
  PROVE  LET e == get_directory_entry(img, path) IN
         e \in Nat /\ Leads(img, places, e, Components(path))
<1> DEFINE names == Components(path)
           n == Len(names)
           trailing == path[Len(path)] = "/"
           W(f) == FoundWalk(f, img, names, trailing, n, n)
           found == CHOOSE f : W(f)
<1>1. get_directory_entry(img, path) = found[n]
  BY DEF get_directory_entry, FoundWalk, FoundStep
<1>2. IsNames(names)
  BY ComponentsAreNames
<1> HIDE DEF names
<1>3. n \in Nat
  BY <1>2, SeqFacts DEF IsNames
<1>4. W(found)
  BY <1>3, FoundWalkExists, Zenon
<1> HIDE DEF found, n
<1>5. \A k \in 0 .. n : found[k] =
        IF k = 0 THEN 0 ELSE FoundStep(img, found[k - 1], names[k], k < n \/ trailing)
  BY <1>4, Zenon DEF FoundWalk
<1> HIDE DEF trailing
<1> DEFINE pre(k) == SubSeq(names, 1, k)
           Good(k) == found[k] = NotFound \/
                        /\ found[k] \in Nat /\ Leads(img, places, found[k], pre(k))
                        /\ k < n => Cell(img, found[k]).type = "DIR"
           Bad == {k \in 0 .. n : ~ Good(k)}
<1>6. Good(0)
  <2>1. pre(0) = <<>>
    BY <1>2 DEF IsNames, IsSeq
  <2>2. found[0] = 0
    BY <1>3, <1>5
  <2>3. <<>> \in DOMAIN Host /\ Host[<<>>].type = "DIR"
    BY HostAssumption
  <2>4. Leads(img, places, 0, <<>>) /\ Cell(img, 0).type = "DIR"
    BY <2>3 DEF Leads, Tree
  <2> HIDE DEF pre
  <2>5. Leads(img, places, found[0], pre(0)) /\ Cell(img, found[0]).type = "DIR"
    BY <2>1, <2>2, <2>4, Zenon
  <2> QED
    BY <2>2, <2>5
<1>7. ASSUME NEW m \in 1 .. n, Good(m - 1) PROVE Good(m)
  <2>1. found[m] = FoundStep(img, found[m - 1], names[m], m < n \/ trailing)
    BY <1>3, <1>5, <1>7
  <2>2. CASE found[m] = NotFound
    BY <2>2
  <2>3. CASE found[m] # NotFound
    <3> DEFINE p == found[m - 1]
               dir == Cell(img, p).location
               e == lookup(img, dir, names[m])
    <3>1. p # NotFound /\ found[m] = e
          /\ (Cell(img, e).type = "FILE" => ~ (m < n \/ trailing))
      BY <2>1, <2>3 DEF FoundStep
    <3>2. m - 1 < n
      BY <1>3
    <3>3. Leads(img, places, p, pre(m - 1)) /\ Cell(img, p).type = "DIR"
      BY <1>7, <3>1, <3>2
    <3>4. <<pre(m - 1), dir>> \in places
      BY <3>3 DEF Leads
    <3>5. IsSeq(names[m])
      BY <1>2 DEF IsNames, n
    <3>6. Append(pre(m - 1), names[m]) = pre(m)
      <4>1. PICK C : names \in Seq(C)
        BY <1>2 DEF IsNames, IsSeq
      <4>2. m \in 1 .. Len(names) /\ Len(names) \in Nat
        BY <1>3 DEF n
      <4> QED
        BY <4>1, <4>2
    <3> HIDE DEF p, dir, e, pre
    <3>7. e \in Nat /\ Leads(img, places, e, pre(m))
      <4>1. lookup(img, dir, names[m]) # NotFound
        BY <2>3, <3>1 DEF e
      <4> QED
        BY <3>4, <3>5, <3>6, <4>1, LookupLeads DEF e
    <3>8. m < n => Cell(img, e).type = "DIR"
      BY <3>1, <3>7 DEF Leads
    <3> QED
      BY <3>1, <3>7, <3>8
  <2> QED
    BY <2>2, <2>3
<1> HIDE DEF Good
<1>8. ASSUME Bad # {} PROVE FALSE
  <2>1. Bad \in SUBSET Nat
    OBVIOUS
  <2>2. PICK m \in Bad : \A y \in Bad : m <= y
    BY <1>8, <2>1, LeastNat
  <2>3. m # 0
    BY <1>6, <2>2
  <2>4. m \in 1 .. n /\ m - 1 \in 0 .. n /\ m - 1 \notin Bad
    BY <1>3, <2>2, <2>3
  <2> QED
    BY <1>7, <2>2, <2>4
<1>9. Good(n)
  BY <1>3, <1>8
<1>10. pre(n) = names
  <2>1. PICK C : names \in Seq(C)
    BY <1>2 DEF IsNames, IsSeq
  <2> QED
    BY <2>1 DEF n
<1> QED
  BY <1>1, <1>9, <1>10 DEF Good, names

-----------------------------------------------------------------------------
(***************************************************************************)
(* A name without "%" is printed as it is.                                 *)
(***************************************************************************)
LEMMA SplitOffFirst ==
  ASSUME NEW s, IsSeq(s), NEW k \in 1 .. Len(s)
  PROVE  <<s[k]>> \o SubSeq(s, k + 1, Len(s)) = SubSeq(s, k, Len(s))
<1>1. Len(s) \in Nat
  BY SeqFacts
<1> DEFINE n == Len(s)
           t == SubSeq(s, k + 1, n)
           u == SubSeq(s, k, n)
           w == <<s[k]>> \o t
<1>2. IsSeq(t) /\ Len(t) = n - (k + 1) + 1 /\ \A j \in 1 .. (n - (k + 1) + 1) : t[j] = s[(k + 1) + j - 1]
  BY <1>1, SeqPart
<1>3. IsSeq(u) /\ Len(u) = n - k + 1 /\ \A j \in 1 .. (n - k + 1) : u[j] = s[k + j - 1]
  BY <1>1, SeqPart
<1>4. IsSeq(<<s[k]>>) /\ Len(<<s[k]>>) = 1 /\ <<s[k]>>[1] = s[k]
  <2>1. <<s[k]>> \in Seq({s[k]})
    OBVIOUS
  <2> QED
    BY <2>1 DEF IsSeq
<1>5. /\ IsSeq(w) /\ Len(w) = 1 + Len(t)
      /\ \A j \in 1 .. (1 + Len(t)) : w[j] = IF j <= 1 THEN <<s[k]>>[j] ELSE t[j - 1]
  BY <1>2, <1>4, SeqConcat
<1> HIDE DEF n, t, u, w
<1>6. n \in Nat /\ k \in 1 .. n
  BY <1>1 DEF n
<1>7. Len(w) = Len(u)
  BY <1>2, <1>3, <1>5, <1>6
<1>8. \A j \in 1 .. Len(w) : w[j] = u[j]
  <2> TAKE j \in 1 .. Len(w)
  <2>1. CASE j = 1
    <3>1. w[j] = s[k] /\ u[j] = s[k + 1 - 1] /\ k + 1 - 1 = k
      BY <1>2, <1>3, <1>4, <1>5, <1>6, <2>1
    <3> QED
      BY <3>1
  <2>2. CASE j # 1
    <3>1. /\ w[j] = t[j - 1] /\ j - 1 \in 1 .. (n - (k + 1) + 1) /\ j \in 1 .. (n - k + 1)
          /\ (k + 1) + (j - 1) - 1 = k + j - 1
      BY <1>2, <1>5, <1>6, <2>2
    <3>2. t[j - 1] = s[(k + 1) + (j - 1) - 1]
      BY <1>2, <3>1
    <3> QED
      BY <1>3, <3>1, <3>2
  <2> QED
    BY <2>1, <2>2
<1>9. w = u
  BY <1>3, <1>5, <1>7, <1>8, SameTexts
<1> QED
  BY <1>9 DEF w, u, t, n

LEMMA PrintedAsItIs ==
  ASSUME NEW format, IsSeq(format), \A k \in 1 .. Len(format) : format[k] # "%"
  PROVE  vsnprintf(format, <<>>) = format
<1> DEFINE L == Len(format)
           At(k) == IF k <= L THEN format[k] ELSE "NUL"
           Width[k \in 1 .. (L + 1), pad \in 0 .. 99] ==
             IF IsDigit(At(k)) THEN Width[k + 1, pad * 10 + DigitValue(At(k))] ELSE <<k, pad>>
           Conversion(f, k, used) ==
             LET left  == At(k + 1) = "-"
                 width == Width[IF left THEN k + 2 ELSE k + 1, 0]
                 takes == At(width[1]) \in Conversions
                 field == print_field(At(width[1]), IF takes THEN <<>>[used + 1] ELSE 0)
                 pad   == Spaces(width[2] - Len(field))
             IN (IF left THEN field \o pad ELSE pad \o field)
                  \o f[<<width[1] + 1, IF takes THEN used + 1 ELSE used>>]
           Step(f, k, used) ==
             IF k > L THEN <<>>
             ELSE IF format[k] # "%" THEN <<format[k]>> \o f[<<k + 1, used>>]
             ELSE Conversion(f, k, used)
           D == (1 .. (L + 2)) \X (0 .. Len(<<>>))
           W(f) == f = [at \in D |-> Step(f, at[1], at[2])]
           Text == CHOOSE f : W(f)
<1>1. vsnprintf(format, <<>>) = Text[<<1, 0>>]
  BY DEF vsnprintf
<1> HIDE DEF Conversion
<1>2. L \in Nat /\ Len(<<>>) = 0
  BY SeqFacts
<1>3. \A f, used : \A k \in 1 .. (L + 2) :
        Step(f, k, used) = IF k > L THEN <<>> ELSE <<format[k]>> \o f[<<k + 1, used>>]
  <2> TAKE f, used
  <2> TAKE k \in 1 .. (L + 2)
  <2>1. ~ (k > L) => format[k] # "%"
    BY <1>2
  <2> QED
    BY <2>1, Zenon
<1> HIDE DEF Step
<1> DEFINE g == [at \in D |-> SubSeq(format, at[1], L)]
<1>4. \A k \in 1 .. (L + 2), used \in 0 .. Len(<<>>) :
        <<k, used>> \in D /\ g[<<k, used>>] = SubSeq(format, k, L)
  OBVIOUS
<1>5. \A k \in (L + 1) .. (L + 2) : SubSeq(format, k, L) = <<>>
  <2>1. \E C : format \in Seq(C)
    BY DEF IsSeq
  <2> QED
    BY <1>2, <2>1
<1>a. \A at \in D : at[1] \in 1 .. (L + 2) /\ at[2] \in 0 .. Len(<<>>) /\ at = <<at[1], at[2]>>
  OBVIOUS
<1>6. \A k \in 1 .. (L + 2), used \in 0 .. Len(<<>>) : Step(g, k, used) = SubSeq(format, k, L)
  <2> HIDE DEF g
  <2> TAKE k \in 1 .. (L + 2), used \in 0 .. Len(<<>>)
  <2>1. CASE k > L
    <3>1. k \in (L + 1) .. (L + 2)
      BY <1>2, <2>1
    <3> QED
      BY <1>3, <1>5, <2>1, <3>1
  <2>2. CASE ~ (k > L)
    <3>1. k \in 1 .. L /\ k + 1 \in 1 .. (L + 2)
      BY <1>2, <2>2
    <3>2. Step(g, k, used) = <<format[k]>> \o g[<<k + 1, used>>]
      BY <1>3, <2>2
    <3>3. g[<<k + 1, used>>] = SubSeq(format, k + 1, L)
      BY <1>4, <3>1
    <3> QED
      BY <3>1, <3>2, <3>3, SplitOffFirst
  <2> QED
    BY <2>1, <2>2
<1> HIDE DEF D
<1>7. W(g)
  <2>1. \A at \in D : Step(g, at[1], at[2]) = SubSeq(format, at[1], L)
    BY <1>6, <1>a
  <2> QED
    BY <2>1, Zenon
<1>8. W(Text)
  BY <1>7, Zenon
<1> HIDE DEF Text, g
<1>9. \A k \in 1 .. (L + 2) : Text[<<k, 0>>] = Step(Text, k, 0)
  <2> TAKE k \in 1 .. (L + 2)
  <2>1. <<k, 0>> \in D
    BY <1>2, <1>4
  <2>2. \A at \in D : Text[at] = Step(Text, at[1], at[2])
    BY <1>8, Zenon
  <2>3. <<k, 0>>[1] = k /\ <<k, 0>>[2] = 0
    OBVIOUS
  <2>4. Text[<<k, 0>>] = Step(Text, <<k, 0>>[1], <<k, 0>>[2])
    BY <2>1, <2>2, Zenon
  <2> QED
    BY <2>3, <2>4, Zenon
<1> DEFINE Rest(k) == Text[<<k, 0>>]
           Bad == {j \in 0 .. L : Rest(L + 1 - j) # SubSeq(format, L + 1 - j, L)}
<1>b. \A k \in 1 .. (L + 2) : Rest(k) = IF k > L THEN <<>> ELSE <<format[k]>> \o Rest(k + 1)
  BY <1>3, <1>9
<1>c. Rest(1) = Text[<<1, 0>>]
  OBVIOUS
<1> HIDE DEF Rest
<1>10. ASSUME Bad # {} PROVE FALSE
  <2>1. Bad \in SUBSET Nat
    OBVIOUS
  <2>2. PICK j \in Bad : \A y \in Bad : j <= y
    BY <1>10, <2>1, LeastNat
  <2>3. PICK k : k = L + 1 - j
    OBVIOUS
  <2>4. k \in 1 .. (L + 1) /\ k \in 1 .. (L + 2)
    BY <1>2, <2>2, <2>3
  <2>5. Rest(k) = IF k > L THEN <<>> ELSE <<format[k]>> \o Rest(k + 1)
    BY <1>b, <2>4
  <2>6. CASE k > L
    <3>1. k \in (L + 1) .. (L + 2)
      BY <1>2, <2>4, <2>6
    <3>2. Rest(k) = SubSeq(format, k, L)
      BY <1>5, <2>5, <2>6, <3>1
    <3> QED
      BY <2>2, <2>3, <3>2
  <2>7. CASE ~ (k > L)
    <3>1. k \in 1 .. L /\ j - 1 \in 0 .. L /\ L + 1 - (j - 1) = k + 1
      BY <1>2, <2>2, <2>3, <2>4, <2>7
    <3>2. j - 1 \notin Bad
      <4>1. ~ (j <= j - 1)
        BY <2>2
      <4> QED
        BY <2>2, <4>1, Zenon
    <3>3. Rest(k + 1) = SubSeq(format, k + 1, L)
      BY <3>1, <3>2
    <3>4. Rest(k) = SubSeq(format, k, L)
      BY <2>5, <2>7, <3>1, <3>3, SplitOffFirst
    <3> QED
      BY <2>2, <2>3, <3>4
  <2> QED
    BY <2>6, <2>7
<1>11. Rest(1) = SubSeq(format, 1, L)
  <2>1. L \in 0 .. L /\ L + 1 - L = 1
    BY <1>2
  <2> QED
    BY <1>10, <2>1
<1>12. SubSeq(format, 1, L) = format
  BY DEF IsSeq
<1> QED
  BY <1>1, <1>11, <1>12, <1>c

LEMMA NamePrinted ==
  ASSUME NEW path, NEW name \in Listed(path)
  PROVE  snprintf(NAME_MAX + 1, name, <<>>) = name
<1>1. vsnprintf(name, <<>>) = name
  BY ListedNames, PrintedAsItIs
<1>2. IsSeq(name) /\ Len(name) < NAME_MAX + 1
  BY ListedNames, SeqFacts, NamesAssumption
<1>3. SubSeq(name, 1, Len(name)) = name
  BY <1>2 DEF IsSeq
<1> QED
  BY <1>1, <1>2, <1>3 DEF snprintf

-----------------------------------------------------------------------------
(***************************************************************************)
(* The image while process_dir is at work: frames are its activations.     *)
(***************************************************************************)
FrameSet(stack) == {stack[k] : k \in 1 .. Len(stack)}

(* An activation has the entries of its directory, the first of them with  *)
(* their locations.                                                        *)
Active(img, places, f) ==
  /\ <<f.path, f.diroffset>> \in places
  /\ Len(f.entries) = Cell(img, f.diroffset).count
  /\ \A k \in 1 .. Len(f.entries) :
       /\ IsEntryOf(f.path, f.entries[k])
       /\ f.entries[k].name = Cell(img, f.diroffset + k).name
       /\ k < f.i => Right(img, places, f.path, f.diroffset, f.entries[k])

(* A directory that no activation is at work on is finished.               *)
Layout(img, F, places) ==
  /\ \A path, dir : <<path, dir>> \in places => NamesAt(img, dir, path)
  /\ \A p, q, dir : <<p, dir>> \in places /\ <<q, dir>> \in places => p = q
  /\ \A path, dir : <<path, dir>> \in places /\ (\A f \in F : f.diroffset # dir) =>
       \A k \in 1 .. Cell(img, dir).count : Right(img, places, path, dir, Cell(img, dir + k))
  /\ \A f \in F : Active(img, places, f)
  /\ \A dir \in Nat : Cell(img, dir).kind = "directory" => \E path : <<path, dir>> \in places

(* img2 has the cells of img.                                              *)
Extended(img, img2) ==
  \A l \in Nat : Cell(img, l).kind # "beyond" => Cell(img2, l) = Cell(img, l)

LEMMA NamesKept ==
  ASSUME NEW img, NEW img2, Extended(img, img2), NEW dir, NEW path, NamesAt(img, dir, path)
  PROVE  /\ NamesAt(img2, dir, path)
         /\ Cell(img2, dir) = Cell(img, dir)
         /\ \A k \in 1 .. Cell(img, dir).count : Cell(img2, dir + k) = Cell(img, dir + k)
<1> DEFINE n == Cell(img, dir).count
<1>1. dir \in Nat /\ n \in Nat /\ Cell(img, dir).kind = "directory"
  BY DEF NamesAt
<1>2. Cell(img2, dir) = Cell(img, dir)
  BY <1>1 DEF Extended
<1>3. \A k \in 1 .. n : Cell(img2, dir + k) = Cell(img, dir + k)
  <2> TAKE k \in 1 .. n
  <2>1. Cell(img, dir + k).kind = "entry"
    BY DEF NamesAt, IsEntryOf
  <2>2. dir + k \in Nat
    BY <1>1
  <2> QED
    BY <2>1, <2>2 DEF Extended
<1>4. NamesAt(img2, dir, path)
  <2>1. Cell(img2, dir).count = n
    BY <1>2
  <2> HIDE DEF n
  <2>2. \A k \in 1 .. n : IsEntryOf(path, Cell(img2, dir + k))
    BY <1>3 DEF NamesAt, n
  <2>3. \A j, k \in 1 .. n : Cell(img2, dir + j).name = Cell(img2, dir + k).name => j = k
    BY <1>3 DEF NamesAt, n
  <2>4. \A name \in Listed(path) : \E k \in 1 .. n : Cell(img2, dir + k).name = name
    <3> TAKE name \in Listed(path)
    <3>1. PICK k \in 1 .. n : Cell(img, dir + k).name = name
      BY DEF NamesAt, n
    <3> QED
      BY <1>3, <3>1
  <2>5. path \in DOMAIN Host /\ dir \in Nat \ {0} /\ Cell(img2, dir).kind = "directory"
    BY <1>1, <1>2 DEF NamesAt
  <2> QED
    BY <1>1, <2>1, <2>2, <2>3, <2>4, <2>5 DEF NamesAt
<1> QED
  BY <1>2, <1>3, <1>4

LEMMA BytesKept ==
  ASSUME NEW img, NEW img2, Extended(img, img2), NEW loc \in Nat, NEW bytes,
         BytesAt(img, loc, bytes)
  PROVE  BytesAt(img2, loc, bytes)
<1> SUFFICES ASSUME NEW k \in 1 .. Len(bytes)
             PROVE  Cell(img2, loc + k - 1) = Byte(bytes[k])
  BY DEF BytesAt
<1>1. Cell(img, loc + k - 1) = Byte(bytes[k])
  BY DEF BytesAt
<1>2. loc + k - 1 \in Nat
  OBVIOUS
<1>3. Cell(img, loc + k - 1).kind = "byte"
  BY <1>1 DEF Byte
<1> QED
  BY <1>1, <1>2, <1>3 DEF Extended

LEMMA RightKept ==
  ASSUME NEW img, NEW img2, Extended(img, img2), NEW places, NEW places2, places \subseteq places2,
         NEW path, NEW dir, NEW e, e.location \in Nat, Right(img, places, path, dir, e)
  PROVE  Right(img2, places2, path, dir, e)
<1>1. CASE e.type = "FILE"
  BY <1>1, BytesKept DEF Right
<1>2. CASE e.type # "FILE"
  BY <1>2 DEF Right
<1> QED
  BY <1>1, <1>2

LEMMA ActiveKept ==
  ASSUME NEW img, NEW img2, Extended(img, img2), NEW places, NEW places2, places \subseteq places2,
         NEW f, Active(img, places, f), NamesAt(img, f.diroffset, f.path)
  PROVE  Active(img2, places2, f)
<1> DEFINE n == Len(f.entries)
<1>1. /\ <<f.path, f.diroffset>> \in places /\ n = Cell(img, f.diroffset).count
      /\ \A k \in 1 .. n : /\ IsEntryOf(f.path, f.entries[k])
                           /\ f.entries[k].name = Cell(img, f.diroffset + k).name
                           /\ k < f.i => Right(img, places, f.path, f.diroffset, f.entries[k])
  BY DEF Active
<1>2. /\ Cell(img2, f.diroffset) = Cell(img, f.diroffset)
      /\ \A k \in 1 .. n : Cell(img2, f.diroffset + k) = Cell(img, f.diroffset + k)
  BY <1>1, NamesKept
<1>3. \A k \in 1 .. n : k < f.i => Right(img2, places2, f.path, f.diroffset, f.entries[k])
  <2> TAKE k \in 1 .. n
  <2>1. f.entries[k].location \in Nat
    BY <1>1 DEF IsEntryOf
  <2> QED
    BY <1>1, <2>1, RightKept
<1> QED
  BY <1>1, <1>2, <1>3 DEF Active

(* The activation whose next entry has been appended.                      *)
LEMMA FilledActive ==
  ASSUME NEW f, FrameOk(f), f.i <= Len(f.entries), Len(image) \in Nat,
         NEW img2, Extended(image, img2), NEW places, NEW places2, places \subseteq places2,
         Active(image, places, f), NamesAt(image, f.diroffset, f.path),
         LET e == f.entries[f.i] IN
         IF e.type = "FILE" THEN BytesAt(img2, Len(image), Host[Append(f.path, e.name)].bytes)
         ELSE <<Append(f.path, e.name), Len(image)>> \in places2
  PROVE  Active(img2, places2, Filled(f)) /\ Filled(f).diroffset = f.diroffset
<1> DEFINE L == Len(image)
           n == Len(f.entries)
           e == f.entries[f.i]
           d == [e EXCEPT !.location = L]
           g == Filled(f)
<1>0. PICK E : f.entries \in Seq(E)
  BY DEF FrameOk
<1>1. f.i \in 1 .. n /\ n \in Nat /\ L \in Nat
  BY <1>0 DEF FrameOk
<1>2. Active(img2, places2, f)
  BY ActiveKept
<1>3. IsEntryOf(f.path, e)
  BY <1>1 DEF Active
<1>4. /\ IsEntryOf(f.path, d) /\ d.name = e.name /\ d.type = e.type /\ d.location = L
  <2>1. \E t, m, s, l, a : e = Entry(t, m, s, l, a)
    BY <1>1 DEF FrameOk, IsEntry
  <2>2. PICK t, m, s, l, a : e = Entry(t, m, s, l, a)
    BY <2>1
  <2> HIDE DEF e, L
  <2>3. d = [kind |-> "entry", type |-> t, mode |-> m, size |-> s, location |-> L, name |-> a]
    BY <2>2 DEF Entry
  <2>4. /\ e.kind = "entry" /\ e.type = t /\ e.size = s /\ e.name = a
        /\ d.kind = "entry" /\ d.type = t /\ d.size = s /\ d.name = a /\ d.location = L
    BY <2>2, <2>3 DEF Entry
  <2> HIDE DEF d
  <2> QED
    BY <1>1, <1>3, <2>4 DEF IsEntryOf
<1>5. Right(img2, places2, f.path, f.diroffset, d)
  <2>1. Cell(image, f.diroffset).kind = "directory"
    BY DEF NamesAt
  <2>2. f.diroffset < L
    BY <2>1 DEF Cell, Beyond
  <2> QED
    BY <1>4, <2>2 DEF Right
<1>6. /\ g.path = f.path /\ g.diroffset = f.diroffset /\ g.i = f.i + 1
      /\ g.entries = [f.entries EXCEPT ![f.i] = d]
  <2>1. f = [path |-> f.path, entries |-> f.entries, diroffset |-> f.diroffset, i |-> f.i]
    BY DEF FrameOk
  <2> DEFINE es == [f.entries EXCEPT ![f.i] = d]
             j == f.i + 1
  <2>2. g = [f EXCEPT !.entries = es, !.i = j]
    BY DEF Filled
  <2> HIDE DEF es, j, g, d
  <2>3. g = [path |-> f.path, entries |-> es, diroffset |-> f.diroffset, i |-> j]
    BY <2>1, <2>2
  <2> QED
    BY <2>3 DEF es, j
<1> HIDE DEF d, g, L, e
<1>7. /\ Len(g.entries) = n
      /\ \A k \in 1 .. n : g.entries[k] = IF k = f.i THEN d ELSE f.entries[k]
  <2>1. f.entries \in Seq(E \cup {d})
    BY <1>0
  <2> QED
    BY <1>1, <1>6, <2>1, ExceptSeq
<1>8. ASSUME NEW k \in 1 .. n
      PROVE  /\ IsEntryOf(g.path, g.entries[k])
             /\ g.entries[k].name = Cell(img2, g.diroffset + k).name
             /\ k < g.i => Right(img2, places2, g.path, g.diroffset, g.entries[k])
  <2>1. /\ IsEntryOf(f.path, f.entries[k])
        /\ f.entries[k].name = Cell(img2, f.diroffset + k).name
        /\ k < f.i => Right(img2, places2, f.path, f.diroffset, f.entries[k])
    BY <1>2 DEF Active
  <2>2. CASE k = f.i
    BY <1>4, <1>5, <1>6, <1>7, <2>1, <2>2 DEF e
  <2>3. CASE k # f.i
    <3>1. k < g.i => k < f.i
      BY <1>1, <1>6, <2>3
    <3>2. g.entries[k] = f.entries[k]
      BY <1>7, <2>3
    <3> QED
      BY <1>6, <2>1, <3>1, <3>2
  <2> QED
    BY <2>2, <2>3
<1>9. Active(img2, places2, g)
  <2>1. <<g.path, g.diroffset>> \in places2 /\ Len(g.entries) = Cell(img2, g.diroffset).count
    BY <1>2, <1>6, <1>7 DEF Active
  <2> QED
    BY <1>7, <1>8, <2>1 DEF Active
<1> QED
  BY <1>6, <1>9 DEF g

-----------------------------------------------------------------------------
(***************************************************************************)
(* The steps of process_dir keep the layout.                               *)
(***************************************************************************)
LEMMA AppendedCells ==
  ASSUME NEW img, IsSeq(img), NEW more, IsSeq(more)
  PROVE  /\ Extended(img, img \o more)
         /\ \A k \in 1 .. Len(more) : Cell(img \o more, Len(img) + k - 1) = more[k]
         /\ \A l \in Nat : \/ Cell(img \o more, l) = Cell(img, l)
                           \/ \E k \in 1 .. Len(more) : l = Len(img) + k - 1
<1> DEFINE t == img \o more
<1>1. /\ IsSeq(t) /\ Len(t) = Len(img) + Len(more)
      /\ \A k \in 1 .. (Len(img) + Len(more)) :
           t[k] = IF k <= Len(img) THEN img[k] ELSE more[k - Len(img)]
  BY SeqConcat
<1>2. Len(img) \in Nat /\ Len(more) \in Nat
  BY SeqFacts
<1> HIDE DEF t
<1>3. Extended(img, t)
  <2> SUFFICES ASSUME NEW l \in Nat, Cell(img, l).kind # "beyond"
               PROVE  Cell(t, l) = Cell(img, l)
    BY DEF Extended
  <2>1. l < Len(img)
    BY DEF Cell, Beyond
  <2>2. l + 1 \in 1 .. (Len(img) + Len(more)) /\ l + 1 <= Len(img) /\ l < Len(t)
    BY <1>1, <1>2, <2>1
  <2>3. t[l + 1] = img[l + 1]
    BY <1>1, <2>2
  <2> QED
    BY <2>1, <2>2, <2>3 DEF Cell
<1>4. \A k \in 1 .. Len(more) : Cell(t, Len(img) + k - 1) = more[k]
  <2> TAKE k \in 1 .. Len(more)
  <2>1. PICK l : l = Len(img) + k - 1
    OBVIOUS
  <2>2. l < Len(t) /\ l + 1 \in 1 .. (Len(img) + Len(more)) /\ ~ (l + 1 <= Len(img))
        /\ (l + 1) - Len(img) = k
    BY <1>1, <1>2, <2>1
  <2>3. t[l + 1] = more[k]
    BY <1>1, <2>2
  <2> QED
    BY <2>1, <2>2, <2>3 DEF Cell
<1>5. \A l \in Nat : Cell(t, l) = Cell(img, l) \/ \E k \in 1 .. Len(more) : l = Len(img) + k - 1
  <2> TAKE l \in Nat
  <2>1. CASE l < Len(img)
    <3>1. l + 1 \in 1 .. (Len(img) + Len(more)) /\ l + 1 <= Len(img) /\ l < Len(t)
      BY <1>1, <1>2, <2>1
    <3>2. t[l + 1] = img[l + 1]
      BY <1>1, <3>1
    <3> QED
      BY <2>1, <3>1, <3>2 DEF Cell
  <2>2. CASE ~ (l < Len(t))
    <3>1. ~ (l < Len(img))
      BY <1>1, <1>2, <2>2
    <3> QED
      BY <2>2, <3>1 DEF Cell
  <2>3. CASE ~ (l < Len(img)) /\ l < Len(t)
    <3>1. l - Len(img) + 1 \in 1 .. Len(more) /\ l = Len(img) + (l - Len(img) + 1) - 1
      BY <1>1, <1>2, <2>3
    <3> QED
      BY <3>1
  <2> QED
    BY <2>1, <2>2, <2>3
<1> QED
  BY <1>3, <1>4, <1>5 DEF t

(* An order of all elements of a finite set has each of them once.         *)
LEMMA OrderOfSet ==
  ASSUME NEW S, IsFiniteSet(S), NEW order \in SetToSeqs(S)
  PROVE  /\ Cardinality(S) \in Nat /\ order \in [1 .. Cardinality(S) -> S]
         /\ \A j, k \in 1 .. Cardinality(S) : order[j] = order[k] => j = k
         /\ \A e \in S : \E k \in 1 .. Cardinality(S) : order[k] = e
<1> DEFINE n == Cardinality(S)
           T == {order[k] : k \in 1 .. n}
<1>1. n \in Nat
  BY FS_CardinalityType
<1>2. order \in [1 .. n -> S] /\ \A i, j \in 1 .. n : i # j => order[i] # order[j]
  BY DEF SetToSeqs
<1>3. \A j, k \in 1 .. n : order[j] = order[k] => j = k
  BY <1>2
<1>4. T \subseteq S
  BY <1>2
<1>5. IsFiniteSet(T) /\ Cardinality(T) = n
  <2>1. IsFiniteSet(1 .. n) /\ Cardinality(1 .. n) = n
    BY <1>1, FS_Interval
  <2>2. order \in Bijection(1 .. n, T)
    <3> HIDE DEF n
    <3>1. order \in [1 .. n -> T]
      BY <1>2
    <3>2. order \in Injection(1 .. n, T)
      BY <1>3, <3>1 DEF Injection, IsInjective
    <3>3. order \in Surjection(1 .. n, T)
      BY <3>1 DEF Surjection
    <3> QED
      BY <3>2, <3>3 DEF Bijection
  <2> HIDE DEF T, n
  <2>3. ExistsBijection(1 .. n, T)
    BY <2>2 DEF ExistsBijection
  <2> QED
    BY <2>1, <2>3, FS_Bijection
<1>6. T = S
  BY <1>4, <1>5, FS_Subset
<1> QED
  BY <1>1, <1>2, <1>3, <1>6

(* The directory that ListDir appends.                                     *)
LEMMA ListedDir ==
  ASSUME NEW path \in DOMAIN Host, IsSeq(image), Len(image) >= 1, NEW stack,
         ListDir(path, image, stack)
  PROVE  \E f : /\ frames' = Append(stack, f)
                /\ f.path = path /\ f.diroffset = Len(image) /\ f.i = 1
                /\ Extended(image, image') /\ NamesAt(image', Len(image), path)
                /\ \A places : <<path, Len(image)>> \in places => Active(image', places, f)
                /\ \A l \in Nat : Cell(image', l).kind = "directory" =>
                     Cell(image, l).kind = "directory" \/ l = Len(image)
<1>1. PICK order \in SetToSeqs(Listed(path)) :
        LET entries == [k \in DOMAIN order |-> NewEntry(path, order[k])] IN
        /\ image' = image \o <<Header(Len(entries))>> \o entries
        /\ frames' = Append(stack, [path |-> path, entries |-> entries,
                                    diroffset |-> Len(image), i |-> 1])
  BY DEF ListDir
<1> DEFINE P == Listed(path)
           n == Cardinality(P)
           L == Len(image)
           entries == [k \in DOMAIN order |-> NewEntry(path, order[k])]
           f == [path |-> path, entries |-> entries, diroffset |-> L, i |-> 1]
           h == <<Header(Len(entries))>>
           img == image \o h
<1>2. image' = img \o entries /\ frames' = Append(stack, f)
  BY <1>1, Zenon
<1>3. /\ n \in Nat /\ order \in [1 .. n -> P]
      /\ \A j, k \in 1 .. n : order[j] = order[k] => j = k
      /\ \A e \in P : \E k \in 1 .. n : order[k] = e
  BY ListedFinite, OrderOfSet
<1>4. L \in Nat /\ L >= 1
  BY SeqFacts
<1> HIDE DEF n, P, L
<1>5. entries = [k \in 1 .. n |-> NewEntry(path, order[k])]
  BY <1>3
<1>6. \A k \in 1 .. n : entries[k] = NewEntry(path, order[k]) /\ order[k] \in P
  BY <1>3, <1>5
<1>7. entries = [k \in 1 .. n |-> entries[k]]
  BY <1>5, <1>6, Zenon
<1>8. f.path = path /\ f.entries = entries /\ f.diroffset = L /\ f.i = 1
  OBVIOUS
<1> HIDE DEF entries, f
<1>9. IsSeq(entries) /\ Len(entries) = n
  BY <1>3, <1>7, SeqIs
<1>10. IsSeq(h) /\ Len(h) = 1 /\ h[1] = Header(n)
  <2>1. h \in Seq({Header(n)}) /\ Len(h) = 1 /\ h[1] = Header(n)
    BY <1>9
  <2> QED
    BY <2>1 DEF IsSeq
<1> HIDE DEF h
<1>11. /\ IsSeq(img) /\ Len(img) = L + 1
       /\ Extended(image, img) /\ Cell(img, L) = Header(n)
       /\ \A l \in Nat : Cell(img, l) = Cell(image, l) \/ l = L
  <2>1. IsSeq(img) /\ Len(img) = L + 1
    BY <1>10, SeqConcat DEF L
  <2>2. /\ Extended(image, img)
        /\ \A k \in 1 .. Len(h) : Cell(img, L + k - 1) = h[k]
        /\ \A l \in Nat : \/ Cell(img, l) = Cell(image, l)
                          \/ \E k \in 1 .. Len(h) : l = L + k - 1
    BY <1>10, AppendedCells DEF L
  <2>a. \A l \in Nat : Cell(img, l) = Cell(image, l) \/ l = L
    BY <1>4, <1>10, <2>2
  <2>3. 1 \in 1 .. Len(h) /\ L + 1 - 1 = L
    BY <1>4, <1>10
  <2>4. Cell(img, L + 1 - 1) = h[1]
    BY <2>2, <2>3
  <2> QED
    BY <1>10, <2>1, <2>2, <2>3, <2>4, <2>a
<1> HIDE DEF img
<1>12. /\ Extended(img, image')
       /\ \A k \in 1 .. n : Cell(image', L + k) = entries[k]
       /\ \A l \in Nat : Cell(image', l) = Cell(img, l) \/ \E k \in 1 .. n : l = L + k
  <2>1. /\ Extended(img, image')
        /\ \A k \in 1 .. n : Cell(image', (L + 1) + k - 1) = entries[k]
        /\ \A l \in Nat : Cell(image', l) = Cell(img, l) \/ \E k \in 1 .. n : l = (L + 1) + k - 1
    <3>1. /\ Extended(img, img \o entries)
          /\ \A k \in 1 .. Len(entries) : Cell(img \o entries, Len(img) + k - 1) = entries[k]
          /\ \A l \in Nat : \/ Cell(img \o entries, l) = Cell(img, l)
                            \/ \E k \in 1 .. Len(entries) : l = Len(img) + k - 1
      BY <1>9, <1>11, AppendedCells
    <3>2. image' = img \o entries /\ Len(entries) = n /\ Len(img) = L + 1
      BY <1>2, <1>9, <1>11
    <3> QED
      BY <3>1, <3>2, Zenon
  <2>2. \A k \in 1 .. n : (L + 1) + k - 1 = L + k
    BY <1>4
  <2> QED
    BY <2>1, <2>2
<1>13. Extended(image, image')
  BY <1>11, <1>12 DEF Extended
<1>14. Cell(image', L) = Header(n)
  <2>1. Cell(img, L).kind = "directory"
    BY <1>11 DEF Header
  <2> QED
    BY <1>4, <1>11, <1>12, <2>1 DEF Extended
<1>15. Cell(image', L).kind = "directory" /\ Cell(image', L).count = n
  BY <1>14 DEF Header
<1>16. \A k \in 1 .. n : entries[k].name = order[k] /\ IsEntryOf(path, entries[k])
  <2> TAKE k \in 1 .. n
  <2> DEFINE t == Host[Append(path, order[k])]
  <2>1. entries[k] = Entry(t.type, t.type, t.size, 0, order[k]) /\ order[k] \in P
    BY <1>6 DEF NewEntry
  <2>2. /\ entries[k].name = order[k] /\ entries[k].type = t.type /\ entries[k].size = t.size
        /\ entries[k].kind = "entry" /\ entries[k].location = 0
    BY <2>1 DEF Entry
  <2> QED
    BY <2>1, <2>2 DEF IsEntryOf, P
<1>17. NamesAt(image', L, path)
  <2>1. \A k \in 1 .. n : IsEntryOf(path, Cell(image', L + k)) /\ Cell(image', L + k).name = order[k]
    BY <1>12, <1>16
  <2>2. \A j, k \in 1 .. n : Cell(image', L + j).name = Cell(image', L + k).name => j = k
    BY <1>3, <2>1
  <2>3. \A name \in Listed(path) : \E k \in 1 .. n : Cell(image', L + k).name = name
    BY <1>3, <2>1 DEF P
  <2> QED
    <3>1. L \in Nat \ {0}
      BY <1>4
    <3>2. \A k \in 1 .. n : IsEntryOf(path, Cell(image', L + k))
      BY <2>1
    <3> QED
      BY <1>3, <1>15, <2>2, <2>3, <3>1, <3>2, Zenon DEF NamesAt
<1>18. ASSUME NEW places, <<path, L>> \in places
       PROVE  Active(image', places, f)
  <2>1. \A k \in 1 .. n : ~ (k < 1)
    OBVIOUS
  <2> QED
    BY <1>8, <1>9, <1>12, <1>15, <1>16, <1>18, <2>1 DEF Active
<1>19. \A l \in Nat : Cell(image', l).kind = "directory" => Cell(image, l).kind = "directory" \/ l = L
  <2> TAKE l \in Nat
  <2> HAVE Cell(image', l).kind = "directory"
  <2>1. \A k \in 1 .. n : Cell(image', L + k).kind = "entry"
    BY <1>12, <1>16 DEF IsEntryOf
  <2>2. Cell(image', l) = Cell(img, l)
    BY <1>12, <2>1
  <2> QED
    BY <1>11, <2>2
<1> QED
  BY <1>2, <1>8, <1>13, <1>17, <1>18, <1>19 DEF L

(* A new directory, while F are the activations that go on.                *)
LEMMA LayoutListed ==
  ASSUME NEW img, NEW img2, Extended(img, img2), NEW places, NEW F, NEW G, NEW L \in Nat, NEW path,
         Layout(img, F, places), \A l \in Nat : Cell(img, l).kind # "beyond" => l < L,
         NamesAt(img2, L, path),
         \A l \in Nat : Cell(img2, l).kind = "directory" => Cell(img, l).kind = "directory" \/ l = L,
         \A f \in G : Active(img2, places \cup {<<path, L>>}, f),
         \A f \in F : \E g \in G : g.diroffset = f.diroffset,
         \E g \in G : g.diroffset = L
  PROVE  Layout(img2, G, places \cup {<<path, L>>})
<1> DEFINE more == places \cup {<<path, L>>}
<1>1. \A p, dir : <<p, dir>> \in places => NamesAt(img, dir, p) /\ dir < L
  <2> TAKE p, dir
  <2> HAVE <<p, dir>> \in places
  <2>1. NamesAt(img, dir, p)
    BY DEF Layout
  <2>2. dir \in Nat /\ Cell(img, dir).kind = "directory"
    BY <2>1 DEF NamesAt
  <2> QED
    BY <2>1, <2>2
<1>2. \A p, dir : <<p, dir>> \in more <=> <<p, dir>> \in places \/ (p = path /\ dir = L)
  BY Zenon
<1>a. places \subseteq more
  OBVIOUS
<1> HIDE DEF more
<1>3. \A p, dir : <<p, dir>> \in more => NamesAt(img2, dir, p)
  BY <1>1, <1>2, NamesKept
<1>4. \A p, q, dir : <<p, dir>> \in more /\ <<q, dir>> \in more => p = q
  <2> TAKE p, q, dir
  <2> HAVE <<p, dir>> \in more /\ <<q, dir>> \in more
  <2>1. CASE dir = L
    <3>1. <<p, dir>> \notin places /\ <<q, dir>> \notin places
      BY <1>1, <2>1
    <3> QED
      BY <1>2, <3>1
  <2>2. CASE dir # L
    <3>1. <<p, dir>> \in places /\ <<q, dir>> \in places
      BY <1>2, <2>2
    <3> QED
      BY <3>1 DEF Layout
  <2> QED
    BY <2>1, <2>2
<1>5. ASSUME NEW p, NEW dir, <<p, dir>> \in more, \A g \in G : g.diroffset # dir,
             NEW k \in 1 .. Cell(img2, dir).count
      PROVE  Right(img2, more, p, dir, Cell(img2, dir + k))
  <2>1. <<p, dir>> \in places /\ \A f \in F : f.diroffset # dir
    BY <1>2, <1>5
  <2>2. NamesAt(img, dir, p)
    BY <1>1, <2>1
  <2>3. Cell(img2, dir) = Cell(img, dir)
        /\ \A j \in 1 .. Cell(img, dir).count : Cell(img2, dir + j) = Cell(img, dir + j)
    BY <2>2, NamesKept
  <2>4. k \in 1 .. Cell(img, dir).count /\ Cell(img2, dir + k) = Cell(img, dir + k)
    BY <1>5, <2>3
  <2>5. Right(img, places, p, dir, Cell(img, dir + k))
    BY <2>1, <2>4 DEF Layout
  <2>6. Cell(img, dir + k).location \in Nat
    BY <2>2, <2>4 DEF NamesAt, IsEntryOf
  <2> QED
    BY <1>a, <2>4, <2>5, <2>6, RightKept
<1>6. \A f \in G : Active(img2, more, f)
  BY DEF more
<1>b. \A l \in Nat : Cell(img2, l).kind = "directory" => \E p : <<p, l>> \in more
  <2> TAKE l \in Nat
  <2> HAVE Cell(img2, l).kind = "directory"
  <2>1. CASE Cell(img, l).kind = "directory"
    <3>1. PICK p : <<p, l>> \in places
      BY <2>1 DEF Layout
    <3> QED
      BY <1>2, <3>1
  <2>2. CASE l = L
    BY <1>2, <2>2
  <2> QED
    BY <2>1, <2>2
<1>7. Layout(img2, G, more)
  BY <1>3, <1>4, <1>5, <1>6, <1>b DEF Layout
<1> QED
  BY <1>7 DEF more

(* The same directories, in a larger image.                                *)
LEMMA LayoutGrown ==
  ASSUME NEW img, NEW img2, Extended(img, img2), NEW places, NEW F, NEW G,
         Layout(img, F, places), \A f \in G : Active(img2, places, f),
         \A l \in Nat : Cell(img2, l).kind = "directory" => Cell(img, l).kind = "directory",
         \A f \in F : \E g \in G : g.diroffset = f.diroffset
  PROVE  Layout(img2, G, places)
<1>1. \A p, dir : <<p, dir>> \in places => NamesAt(img, dir, p)
  BY DEF Layout
<1>2. \A p, dir : <<p, dir>> \in places => NamesAt(img2, dir, p)
  BY <1>1, NamesKept
<1>3. ASSUME NEW p, NEW dir, <<p, dir>> \in places, \A g \in G : g.diroffset # dir,
             NEW k \in 1 .. Cell(img2, dir).count
      PROVE  Right(img2, places, p, dir, Cell(img2, dir + k))
  <2>1. \A f \in F : f.diroffset # dir
    BY <1>3
  <2>2. NamesAt(img, dir, p)
    BY <1>1, <1>3
  <2>3. Cell(img2, dir) = Cell(img, dir)
        /\ \A j \in 1 .. Cell(img, dir).count : Cell(img2, dir + j) = Cell(img, dir + j)
    BY <2>2, NamesKept
  <2>4. k \in 1 .. Cell(img, dir).count /\ Cell(img2, dir + k) = Cell(img, dir + k)
    BY <1>3, <2>3
  <2>5. Right(img, places, p, dir, Cell(img, dir + k))
    BY <1>3, <2>1, <2>4 DEF Layout
  <2>6. Cell(img, dir + k).location \in Nat
    BY <2>2, <2>4 DEF NamesAt, IsEntryOf
  <2> QED
    BY <2>4, <2>5, <2>6, RightKept
<1>4. \A p, q, dir : <<p, dir>> \in places /\ <<q, dir>> \in places => p = q
  BY DEF Layout
<1>5. \A l \in Nat : Cell(img2, l).kind = "directory" => \E p : <<p, l>> \in places
  BY DEF Layout
<1> QED
  BY <1>2, <1>3, <1>4, <1>5 DEF Layout

(* What FillIn does to the cells: it replaces those of the entries.        *)
CopiedOver(img, d, es) ==
  [k \in DOMAIN img |->
     LET n == k - (d + 1) IN IF n \in DOMAIN es THEN es[n] ELSE img[k]]

LEMMA FilledCells ==
  ASSUME NEW img, IsSeq(img), NEW img2, NEW d \in Nat, NEW es, IsSeq(es),
         \A k \in 1 .. Len(es) : Cell(img, d + k).kind = "entry",
         img2 = CopiedOver(img, d, es)
  PROVE  /\ \A k \in 1 .. Len(es) : Cell(img2, d + k) = es[k]
         /\ \A l \in Nat : l \notin (d + 1) .. (d + Len(es)) => Cell(img2, l) = Cell(img, l)
<1> DEFINE n == Len(es)
           L == Len(img)
<1>1. n \in Nat /\ L \in Nat /\ DOMAIN es = 1 .. n /\ DOMAIN img = 1 .. L
  BY SeqFacts
<1>2. \A k \in 1 .. L : img2[k] = IF k - (d + 1) \in 1 .. n THEN es[k - (d + 1)] ELSE img[k]
  BY <1>1 DEF CopiedOver
<1>3. img2 = [k \in 1 .. L |-> img2[k]]
  BY <1>1, <1>2 DEF CopiedOver
<1>4. Len(img2) = L
  BY <1>1, <1>3, SeqIs
<1>5. \A k \in 1 .. n : Cell(img2, d + k) = es[k]
  <2> TAKE k \in 1 .. n
  <2>1. d + k < L
    BY DEF Cell, Beyond
  <2>2. d + k + 1 \in 1 .. L /\ (d + k + 1) - (d + 1) = k
    BY <1>1, <2>1
  <2>3. img2[d + k + 1] = es[k]
    BY <1>2, <2>2
  <2> QED
    BY <1>4, <2>1, <2>3 DEF Cell
<1>6. ASSUME NEW l \in Nat, l \notin (d + 1) .. (d + n)
      PROVE  Cell(img2, l) = Cell(img, l)
  <2>1. CASE l < L
    <3>1. l + 1 \in 1 .. L /\ ~ ((l + 1) - (d + 1) \in 1 .. n)
      BY <1>1, <1>6, <2>1
    <3>2. img2[l + 1] = img[l + 1]
      BY <1>2, <3>1
    <3> QED
      BY <1>4, <2>1, <3>2 DEF Cell
  <2>2. CASE ~ (l < L)
    BY <1>4, <2>2 DEF Cell
  <2> QED
    BY <2>1, <2>2
<1> QED
  BY <1>5, <1>6

(* The entries of an activation that is done are copied into the image.    *)
LEMMA LayoutFilled ==
  ASSUME NEW img, IsSeq(img), NEW img2, NEW places, NEW F, NEW f, FrameOk(f),
         Layout(img, F \cup {f}, places), f.i > Len(f.entries),
         img2 = CopiedOver(img, f.diroffset, f.entries)
  PROVE  Layout(img2, F, places) /\ Cell(img2, 0) = Cell(img, 0)
<1> DEFINE d == f.diroffset
           es == f.entries
           n == Len(es)
<1>1. IsSeq(es) /\ d \in Nat /\ d >= 1 /\ f.i \in Nat
  BY DEF FrameOk, IsSeq
<1>2. n \in Nat
  BY <1>1, SeqFacts
<1>3. Active(img, places, f)
  BY DEF Layout
<1>4. /\ <<f.path, d>> \in places /\ n = Cell(img, d).count
      /\ \A k \in 1 .. n : IsEntryOf(f.path, es[k]) /\ es[k].name = Cell(img, d + k).name
  BY <1>3 DEF Active
<1>5. \A k \in 1 .. n : Right(img, places, f.path, d, es[k])
  <2>1. \A k \in 1 .. n : k < f.i
    BY <1>1, <1>2
  <2> QED
    BY <1>3, <2>1 DEF Active
<1>6. NamesAt(img, d, f.path)
  BY <1>4 DEF Layout
<1>7. \A k \in 1 .. n : Cell(img, d + k).kind = "entry"
  BY <1>4, <1>6 DEF NamesAt, IsEntryOf
<1>a. img2 = CopiedOver(img, d, es)
  OBVIOUS
<1>b. \A k \in 1 .. Len(es) : Cell(img, d + k).kind = "entry"
  BY <1>7
<1> HIDE DEF d, es
<1>8. /\ \A k \in 1 .. n : Cell(img2, d + k) = es[k]
      /\ \A l \in Nat : l \notin (d + 1) .. (d + n) => Cell(img2, l) = Cell(img, l)
  BY <1>1, <1>a, <1>b, FilledCells
<1> HIDE DEF n
(* Only entries have changed.                                              *)
<1>9. \A l \in Nat : Cell(img, l).kind # "entry" => Cell(img2, l) = Cell(img, l)
  <2> TAKE l \in Nat
  <2> HAVE Cell(img, l).kind # "entry"
  <2>1. l \notin (d + 1) .. (d + n)
    <3> SUFFICES ASSUME l \in (d + 1) .. (d + n) PROVE FALSE
      OBVIOUS
    <3>1. l - d \in 1 .. n /\ d + (l - d) = l
      BY <1>1, <1>2
    <3> QED
      BY <1>7, <3>1
  <2> QED
    BY <1>8, <2>1
<1>10. ASSUME NEW p, NEW m, NEW e, e.location \in Nat, Right(img, places, p, m, e)
       PROVE  Right(img2, places, p, m, e)
  <2> DEFINE bytes == Host[Append(p, e.name)].bytes
  <2>1. BytesAt(img, e.location, bytes) => BytesAt(img2, e.location, bytes)
    <3> SUFFICES ASSUME BytesAt(img, e.location, bytes), NEW k \in 1 .. Len(bytes)
                 PROVE  Cell(img2, e.location + k - 1) = Byte(bytes[k])
      BY DEF BytesAt
    <3> HIDE DEF bytes
    <3>1. PICK l : l = e.location + k - 1
      OBVIOUS
    <3>2. l \in Nat
      BY <1>10, <3>1
    <3>3. Cell(img, l) = Byte(bytes[k])
      BY <3>1 DEF BytesAt
    <3>4. Cell(img, l).kind = "byte"
      BY <3>3 DEF Byte
    <3> QED
      BY <1>9, <3>1, <3>2, <3>3, <3>4
  <2> HIDE DEF bytes
  <2> QED
    BY <1>10, <2>1 DEF Right, bytes
<1>11. ASSUME NEW p, NEW m, <<p, m>> \in places, m # d, NEW j \in 1 .. Cell(img, m).count
       PROVE  Cell(img2, m + j) = Cell(img, m + j)
  <2> DEFINE c == Cell(img, m).count
  <2>1. NamesAt(img, m, p)
    BY <1>11 DEF Layout
  <2>2. /\ m \in Nat /\ c \in Nat /\ Cell(img, m).kind = "directory"
        /\ \A i \in 1 .. c : Cell(img, m + i).kind = "entry"
    BY <2>1 DEF NamesAt, IsEntryOf
  <2>3. Cell(img, d).kind = "directory"
    BY <1>6 DEF NamesAt
  <2> HIDE DEF c
  <2>a. j \in 1 .. c
    BY <1>11 DEF c
  <2>4. ASSUME m + j \in (d + 1) .. (d + n) PROVE FALSE
    <3>1. CASE m < d
      <4>1. d - m \in 1 .. c /\ m + (d - m) = d
        BY <1>1, <1>2, <2>2, <2>4, <2>a, <3>1
      <4>2. Cell(img, d).kind = "entry"
        BY <2>2, <4>1
      <4> QED
        BY <2>3, <4>2
    <3>2. CASE d < m
      <4>1. m - d \in 1 .. n /\ d + (m - d) = m
        BY <1>1, <1>2, <2>2, <2>4, <2>a, <3>2
      <4>2. Cell(img, m).kind = "entry"
        BY <1>7, <4>1
      <4> QED
        BY <2>2, <4>2
    <3> QED
      BY <1>1, <1>11, <2>2, <3>1, <3>2
  <2>5. m + j \in Nat
    BY <2>2, <2>a
  <2> QED
    BY <1>8, <2>4, <2>5
<1>12. ASSUME NEW p, NEW m, <<p, m>> \in places
       PROVE  /\ NamesAt(img, m, p) /\ Cell(img2, m) = Cell(img, m)
              /\ \A k \in 1 .. Cell(img, m).count :
                   /\ IsEntryOf(p, Cell(img2, m + k))
                   /\ Cell(img2, m + k).name = Cell(img, m + k).name
  <2>1. NamesAt(img, m, p)
    BY <1>12 DEF Layout
  <2>2. m \in Nat /\ Cell(img, m).kind = "directory"
    BY <2>1 DEF NamesAt
  <2>3. Cell(img2, m) = Cell(img, m)
    BY <1>9, <2>2
  <2>4. CASE m = d
    <3>1. p = f.path
      BY <1>4, <1>12, <2>4 DEF Layout
    <3> QED
      BY <1>4, <1>8, <2>1, <2>3, <2>4, <3>1
  <2>5. CASE m # d
    <3>1. \A k \in 1 .. Cell(img, m).count : Cell(img2, m + k) = Cell(img, m + k)
      BY <1>11, <1>12, <2>5
    <3> QED
      BY <2>1, <2>3, <3>1 DEF NamesAt
  <2> QED
    BY <2>4, <2>5
<1>13. ASSUME NEW p, NEW m, <<p, m>> \in places
       PROVE  NamesAt(img2, m, p)
  <2> DEFINE c == Cell(img, m).count
  <2>1. /\ p \in DOMAIN Host /\ m \in Nat \ {0} /\ c \in Nat /\ Cell(img, m).kind = "directory"
        /\ \A j, k \in 1 .. c : Cell(img, m + j).name = Cell(img, m + k).name => j = k
        /\ \A name \in Listed(p) : \E k \in 1 .. c : Cell(img, m + k).name = name
    BY <1>12, <1>13 DEF NamesAt
  <2>2. /\ Cell(img2, m) = Cell(img, m)
        /\ \A k \in 1 .. c : /\ IsEntryOf(p, Cell(img2, m + k))
                             /\ Cell(img2, m + k).name = Cell(img, m + k).name
    BY <1>12, <1>13
  <2>3. Cell(img2, m).count = c /\ Cell(img2, m).kind = "directory"
    BY <2>1, <2>2
  <2> HIDE DEF c
  <2>4. \A j, k \in 1 .. c : Cell(img2, m + j).name = Cell(img2, m + k).name => j = k
    BY <2>1, <2>2
  <2>5. \A name \in Listed(p) : \E k \in 1 .. c : Cell(img2, m + k).name = name
    <3> TAKE name \in Listed(p)
    <3>1. PICK k \in 1 .. c : Cell(img, m + k).name = name
      BY <2>1
    <3> QED
      BY <2>2, <3>1
  <2> QED
    BY <2>1, <2>2, <2>3, <2>4, <2>5, Zenon DEF NamesAt
<1>14. ASSUME NEW p, NEW m, <<p, m>> \in places, \A g \in F : g.diroffset # m,
              NEW k \in 1 .. Cell(img2, m).count
       PROVE  Right(img2, places, p, m, Cell(img2, m + k))
  <2>1. Cell(img2, m) = Cell(img, m) /\ k \in 1 .. Cell(img, m).count
    BY <1>12, <1>14
  <2>2. CASE m = d
    <3>1. p = f.path
      BY <1>4, <1>14, <2>2 DEF Layout
    <3>2. k \in 1 .. n /\ Cell(img2, m + k) = es[k]
      BY <1>4, <1>8, <2>1, <2>2
    <3>3. es[k].location \in Nat
      BY <1>4, <3>2 DEF IsEntryOf
    <3> QED
      BY <1>5, <1>10, <2>2, <3>1, <3>2, <3>3
  <2>3. CASE m # d
    <3>1. Cell(img2, m + k) = Cell(img, m + k)
      BY <1>11, <1>14, <2>1, <2>3
    <3>2. \A g \in F \cup {f} : g.diroffset # m
      BY <1>14, <2>3 DEF d
    <3>3. Right(img, places, p, m, Cell(img, m + k))
      BY <1>14, <2>1, <3>2 DEF Layout
    <3>4. Cell(img, m + k).location \in Nat
      BY <1>12, <1>14, <2>1 DEF NamesAt, IsEntryOf
    <3> QED
      BY <1>10, <3>1, <3>3, <3>4
  <2> QED
    BY <2>2, <2>3
<1>15. ASSUME NEW g \in F PROVE Active(img2, places, g)
  <2>1. Active(img, places, g)
    BY DEF Layout
  <2>2. /\ <<g.path, g.diroffset>> \in places /\ Len(g.entries) = Cell(img, g.diroffset).count
        /\ \A k \in 1 .. Len(g.entries) :
             /\ IsEntryOf(g.path, g.entries[k])
             /\ g.entries[k].name = Cell(img, g.diroffset + k).name
             /\ k < g.i => Right(img, places, g.path, g.diroffset, g.entries[k])
    BY <2>1 DEF Active
  <2>3. /\ Cell(img2, g.diroffset) = Cell(img, g.diroffset)
        /\ \A k \in 1 .. Len(g.entries) :
             Cell(img2, g.diroffset + k).name = Cell(img, g.diroffset + k).name
    BY <1>12, <2>2
  <2>4. \A k \in 1 .. Len(g.entries) : k < g.i => Right(img2, places, g.path, g.diroffset, g.entries[k])
    BY <1>10, <2>2 DEF IsEntryOf
  <2> QED
    BY <2>2, <2>3, <2>4 DEF Active
<1>16. \A p, q, m : <<p, m>> \in places /\ <<q, m>> \in places => p = q
  BY DEF Layout
<1>17. Cell(img2, 0) = Cell(img, 0)
  <2>1. 0 \in Nat /\ 0 \notin (d + 1) .. (d + n)
    BY <1>1, <1>2
  <2> QED
    BY <1>8, <2>1
<1>18. \A l \in Nat : Cell(img2, l).kind = "directory" => \E p : <<p, l>> \in places
  <2> TAKE l \in Nat
  <2> HAVE Cell(img2, l).kind = "directory"
  <2>1. l \notin (d + 1) .. (d + n)
    <3> SUFFICES ASSUME l \in (d + 1) .. (d + n) PROVE FALSE
      OBVIOUS
    <3>1. l - d \in 1 .. n /\ d + (l - d) = l
      BY <1>1, <1>2
    <3>2. Cell(img2, l) = es[l - d] /\ IsEntryOf(f.path, es[l - d])
      BY <1>4, <1>8, <3>1
    <3> QED
      BY <3>2 DEF IsEntryOf
  <2>2. Cell(img, l).kind = "directory"
    BY <1>8, <2>1
  <2> QED
    BY <2>2 DEF Layout
<1> QED
  BY <1>13, <1>14, <1>15, <1>16, <1>17, <1>18 DEF Layout

(* The inductive invariant of the builder: once the root has been listed,  *)
(* the image is laid out.                                                  *)
LaidOut(img, stack) ==
  /\ Cell(img, 0).kind = "entry" /\ Cell(img, 0).type = "DIR" /\ Cell(img, 0).location = 1
  /\ Len(img) = 1 => stack = <<>>
  /\ Len(img) # 1 => \E places : <<<<>>, 1>> \in places /\ Layout(img, FrameSet(stack), places)

LEMMA FrameSets ==
  ASSUME NEW s, IsSeq(s)
  PROVE  /\ \A f : FrameSet(Append(s, f)) = FrameSet(s) \cup {f}
         /\ s # <<>> => FrameSet(s) = FrameSet(Front(s)) \cup {Last(s)} /\ IsSeq(Front(s))
<1>0. Len(s) \in Nat
  BY SeqFacts
<1>1. ASSUME NEW t, IsSeq(t), NEW f PROVE FrameSet(Append(t, f)) = FrameSet(t) \cup {f}
  <2>1. /\ Len(Append(t, f)) = Len(t) + 1
        /\ \A k \in 1 .. (Len(t) + 1) : Append(t, f)[k] = IF k <= Len(t) THEN t[k] ELSE f
    BY <1>1, SeqAppend
  <2>2. Len(t) \in Nat
    BY <1>1, SeqFacts
  <2> DEFINE u == Append(t, f)
  <2> HIDE DEF u
  <2>3. \A e \in FrameSet(u) : e \in FrameSet(t) \cup {f}
    <3> TAKE e \in FrameSet(u)
    <3>1. PICK k \in 1 .. (Len(t) + 1) : e = u[k]
      BY <2>1 DEF FrameSet, u
    <3>2. k \in 1 .. Len(t) \/ ~ (k <= Len(t))
      BY <2>2
    <3> QED
      BY <2>1, <3>1, <3>2 DEF FrameSet, u
  <2>4. \A e \in FrameSet(t) : e \in FrameSet(u)
    <3> TAKE e \in FrameSet(t)
    <3>1. PICK k \in 1 .. Len(t) : e = t[k]
      BY DEF FrameSet
    <3>2. k \in 1 .. (Len(t) + 1) /\ k <= Len(t)
      BY <2>2
    <3>3. u[k] = e
      BY <2>1, <3>1, <3>2 DEF u
    <3> QED
      BY <2>1, <3>2, <3>3 DEF FrameSet, u
  <2>5. f \in FrameSet(u)
    <3>1. Len(t) + 1 \in 1 .. (Len(t) + 1) /\ ~ (Len(t) + 1 <= Len(t))
      BY <2>2
    <3>2. u[Len(t) + 1] = f
      BY <2>1, <3>1 DEF u
    <3> QED
      BY <2>1, <3>1, <3>2 DEF FrameSet, u
  <2> QED
    BY <2>3, <2>4, <2>5 DEF u
<1>2. ASSUME s # <<>>
      PROVE  FrameSet(s) = FrameSet(Front(s)) \cup {Last(s)} /\ IsSeq(Front(s))
  <2>1. PICK C : s \in Seq(C)
    BY DEF IsSeq
  <2>2. Len(s) >= 1
    BY <1>2, <2>1
  <2>3. Front(s) \in Seq(C) /\ Append(Front(s), Last(s)) = s
    BY <2>1, <2>2 DEF Front, Last
  <2>4. IsSeq(Front(s))
    BY <2>3 DEF IsSeq
  <2> QED
    BY <1>1, <2>3, <2>4
<1> QED
  BY <1>1, <1>2

LEMMA BuildInvFacts ==
  ASSUME BuildInv
  PROVE  /\ IsSeq(image) /\ Len(image) \in Nat /\ Len(image) >= 1 /\ IsSeq(frames)
         /\ \A f \in FrameSet(frames) : FrameOk(f)
         /\ \A l \in Nat : Cell(image, l).kind # "beyond" => l < Len(image)
<1>1. IsSeq(image) /\ Len(image) >= 1
  BY DEF BuildInv, ImageOk, IsSeq
<1>2. Len(image) \in Nat
  BY <1>1, SeqFacts
<1>3. PICK F : frames \in Seq(F) /\ \A f \in F : FrameOk(f)
  BY DEF BuildInv, FramesOk
<1>4. IsSeq(frames)
  BY <1>3 DEF IsSeq
<1>5. \A f \in FrameSet(frames) : f \in F
  <2>1. \A k \in 1 .. Len(frames) : frames[k] \in F
    BY <1>3
  <2> QED
    BY <2>1 DEF FrameSet
<1>6. \A l \in Nat : Cell(image, l).kind # "beyond" => l < Len(image)
  BY DEF Cell, Beyond
<1> QED
  BY <1>1, <1>2, <1>3, <1>4, <1>5, <1>6

LEMMA RootKept ==
  ASSUME NEW img, NEW img2, Extended(img, img2), Cell(img, 0).kind = "entry"
  PROVE  Cell(img2, 0) = Cell(img, 0)
  BY DEF Extended

LEMMA BeginLaysOut ==
  ASSUME BuildInv, LaidOut(image, frames), Begin
  PROVE  LaidOut(image', frames')
<1>1. Len(image) = 1 /\ ListDir(<<>>, image, <<>>)
  BY DEF Begin
<1>2. IsSeq(image)
  BY BuildInvFacts
<1>3. PICK f : /\ frames' = Append(<<>>, f) /\ f.diroffset = 1
               /\ Extended(image, image') /\ NamesAt(image', 1, <<>>)
               /\ \A places : <<<<>>, 1>> \in places => Active(image', places, f)
               /\ \A l \in Nat : Cell(image', l).kind = "directory" =>
                    Cell(image, l).kind = "directory" \/ l = 1
  <2>1. Len(image) >= 1 /\ <<>> \in DOMAIN Host
    BY <1>1, HostAssumption
  <2>2. \E f : /\ frames' = Append(<<>>, f)
               /\ f.path = <<>> /\ f.diroffset = Len(image) /\ f.i = 1
               /\ Extended(image, image') /\ NamesAt(image', Len(image), <<>>)
               /\ \A places : <<<<>>, Len(image)>> \in places => Active(image', places, f)
               /\ \A l \in Nat : Cell(image', l).kind = "directory" =>
                    Cell(image, l).kind = "directory" \/ l = Len(image)
    BY <1>1, <1>2, <2>1, ListedDir
  <2> QED
    BY <1>1, <2>2, Zenon
<1>4. FrameSet(frames') = {f}
  <2>1. <<>> \in Seq({}) /\ Len(<<>>) = 0
    OBVIOUS
  <2>2. IsSeq(<<>>)
    BY <2>1 DEF IsSeq
  <2>3. FrameSet(<<>>) = {}
    BY <2>1 DEF FrameSet
  <2>4. FrameSet(Append(<<>>, f)) = FrameSet(<<>>) \cup {f}
    BY <2>2, FrameSets, Zenon
  <2> QED
    BY <1>3, <2>3, <2>4, Zenon
<1>5. Cell(image', 0) = Cell(image, 0)
  BY <1>3, RootKept DEF LaidOut
<1> DEFINE none == {}
           places == none \cup {<<<<>>, 1>>}
<1>7. \A l \in Nat : Cell(image, l).kind # "beyond" => l < 1
  BY <1>1, BuildInvFacts
<1>6. Layout(image, {}, none)
  <2>1. \A l \in Nat : Cell(image, l).kind # "directory"
    <3> TAKE l \in Nat
    <3>1. CASE l = 0
      BY <3>1 DEF LaidOut
    <3>2. CASE l # 0
      <4>1. ~ (l < 1)
        BY <3>2
      <4> QED
        BY <1>7, <4>1
    <3> QED
      BY <3>1, <3>2
  <2> QED
    BY <2>1 DEF Layout
<1>8. \A g \in {f} : Active(image', places, g)
  BY <1>3
<1> HIDE DEF none
<1>9. Layout(image', {f}, places)
  <2>1. 1 \in Nat
    OBVIOUS
  <2>2. \A g \in {} : \E e \in {f} : e.diroffset = g.diroffset
    OBVIOUS
  <2>3. \E g \in {f} : g.diroffset = 1
    BY <1>3
  <2> QED
    BY <1>3, <1>6, <1>7, <1>8, <2>1, <2>2, <2>3, LayoutListed
<1>10. <<<<>>, 1>> \in places
  OBVIOUS
<1>11. Len(image') # 1
  <2>1. Cell(image', 1).kind = "directory"
    BY <1>3 DEF NamesAt
  <2> QED
    BY <2>1 DEF Cell, Beyond
<1> QED
  BY <1>4, <1>5, <1>9, <1>10, <1>11 DEF LaidOut

LEMMA EntryLaysOut ==
  ASSUME BuildInv, LaidOut(image, frames), ProcessEntry
  PROVE  LaidOut(image', frames')
<1> DEFINE f == Last(frames)
           e == f.entries[f.i]
           path == Append(f.path, e.name)
           stack == Append(Front(frames), Filled(f))
           bytes == Host[path].bytes
           more == [k \in DOMAIN bytes |-> Byte(bytes[k])]
           L == Len(image)
           F == FrameSet(Front(frames))
<1>1. /\ frames # <<>> /\ f.i <= Len(f.entries)
      /\ IF e.type = "DIR" THEN ListDir(path, image, stack)
         ELSE image' = image \o more /\ frames' = stack
  BY DEF ProcessEntry
<1>2. /\ IsSeq(image) /\ L \in Nat /\ L >= 1 /\ IsSeq(frames)
      /\ \A g \in FrameSet(frames) : FrameOk(g)
      /\ \A l \in Nat : Cell(image, l).kind # "beyond" => l < L
  BY BuildInvFacts
<1>3. FrameSet(frames) = F \cup {f} /\ IsSeq(Front(frames))
  BY <1>1, <1>2, FrameSets
<1>4. FrameOk(f)
  BY <1>2, <1>3
<1>5. PICK places : <<<<>>, 1>> \in places /\ Layout(image, F \cup {f}, places)
  BY <1>1, <1>3 DEF LaidOut
<1>a. /\ Cell(image, 0).kind = "entry" /\ Cell(image, 0).type = "DIR"
      /\ Cell(image, 0).location = 1 /\ L # 1
  BY <1>1 DEF LaidOut
<1>6. FrameSet(stack) = F \cup {Filled(f)} /\ IsSeq(stack)
  BY <1>3, FrameSets, SeqAppend
<1>7. Active(image, places, f) /\ NamesAt(image, f.diroffset, f.path)
  <2>1. Active(image, places, f)
    BY <1>5 DEF Layout
  <2> QED
    BY <1>5, <2>1 DEF Active, Layout
<1>8. f.i \in 1 .. Len(f.entries)
  <2> HIDE DEF f
  <2>1. Len(f.entries) \in Nat /\ f.i \in Nat /\ f.i >= 1
    BY <1>4 DEF FrameOk
  <2>2. f.i <= Len(f.entries)
    BY <1>1, Zenon
  <2> QED
    BY <2>1, <2>2
<1>9. IsEntryOf(f.path, e)
  BY <1>7, <1>8 DEF Active
<1>10. e.name \in Listed(f.path) /\ e.type = Host[path].type
  BY <1>9 DEF IsEntryOf
<1>11. path \in DOMAIN Host /\ e.type \in {"DIR", "FILE"}
  BY <1>10, ListedNames
<1> HIDE DEF f, path, stack, e, F, L
<1>12. \A g \in F : /\ NamesAt(image, g.diroffset, g.path) /\ Active(image, places, g)
  <2> TAKE g \in F
  <2>1. Active(image, places, g)
    BY <1>5 DEF Layout
  <2> QED
    BY <1>5, <2>1 DEF Active, Layout
<1>13. CASE e.type = "DIR"
  <2>1. PICK h : /\ frames' = Append(stack, h) /\ h.path = path /\ h.diroffset = L
                 /\ Extended(image, image') /\ NamesAt(image', L, path)
                 /\ \A ps : <<path, L>> \in ps => Active(image', ps, h)
                 /\ \A l \in Nat : Cell(image', l).kind = "directory" =>
                      Cell(image, l).kind = "directory" \/ l = L
    BY <1>1, <1>2, <1>11, <1>13, ListedDir DEF L
  <2> DEFINE ps == places \cup {<<path, L>>}
             G == F \cup {Filled(f)} \cup {h}
  <2>2. places \subseteq ps /\ <<path, L>> \in ps
    OBVIOUS
  <2> HIDE DEF ps
  <2>3. Active(image', ps, Filled(f)) /\ Filled(f).diroffset = f.diroffset
    <3>1. e.type # "FILE"
      BY <1>13
    <3> QED
      BY <1>1, <1>2, <1>4, <1>7, <2>1, <2>2, <3>1, FilledActive DEF L, e, path
  <2>4. \A g \in G : Active(image', ps, g)
    <3>1. \A g \in F : Active(image', ps, g)
      BY <1>12, <2>1, <2>2, ActiveKept
    <3> QED
      BY <2>1, <2>2, <2>3, <3>1
  <2>5. \A g \in F \cup {f} : \E k \in G : k.diroffset = g.diroffset
    BY <2>3
  <2>6. \E g \in G : g.diroffset = L
    BY <2>1
  <2> HIDE DEF G
  <2>7. Layout(image', G, ps)
    <3>1. \A g \in G : Active(image', places \cup {<<path, L>>}, g)
      BY <2>4 DEF ps
    <3>2. L \in Nat /\ \A l \in Nat : Cell(image, l).kind # "beyond" => l < L
      BY <1>2, Zenon
    <3>3. Extended(image, image') /\ NamesAt(image', L, path)
      BY <2>1, Zenon
    <3>a. \A l \in Nat : Cell(image', l).kind = "directory" =>
            Cell(image, l).kind = "directory" \/ l = L
      BY <2>1, Zenon
    <3>4. PICK H : H = F \cup {f}
      OBVIOUS
    <3>5. Layout(image, H, places) /\ \A g \in H : \E k \in G : k.diroffset = g.diroffset
      BY <1>5, <2>5, <3>4, Zenon
    <3>6. Layout(image', G, places \cup {<<path, L>>})
      BY <2>6, <3>1, <3>2, <3>3, <3>5, <3>a, LayoutListed
    <3> QED
      BY <3>6 DEF ps
  <2>8. FrameSet(frames') = G
    BY <1>6, <2>1, FrameSets DEF G
  <2>9. Cell(image', 0) = Cell(image, 0)
    BY <1>a, <2>1, RootKept
  <2>10. Len(image') # 1
    <3>1. Cell(image', L).kind = "directory"
      BY <2>1 DEF NamesAt
    <3>2. L < Len(image')
      BY <3>1 DEF Cell, Beyond
    <3>3. ~ (L < 1)
      BY <1>2
    <3> QED
      BY <3>2, <3>3, Zenon
  <2> QED
    BY <1>5, <1>a, <2>2, <2>7, <2>8, <2>9, <2>10 DEF LaidOut
<1>14. CASE e.type # "DIR"
  <2>1. image' = image \o more /\ frames' = stack /\ e.type = "FILE"
    BY <1>1, <1>11, <1>14
  <2>2. IsSeq(bytes)
    BY <1>11, HostAssumption DEF IsSeq
  <2>3. Len(bytes) \in Nat /\ DOMAIN bytes = 1 .. Len(bytes)
    BY <2>2, SeqFacts
  <2>4. /\ more = [k \in 1 .. Len(bytes) |-> more[k]]
        /\ \A k \in 1 .. Len(bytes) : more[k] = Byte(bytes[k])
    BY <2>3
  <2> HIDE DEF more, bytes
  <2>5. IsSeq(more) /\ Len(more) = Len(bytes)
    BY <2>3, <2>4, SeqIs
  <2>6. /\ Extended(image, image')
        /\ \A k \in 1 .. Len(bytes) : Cell(image', L + k - 1) = more[k]
        /\ \A l \in Nat : \/ Cell(image', l) = Cell(image, l)
                          \/ \E k \in 1 .. Len(bytes) : l = L + k - 1
    <3>1. /\ Extended(image, image \o more)
          /\ \A k \in 1 .. Len(more) : Cell(image \o more, L + k - 1) = more[k]
          /\ \A l \in Nat : \/ Cell(image \o more, l) = Cell(image, l)
                            \/ \E k \in 1 .. Len(more) : l = L + k - 1
      BY <1>2, <2>5, AppendedCells DEF L
    <3> QED
      BY <2>1, <2>5, <3>1, Zenon
  <2>7. BytesAt(image', L, bytes)
    BY <2>4, <2>6 DEF BytesAt
  <2>a. places \subseteq places
    OBVIOUS
  <2>8. Active(image', places, Filled(f)) /\ Filled(f).diroffset = f.diroffset
    BY <1>1, <1>2, <1>4, <1>7, <2>1, <2>6, <2>7, <2>a, FilledActive DEF L, e, path, bytes
  <2> DEFINE G == F \cup {Filled(f)}
  <2>9. \A g \in G : Active(image', places, g)
    <3>1. \A g \in F : Active(image', places, g)
      BY <1>12, <2>6, <2>a, ActiveKept
    <3> QED
      BY <2>8, <3>1
  <2>10. \A g \in F \cup {f} : \E k \in G : k.diroffset = g.diroffset
    BY <2>8
  <2> HIDE DEF G
  <2>11. Layout(image', G, places)
    <3>1. \A l \in Nat : Cell(image', l).kind = "directory" => Cell(image, l).kind = "directory"
      <4>1. \A k \in 1 .. Len(bytes) : Cell(image', L + k - 1).kind = "byte"
        BY <2>4, <2>6 DEF Byte
      <4> QED
        BY <2>6, <4>1
    <3>2. PICK H : H = F \cup {f}
      OBVIOUS
    <3>3. Layout(image, H, places) /\ \A g \in H : \E k \in G : k.diroffset = g.diroffset
      BY <1>5, <2>10, <3>2, Zenon
    <3> QED
      BY <2>6, <2>9, <3>1, <3>3, LayoutGrown
  <2>12. FrameSet(frames') = G
    BY <1>6, <2>1 DEF G
  <2>13. Cell(image', 0) = Cell(image, 0)
    BY <1>a, <2>6, RootKept
  <2>14. Len(image') # 1
    <3>1. Len(image') = L + Len(bytes)
      BY <1>2, <2>1, <2>5, SeqConcat DEF L
    <3> QED
      BY <1>2, <1>a, <2>3, <3>1
  <2> QED
    BY <1>5, <1>a, <2>11, <2>12, <2>13, <2>14 DEF LaidOut
<1> QED
  BY <1>13, <1>14

LEMMA FillInLaysOut ==
  ASSUME BuildInv, LaidOut(image, frames), FillIn
  PROVE  LaidOut(image', frames')
<1> DEFINE f == Last(frames)
           F == FrameSet(Front(frames))
<1>1. /\ frames # <<>> /\ f.i > Len(f.entries)
      /\ image' = CopiedOver(image, f.diroffset, f.entries) /\ frames' = Front(frames)
  BY DEF FillIn, CopiedOver
<1>2. /\ IsSeq(image) /\ Len(image) \in Nat /\ IsSeq(frames)
      /\ \A g \in FrameSet(frames) : FrameOk(g)
  BY BuildInvFacts
<1>3. FrameSet(frames) = F \cup {f}
  BY <1>1, <1>2, FrameSets
<1>4. FrameOk(f)
  BY <1>2, <1>3
<1>5. PICK places : <<<<>>, 1>> \in places /\ Layout(image, F \cup {f}, places)
  BY <1>1, <1>3 DEF LaidOut
<1> HIDE DEF f, F
<1>6. Layout(image', F, places) /\ Cell(image', 0) = Cell(image, 0)
  BY <1>1, <1>2, <1>4, <1>5, LayoutFilled
<1>7. FrameSet(frames') = F
  BY <1>1 DEF F
<1>8. Len(image') # 1
  <2>1. NamesAt(image', 1, <<>>)
    BY <1>5, <1>6 DEF Layout
  <2>2. Cell(image', 1).kind = "directory"
    BY <2>1 DEF NamesAt
  <2> QED
    BY <2>2 DEF Cell, Beyond
<1> QED
  BY <1>5, <1>6, <1>7, <1>8 DEF LaidOut

(* A finished image holds the host's tree.                                 *)
LEMMA BuiltTree ==
  ASSUME LaidOut(image, frames), Built, IsSeq(image)
  PROVE  \E places : Tree(image, places)
<1>1. Len(image) # 1 /\ frames = <<>>
  <2>1. Len(image) > 1 /\ frames = <<>>
    BY Zenon DEF Built
  <2>2. ~ (1 > 1)
    OBVIOUS
  <2> QED
    BY <2>1, <2>2, Zenon
<1>2. PICK places : <<<<>>, 1>> \in places /\ Layout(image, FrameSet(frames), places)
  BY <1>1 DEF LaidOut
<1>3. FrameSet(frames) = {}
  <2>1. Len(<<>>) = 0
    OBVIOUS
  <2> QED
    BY <1>1, <2>1 DEF FrameSet
<1>4. Layout(image, {}, places)
  BY <1>2, <1>3
<1>5. Cell(image, 0).type = "DIR" /\ Cell(image, 0).location = 1
  BY DEF LaidOut
<1>6. Tree(image, places)
  BY <1>2, <1>4, <1>5 DEF Layout, Tree
<1> QED
  BY <1>6

-----------------------------------------------------------------------------
(***************************************************************************)
(* What a dump lists. The paths below a directory, relative to it.         *)
(***************************************************************************)
IsBelow(path, q) ==
  path \o q \in DOMAIN Host /\ \A k \in 1 .. Len(q) : q[k] \in Listed(path \o SubSeq(q, 1, k - 1))
Below(path) ==
  {q \in {SubSeq(r, Len(path) + 1, Len(r)) : r \in DOMAIN Host} :
     IsSeq(q) /\ q # <<>> /\ IsBelow(path, q)}
Prefixed(name, t) == <<name>> \o t
Line(type, size, path) == [type |-> type, size |-> size, path |-> path]
Lines(path) == {Line(Host[path \o q].type, Host[path \o q].size, q) : q \in Below(path)}

LEMMA NoText == IsSeq(<<>>) /\ Len(<<>>) = 0
<1>1. <<>> \in Seq({}) /\ Len(<<>>) = 0
  OBVIOUS
<1> QED
  BY <1>1 DEF IsSeq

LEMMA PrefixedFacts ==
  ASSUME NEW name, NEW t, IsSeq(t)
  PROVE  /\ IsSeq(Prefixed(name, t)) /\ Len(Prefixed(name, t)) = Len(t) + 1 /\ Prefixed(name, t) # <<>>
         /\ Prefixed(name, t)[1] = name
         /\ \A k \in 1 .. Len(t) : Prefixed(name, t)[k + 1] = t[k]
<1>1. <<name>> \in Seq({name}) /\ Len(<<name>>) = 1 /\ <<name>>[1] = name
  OBVIOUS
<1>2. IsSeq(<<name>>) /\ Len(t) \in Nat
  BY <1>1, SeqFacts DEF IsSeq
<1>3. PICK c : c = Prefixed(name, t)
  OBVIOUS
<1>4. /\ IsSeq(c) /\ Len(c) = 1 + Len(t)
      /\ \A k \in 1 .. (1 + Len(t)) : c[k] = IF k <= 1 THEN <<name>>[k] ELSE t[k - 1]
  <2>1. /\ IsSeq(<<name>> \o t) /\ Len(<<name>> \o t) = Len(<<name>>) + Len(t)
        /\ \A k \in 1 .. (Len(<<name>>) + Len(t)) :
             (<<name>> \o t)[k] = IF k <= Len(<<name>>) THEN <<name>>[k] ELSE t[k - Len(<<name>>)]
    BY <1>2, SeqConcat
  <2>2. c = <<name>> \o t
    BY <1>3 DEF Prefixed
  <2> QED
    BY <1>1, <2>1, <2>2, Zenon
<1>5. c[1] = name
  BY <1>1, <1>2, <1>4
<1>6. \A k \in 1 .. Len(t) : c[k + 1] = t[k]
  <2> TAKE k \in 1 .. Len(t)
  <2>1. k + 1 \in 1 .. (1 + Len(t)) /\ ~ (k + 1 <= 1) /\ (k + 1) - 1 = k
    BY <1>2
  <2> QED
    BY <1>4, <2>1
<1>7. c # <<>>
  BY <1>2, <1>4, NoText
<1>8. Len(c) = Len(t) + 1
  BY <1>2, <1>4
<1> QED
  BY <1>3, <1>4, <1>5, <1>6, <1>7, <1>8

(* Every text that is not empty begins with something.                     *)
LEMMA IsPrefixed ==
  ASSUME NEW q, IsSeq(q), q # <<>>
  PROVE  \E t : IsSeq(t) /\ q = Prefixed(q[1], t)
<1>1. Len(q) \in Nat
  BY SeqFacts
<1>2. Len(q) # 0
  <2>1. PICK C : q \in Seq(C)
    BY DEF IsSeq
  <2> QED
    BY <2>1
<1>3. PICK t : t = SubSeq(q, 2, Len(q))
  OBVIOUS
<1>4. /\ IsSeq(t) /\ Len(t) = Len(q) - 2 + 1
      /\ \A k \in 1 .. (Len(q) - 2 + 1) : t[k] = q[2 + k - 1]
  <2>1. 2 \in 1 .. (Len(q) + 1) /\ Len(q) \in 0 .. Len(q) /\ 2 <= Len(q) + 1
    BY <1>1, <1>2
  <2> QED
    BY <1>3, <2>1, SeqPart
<1>5. PICK c : c = Prefixed(q[1], t)
  OBVIOUS
<1>6. IsSeq(c) /\ Len(c) = Len(t) + 1 /\ c[1] = q[1] /\ \A k \in 1 .. Len(t) : c[k + 1] = t[k]
  BY <1>4, <1>5, PrefixedFacts
<1>7. Len(c) = Len(q) /\ Len(t) = Len(q) - 1
  BY <1>1, <1>4, <1>6
<1>8. \A k \in 1 .. Len(c) : c[k] = q[k]
  <2> TAKE k \in 1 .. Len(c)
  <2>1. CASE k = 1
    BY <1>6, <2>1
  <2>2. CASE k # 1
    <3>1. k - 1 \in 1 .. Len(t) /\ (k - 1) + 1 = k /\ 2 + (k - 1) - 1 = k /\ k - 1 \in 1 .. (Len(q) - 2 + 1)
      BY <1>1, <1>7, <2>2
    <3>2. c[k] = t[k - 1]
      BY <1>6, <3>1
    <3>3. t[k - 1] = q[2 + (k - 1) - 1]
      BY <1>4, <3>1
    <3> QED
      BY <3>1, <3>2, <3>3
  <2> QED
    BY <2>1, <2>2
<1>9. c = q
  BY <1>6, <1>7, <1>8, SameTexts
<1> QED
  BY <1>4, <1>5, <1>9

LEMMA PrefixedConcat ==
  ASSUME NEW p, IsSeq(p), NEW name, NEW t, IsSeq(t)
  PROVE  p \o Prefixed(name, t) = Append(p, name) \o t
<1>1. PICK c, a : c = Prefixed(name, t) /\ a = Append(p, name)
  OBVIOUS
<1>2. Len(p) \in Nat /\ Len(t) \in Nat
  BY SeqFacts
<1>3. IsSeq(c) /\ Len(c) = Len(t) + 1 /\ c[1] = name /\ \A k \in 1 .. Len(t) : c[k + 1] = t[k]
  BY <1>1, PrefixedFacts
<1>4. /\ IsSeq(a) /\ Len(a) = Len(p) + 1
      /\ \A k \in 1 .. (Len(p) + 1) : a[k] = IF k <= Len(p) THEN p[k] ELSE name
  BY <1>1, SeqAppend
<1>5. PICK u, v : u = p \o c /\ v = a \o t
  OBVIOUS
<1>6. /\ IsSeq(u) /\ Len(u) = Len(p) + Len(c)
      /\ \A k \in 1 .. (Len(p) + Len(c)) : u[k] = IF k <= Len(p) THEN p[k] ELSE c[k - Len(p)]
  BY <1>3, <1>5, SeqConcat
<1>7. /\ IsSeq(v) /\ Len(v) = Len(a) + Len(t)
      /\ \A k \in 1 .. (Len(a) + Len(t)) : v[k] = IF k <= Len(a) THEN a[k] ELSE t[k - Len(a)]
  BY <1>4, <1>5, SeqConcat
<1>8. Len(u) = Len(v) /\ Len(u) = Len(p) + Len(t) + 1
  BY <1>2, <1>3, <1>4, <1>6, <1>7
<1>9. \A k \in 1 .. Len(u) : u[k] = v[k]
  <2> TAKE k \in 1 .. Len(u)
  <2>0. /\ k \in Nat /\ k >= 1 /\ k <= Len(p) + Len(t) + 1
        /\ k \in 1 .. (Len(p) + Len(c)) /\ k \in 1 .. (Len(a) + Len(t))
    BY <1>2, <1>3, <1>4, <1>8
  <2>a. /\ u[k] = IF k <= Len(p) THEN p[k] ELSE c[k - Len(p)]
        /\ v[k] = IF k <= Len(a) THEN a[k] ELSE t[k - Len(a)]
    BY <1>6, <1>7, <2>0
  <2>1. CASE k <= Len(p)
    <3>1. k <= Len(a) /\ k \in 1 .. (Len(p) + 1)
      BY <1>2, <1>4, <2>0, <2>1
    <3>2. a[k] = p[k]
      BY <1>4, <2>1, <3>1
    <3> QED
      BY <2>1, <2>a, <3>1, <3>2
  <2>2. CASE k = Len(p) + 1
    <3>1. k <= Len(a) /\ k \in 1 .. (Len(p) + 1) /\ ~ (k <= Len(p)) /\ k - Len(p) = 1
      BY <1>2, <1>4, <2>0, <2>2
    <3>2. a[k] = name
      BY <1>4, <3>1
    <3> QED
      BY <1>3, <2>a, <3>1, <3>2
  <2>3. CASE ~ (k <= Len(p)) /\ k # Len(p) + 1
    <3>1. /\ ~ (k <= Len(p)) /\ ~ (k <= Len(a)) /\ k - Len(a) \in 1 .. Len(t)
          /\ (k - Len(a)) + 1 = k - Len(p)
      BY <1>2, <1>4, <2>0, <2>3
    <3>2. c[(k - Len(a)) + 1] = t[k - Len(a)]
      BY <1>3, <3>1
    <3> QED
      BY <2>a, <3>1, <3>2
  <2> QED
    BY <2>1, <2>2, <2>3
<1>10. u = v
  BY <1>6, <1>7, <1>8, <1>9, SameTexts
<1> QED
  BY <1>1, <1>5, <1>10

LEMMA NothingAdded ==
  ASSUME NEW p, IsSeq(p)
  PROVE  p \o <<>> = p /\ SubSeq(p, 1, 0) = <<>>
<1>1. PICK C : p \in Seq(C)
  BY DEF IsSeq
<1> QED
  BY <1>1

LEMMA PrefixedPart ==
  ASSUME NEW name, NEW t, IsSeq(t), NEW j \in 1 .. Len(t)
  PROVE  SubSeq(Prefixed(name, t), 1, j) = Prefixed(name, SubSeq(t, 1, j - 1))
<1>1. PICK c, s : c = Prefixed(name, t) /\ s = SubSeq(t, 1, j - 1)
  OBVIOUS
<1>2. Len(t) \in Nat
  BY SeqFacts
<1>3. IsSeq(c) /\ Len(c) = Len(t) + 1 /\ c[1] = name /\ \A k \in 1 .. Len(t) : c[k + 1] = t[k]
  BY <1>1, PrefixedFacts
<1>4. /\ IsSeq(s) /\ Len(s) = (j - 1) - 1 + 1
      /\ \A k \in 1 .. ((j - 1) - 1 + 1) : s[k] = t[1 + k - 1]
  <2>1. 1 \in 1 .. (Len(t) + 1) /\ j - 1 \in 0 .. Len(t) /\ 1 <= (j - 1) + 1
    BY <1>2
  <2> QED
    BY <1>1, <2>1, SeqPart
<1>5. PICK u, v : u = SubSeq(c, 1, j) /\ v = Prefixed(name, s)
  OBVIOUS
<1>6. /\ IsSeq(u) /\ Len(u) = j - 1 + 1
      /\ \A k \in 1 .. (j - 1 + 1) : u[k] = c[1 + k - 1]
  <2>1. 1 \in 1 .. (Len(c) + 1) /\ j \in 0 .. Len(c) /\ 1 <= j + 1
    BY <1>2, <1>3
  <2> QED
    BY <1>3, <1>5, <2>1, SeqPart
<1>7. IsSeq(v) /\ Len(v) = Len(s) + 1 /\ v[1] = name /\ \A k \in 1 .. Len(s) : v[k + 1] = s[k]
  BY <1>4, <1>5, PrefixedFacts
<1>8. Len(u) = j /\ Len(v) = j /\ Len(s) = j - 1
  BY <1>4, <1>6, <1>7
<1>9. \A k \in 1 .. Len(u) : u[k] = v[k]
  <2> TAKE k \in 1 .. Len(u)
  <2>0. k \in 1 .. j /\ k \in 1 .. (j - 1 + 1) /\ 1 + k - 1 = k
    BY <1>8
  <2>1. u[k] = c[k]
    BY <1>6, <2>0
  <2>2. CASE k = 1
    BY <1>3, <1>7, <2>1, <2>2
  <2>3. CASE k # 1
    <3>1. /\ k - 1 \in 1 .. Len(s) /\ (k - 1) + 1 = k /\ k - 1 \in 1 .. Len(t)
          /\ k - 1 \in 1 .. ((j - 1) - 1 + 1) /\ 1 + (k - 1) - 1 = k - 1
      BY <1>2, <1>8, <2>0, <2>3
    <3>2. v[k] = s[k - 1] /\ c[k] = t[k - 1]
      BY <1>3, <1>7, <3>1
    <3>3. s[k - 1] = t[k - 1]
      BY <1>4, <3>1
    <3> QED
      BY <2>1, <3>2, <3>3
  <2> QED
    BY <2>2, <2>3
<1>10. u = v
  BY <1>6, <1>7, <1>8, <1>9, SameTexts
<1> QED
  BY <1>1, <1>5, <1>10

(* A path is below a directory when its first name is in the directory and *)
(* the rest is below that.                                                 *)
LEMMA BelowPrefixed ==
  ASSUME NEW path, IsSeq(path), NEW name, NEW t, IsSeq(t)
  PROVE  IsBelow(path, Prefixed(name, t)) <=>
           name \in Listed(path) /\ IsBelow(Append(path, name), t)
<1>1. PICK c, a : c = Prefixed(name, t) /\ a = Append(path, name)
  OBVIOUS
<1>2. Len(t) \in Nat
  BY SeqFacts
<1>3. IsSeq(c) /\ Len(c) = Len(t) + 1 /\ c[1] = name /\ \A k \in 1 .. Len(t) : c[k + 1] = t[k]
  BY <1>1, PrefixedFacts
<1>4. path \o c = a \o t
  BY <1>1, PrefixedConcat
<1>5. path \o SubSeq(c, 1, 1 - 1) = path
  <2>1. SubSeq(c, 1, 0) = <<>> /\ path \o <<>> = path /\ 1 - 1 = 0
    BY <1>3, NothingAdded
  <2> QED
    BY <2>1
<1>6. ASSUME NEW j \in 1 .. Len(t)
      PROVE  path \o SubSeq(c, 1, (j + 1) - 1) = a \o SubSeq(t, 1, j - 1)
  <2>1. PICK s : s = SubSeq(t, 1, j - 1)
    OBVIOUS
  <2>2. SubSeq(c, 1, j) = Prefixed(name, s)
    BY <1>1, <2>1, PrefixedPart
  <2>3. IsSeq(s)
    <3>1. 1 \in 1 .. (Len(t) + 1) /\ j - 1 \in 0 .. Len(t) /\ 1 <= (j - 1) + 1
      BY <1>2
    <3> QED
      BY <2>1, <3>1, SeqPart
  <2>4. path \o Prefixed(name, s) = Append(path, name) \o s
    BY <2>3, PrefixedConcat
  <2>5. (j + 1) - 1 = j
    OBVIOUS
  <2> QED
    BY <1>1, <2>1, <2>2, <2>4, <2>5
<1>7. ASSUME IsBelow(path, c) PROVE name \in Listed(path) /\ IsBelow(a, t)
  <2>1. path \o c \in DOMAIN Host
        /\ \A k \in 1 .. Len(c) : c[k] \in Listed(path \o SubSeq(c, 1, k - 1))
    BY <1>7 DEF IsBelow
  <2>2. 1 \in 1 .. Len(c)
    BY <1>2, <1>3
  <2>3. name \in Listed(path)
    BY <1>3, <1>5, <2>1, <2>2
  <2>4. ASSUME NEW j \in 1 .. Len(t) PROVE t[j] \in Listed(a \o SubSeq(t, 1, j - 1))
    <3>1. j + 1 \in 1 .. Len(c)
      BY <1>2, <1>3
    <3>2. c[j + 1] \in Listed(path \o SubSeq(c, 1, (j + 1) - 1))
      BY <2>1, <3>1
    <3> QED
      BY <1>3, <1>6, <3>2
  <2> QED
    BY <1>4, <2>1, <2>3, <2>4 DEF IsBelow
<1>8. ASSUME name \in Listed(path), IsBelow(a, t) PROVE IsBelow(path, c)
  <2>1. a \o t \in DOMAIN Host
        /\ \A k \in 1 .. Len(t) : t[k] \in Listed(a \o SubSeq(t, 1, k - 1))
    BY <1>8 DEF IsBelow
  <2>2. ASSUME NEW k \in 1 .. Len(c) PROVE c[k] \in Listed(path \o SubSeq(c, 1, k - 1))
    <3>1. CASE k = 1
      BY <1>3, <1>5, <1>8, <3>1
    <3>2. CASE k # 1
      <4>1. k - 1 \in 1 .. Len(t) /\ (k - 1) + 1 = k
        BY <1>2, <1>3, <3>2
      <4>2. PICK j : j = k - 1
        OBVIOUS
      <4>3. j \in 1 .. Len(t) /\ j + 1 = k
        BY <4>1, <4>2
      <4>4. c[j + 1] = t[j] /\ path \o SubSeq(c, 1, (j + 1) - 1) = a \o SubSeq(t, 1, j - 1)
        BY <1>3, <1>6, <4>3
      <4>5. t[j] \in Listed(a \o SubSeq(t, 1, j - 1))
        BY <2>1, <4>3
      <4> QED
        BY <4>3, <4>4, <4>5
    <3> QED
      BY <3>1, <3>2
  <2> QED
    BY <1>4, <2>1, <2>2 DEF IsBelow
<1> QED
  BY <1>1, <1>7, <1>8

LEMMA LinesAre ==
  ASSUME NEW path, IsSeq(path), NEW q, IsSeq(q), q # <<>>, IsBelow(path, q)
  PROVE  Line(Host[path \o q].type, Host[path \o q].size, q) \in Lines(path)
<1>1. PICK r : r = path \o q
  OBVIOUS
<1>2. Len(path) \in Nat /\ Len(q) \in Nat
  BY SeqFacts
<1>3. /\ IsSeq(r) /\ Len(r) = Len(path) + Len(q)
      /\ \A k \in 1 .. (Len(path) + Len(q)) : r[k] = IF k <= Len(path) THEN path[k] ELSE q[k - Len(path)]
  BY <1>1, SeqConcat
<1>4. r \in DOMAIN Host
  BY <1>1 DEF IsBelow
<1>5. PICK s : s = SubSeq(r, Len(path) + 1, Len(r))
  OBVIOUS
<1>6. /\ IsSeq(s) /\ Len(s) = Len(r) - (Len(path) + 1) + 1
      /\ \A k \in 1 .. (Len(r) - (Len(path) + 1) + 1) : s[k] = r[(Len(path) + 1) + k - 1]
  <2>1. /\ Len(path) + 1 \in 1 .. (Len(r) + 1) /\ Len(r) \in 0 .. Len(r)
        /\ Len(path) + 1 <= Len(r) + 1
    BY <1>2, <1>3
  <2> QED
    BY <1>3, <1>5, <2>1, SeqPart
<1>7. Len(s) = Len(q)
  BY <1>2, <1>3, <1>6
<1>8. \A k \in 1 .. Len(s) : s[k] = q[k]
  <2> TAKE k \in 1 .. Len(s)
  <2>1. /\ k \in 1 .. (Len(r) - (Len(path) + 1) + 1)
        /\ (Len(path) + 1) + k - 1 = Len(path) + k /\ Len(path) + k \in 1 .. (Len(path) + Len(q))
        /\ ~ (Len(path) + k <= Len(path)) /\ (Len(path) + k) - Len(path) = k
    BY <1>2, <1>3, <1>6, <1>7
  <2>2. s[k] = r[Len(path) + k]
    BY <1>6, <2>1
  <2>3. r[Len(path) + k] = q[(Len(path) + k) - Len(path)]
    BY <1>3, <2>1
  <2> QED
    BY <2>1, <2>2, <2>3
<1>9. s = q
  BY <1>6, <1>7, <1>8, SameTexts
<1>10. q \in {SubSeq(x, Len(path) + 1, Len(x)) : x \in DOMAIN Host}
  BY <1>4, <1>5, <1>9
<1>11. q \in Below(path)
  BY <1>10, Zenon DEF Below
<1> QED
  BY <1>11, Zenon DEF Lines

LEMMA IsLine ==
  ASSUME NEW path, NEW x \in Lines(path)
  PROVE  \E q : IsSeq(q) /\ q # <<>> /\ IsBelow(path, q)
                /\ x = Line(Host[path \o q].type, Host[path \o q].size, q)
<1>1. PICK q \in Below(path) : x = Line(Host[path \o q].type, Host[path \o q].size, q)
  BY Zenon DEF Lines
<1>2. IsSeq(q) /\ q # <<>> /\ IsBelow(path, q)
  BY <1>1, Zenon DEF Below
<1> QED
  BY <1>1, <1>2

LEMMA OnlyDirectoriesList ==
  ASSUME NEW path, NEW name \in Listed(path)
  PROVE  Host[path].type = "DIR"
<1>1. PICK q \in DOMAIN Host : q # <<>> /\ Front(q) = path
  BY DEF Listed
<1> QED
  BY <1>1, HostAssumption

-----------------------------------------------------------------------------
(***************************************************************************)
(* dump_dir lists what is below a directory.                               *)
(***************************************************************************)
Under(name, lines) == {[l EXCEPT !.path = <<name>> \o @] : l \in lines}
EntryLines(f, e) ==
  {Line(e.type, e.size, <<e.name>>)} \cup (IF e.type = "DIR" THEN Under(e.name, f[e.location]) ELSE {})
DumpStep(f, img, dir) == UNION {EntryLines(f, Cell(img, dir + k)) : k \in 1 .. Cell(img, dir).count}

LEMMA LineUnder ==
  ASSUME NEW type, NEW size, NEW t, NEW name
  PROVE  [Line(type, size, t) EXCEPT !.path = <<name>> \o @] = Line(type, size, Prefixed(name, t))
<1>1. PICK r, v : r = Line(type, size, t) /\ v = Prefixed(name, t)
  OBVIOUS
<1>2. r.path = t
  BY <1>1 DEF Line
<1>3. [r EXCEPT !.path = <<name>> \o @] = [r EXCEPT !.path = v]
  BY <1>1, <1>2 DEF Prefixed
<1>4. [r EXCEPT !.path = v] = Line(type, size, v)
  BY <1>1 DEF Line
<1> QED
  BY <1>1, <1>3, <1>4, Zenon

LEMMA OneName ==
  ASSUME NEW path, IsSeq(path), NEW name
  PROVE  /\ Prefixed(name, <<>>) = <<name>> /\ path \o Prefixed(name, <<>>) = Append(path, name)
         /\ IsSeq(Append(path, name)) /\ Append(path, name) \o <<>> = Append(path, name)
<1>1. <<name>> \in Seq({name})
  OBVIOUS
<1>2. Prefixed(name, <<>>) = <<name>>
  BY <1>1 DEF Prefixed
<1>3. IsSeq(Append(path, name))
  BY SeqAppend
<1>4. Append(path, name) \o <<>> = Append(path, name)
  BY <1>3, NothingAdded
<1>5. path \o Prefixed(name, <<>>) = Append(path, name) \o <<>>
  BY NoText, PrefixedConcat
<1> QED
  BY <1>2, <1>3, <1>4, <1>5

(* The lines of a directory are those of its entries, once the lines of    *)
(* the directories in it are right.                                        *)
LEMMA LinesOfEntries ==
  ASSUME NEW img, NEW places, Tree(img, places), NEW path, NEW dir, <<path, dir>> \in places, NEW f,
         \A k \in 1 .. Cell(img, dir).count :
           LET e == Cell(img, dir + k) IN
           e.type = "DIR" => f[e.location] = Lines(Append(path, e.name))
  PROVE  DumpStep(f, img, dir) = Lines(path)
<1> DEFINE n == Cell(img, dir).count
           c(k) == Cell(img, dir + k)
<1>1. NamesAt(img, dir, path)
  BY DEF Tree
<1>2. /\ path \in DOMAIN Host /\ \A k \in 1 .. n : IsEntryOf(path, c(k))
      /\ \A name \in Listed(path) : \E k \in 1 .. n : c(k).name = name
  BY <1>1 DEF NamesAt
<1>3. IsSeq(path)
  BY <1>2, HostAssumption DEF IsSeq
<1>4. \A k \in 1 .. n : /\ c(k).name \in Listed(path)
                        /\ c(k).type = Host[Append(path, c(k).name)].type
                        /\ c(k).size = Host[Append(path, c(k).name)].size
  BY <1>2 DEF IsEntryOf
<1>5. \A k \in 1 .. n : c(k).type = "DIR" => f[c(k).location] = Lines(Append(path, c(k).name))
  OBVIOUS
<1>6. DumpStep(f, img, dir) = UNION {EntryLines(f, c(k)) : k \in 1 .. n}
  BY DEF DumpStep
<1> HIDE DEF n, c
<1>7. ASSUME NEW x \in Lines(path) PROVE x \in DumpStep(f, img, dir)
  <2>1. PICK q : IsSeq(q) /\ q # <<>> /\ IsBelow(path, q)
                 /\ x = Line(Host[path \o q].type, Host[path \o q].size, q)
    BY <1>7, IsLine
  <2>2. PICK t : IsSeq(t) /\ q = Prefixed(q[1], t)
    BY <2>1, IsPrefixed
  <2>3. PICK name : name = q[1]
    OBVIOUS
  <2>4. name \in Listed(path) /\ IsBelow(Append(path, name), t)
    BY <1>3, <2>1, <2>2, <2>3, BelowPrefixed
  <2>5. PICK k \in 1 .. n : c(k).name = name
    BY <1>2, <2>4
  <2>6. PICK e : e = c(k)
    OBVIOUS
  <2>7. x \in EntryLines(f, e)
    <3>1. CASE t = <<>>
      <4>1. q = <<name>> /\ path \o q = Append(path, name)
        BY <1>3, <2>2, <2>3, <3>1, OneName
      <4>2. x = Line(e.type, e.size, <<e.name>>)
        BY <1>4, <2>1, <2>5, <2>6, <4>1
      <4> QED
        BY <4>2 DEF EntryLines
    <3>2. CASE t # <<>>
      <4>1. PICK a : a = Append(path, name)
        OBVIOUS
      <4>2. IsSeq(a) /\ path \o q = a \o t
        <5>1. path \o Prefixed(name, t) = Append(path, name) \o t
          BY <1>3, <2>2, PrefixedConcat
        <5> QED
          BY <1>3, <2>2, <2>3, <4>1, <5>1, SeqAppend
      <4>3. Host[a].type = "DIR"
        <5>1. PICK u : IsSeq(u) /\ t = Prefixed(t[1], u)
          BY <2>2, <3>2, IsPrefixed
        <5>2. t[1] \in Listed(a)
          BY <2>4, <4>1, <4>2, <5>1, BelowPrefixed
        <5> QED
          BY <5>2, OnlyDirectoriesList
      <4>4. e.type = "DIR" /\ f[e.location] = Lines(a)
        BY <1>4, <1>5, <2>5, <2>6, <4>1, <4>3
      <4>5. PICK l : l = Line(Host[a \o t].type, Host[a \o t].size, t)
        OBVIOUS
      <4>6. l \in Lines(a)
        BY <2>2, <2>4, <3>2, <4>1, <4>2, <4>5, LinesAre
      <4>7. [l EXCEPT !.path = <<name>> \o @] = x
        <5>1. [l EXCEPT !.path = <<name>> \o @] = Line(Host[a \o t].type, Host[a \o t].size, Prefixed(name, t))
          BY <4>5, LineUnder
        <5> QED
          BY <2>1, <2>2, <2>3, <4>2, <5>1
      <4>8. x \in Under(name, Lines(a))
        BY <4>6, <4>7 DEF Under
      <4> QED
        BY <2>5, <2>6, <4>4, <4>8 DEF EntryLines
    <3> QED
      BY <3>1, <3>2
  <2> QED
    BY <1>6, <2>6, <2>7
<1>8. ASSUME NEW x \in DumpStep(f, img, dir) PROVE x \in Lines(path)
  <2>1. PICK k \in 1 .. n : x \in EntryLines(f, c(k))
    BY <1>6, <1>8
  <2>2. PICK e : e = c(k)
    OBVIOUS
  <2>3. PICK name : name = e.name
    OBVIOUS
  <2>4. PICK a : a = Append(path, name)
    OBVIOUS
  <2>5. name \in Listed(path) /\ e.type = Host[a].type /\ e.size = Host[a].size
    BY <1>4, <2>1, <2>2, <2>3, <2>4
  <2>6. IsSeq(a) /\ a \o <<>> = a /\ Prefixed(name, <<>>) = <<name>> /\ path \o Prefixed(name, <<>>) = a
    BY <1>3, <2>4, OneName
  <2>7. CASE x = Line(e.type, e.size, <<e.name>>)
    <3>1. a \in DOMAIN Host
      BY <2>4, <2>5, ListedNames
    <3>2. IsBelow(a, <<>>)
      BY <2>6, <3>1, NoText DEF IsBelow
    <3>3. PICK q : q = Prefixed(name, <<>>)
      OBVIOUS
    <3>4. IsBelow(path, q)
      BY <1>3, <2>4, <2>5, <3>2, <3>3, NoText, BelowPrefixed
    <3>5. IsSeq(q) /\ q # <<>>
      BY <3>3, NoText, PrefixedFacts
    <3>6. Line(Host[path \o q].type, Host[path \o q].size, q) \in Lines(path)
      BY <1>3, <3>4, <3>5, LinesAre
    <3> QED
      BY <2>3, <2>5, <2>6, <2>7, <3>3, <3>6
  <2>8. CASE e.type = "DIR" /\ x \in Under(e.name, f[e.location])
    <3>1. x \in Under(name, Lines(a))
      BY <1>5, <2>1, <2>2, <2>3, <2>4, <2>8
    <3>2. PICK l \in Lines(a) : x = [l EXCEPT !.path = <<name>> \o @]
      BY <3>1, Zenon DEF Under
    <3>3. PICK t : IsSeq(t) /\ t # <<>> /\ IsBelow(a, t)
                   /\ l = Line(Host[a \o t].type, Host[a \o t].size, t)
      BY <3>2, IsLine
    <3>4. PICK q : q = Prefixed(name, t)
      OBVIOUS
    <3>5. x = Line(Host[a \o t].type, Host[a \o t].size, q)
      BY <3>2, <3>3, <3>4, LineUnder
    <3>6. IsSeq(q) /\ q # <<>> /\ path \o q = a \o t
      BY <1>3, <2>4, <3>3, <3>4, PrefixedFacts, PrefixedConcat
    <3>7. IsBelow(path, q)
      BY <1>3, <2>4, <2>5, <3>3, <3>4, BelowPrefixed
    <3>8. Line(Host[path \o q].type, Host[path \o q].size, q) \in Lines(path)
      BY <1>3, <3>6, <3>7, LinesAre
    <3> QED
      BY <3>5, <3>6, <3>8
  <2> QED
    BY <2>1, <2>2, <2>7, <2>8 DEF EntryLines
<1> QED
  BY <1>7, <1>8

(* A directory's entry leads to a header further behind.                   *)
LEMMA ChildPlace ==
  ASSUME NEW img, NEW places, Tree(img, places), NEW path, NEW dir, <<path, dir>> \in places,
         NEW k \in 1 .. Cell(img, dir).count, Cell(img, dir + k).type = "DIR"
  PROVE  LET e == Cell(img, dir + k) IN
         <<Append(path, e.name), e.location>> \in places /\ dir < e.location
<1>1. PICK e : e = Cell(img, dir + k)
  OBVIOUS
<1>2. Right(img, places, path, dir, e)
  BY <1>1 DEF Tree
<1>3. e.type # "FILE"
  BY <1>1
<1> QED
  BY <1>1, <1>2, <1>3 DEF Right

LEMMA PlaceInImage ==
  ASSUME NEW img, IsSeq(img), NEW places, Tree(img, places), NEW path, NEW dir, <<path, dir>> \in places
  PROVE  dir \in 0 .. Len(img) /\ Cell(img, dir).kind = "directory"
<1>1. Len(img) \in Nat
  BY SeqFacts
<1>2. dir \in Nat /\ Cell(img, dir).kind = "directory"
  BY DEF Tree, NamesAt
<1>3. dir < Len(img)
  BY <1>2 DEF Cell, Beyond
<1> QED
  BY <1>1, <1>2, <1>3

(* dump_dir finds in a finished image what the host has below a directory. *)
(* Its recursion is well defined because every directory is behind the one *)
(* that it is in.                                                          *)
LEMMA DumpLists ==
  ASSUME IsSeq(image), NEW places, Tree(image, places), NEW root, NEW loc, <<root, loc>> \in places
  PROVE  dump_dir(loc) = Lines(root)
<1> DEFINE L == Len(image)
           D == {d \in 0 .. L : Cell(image, d).kind = "directory"}
           W(f) == f = [dir \in D |-> DumpStep(f, image, dir)]
           below == CHOOSE f : W(f)
           At(dir) == CHOOSE p : <<p, dir>> \in places
           g == [dir \in D |-> Lines(At(dir))]
<1>1. dump_dir(loc) = below[loc]
  BY DEF dump_dir, DumpStep, EntryLines, Under, Line
<1>2. L \in Nat
  BY SeqFacts
<1>3. \A dir \in D : <<At(dir), dir>> \in places
  <2> TAKE dir \in D
  <2>1. dir \in Nat /\ Cell(image, dir).kind = "directory"
    BY <1>2
  <2>2. \E p : <<p, dir>> \in places
    BY <2>1 DEF Tree
  <2> QED
    BY <2>2, Zenon
<1>4. \A p, dir : <<p, dir>> \in places => dir \in D
  BY PlaceInImage
<1>5. \A p, dir : <<p, dir>> \in places => At(dir) = p
  <2> TAKE p, dir
  <2> HAVE <<p, dir>> \in places
  <2>1. <<At(dir), dir>> \in places
    BY <1>3, <1>4
  <2> HIDE DEF At
  <2> QED
    BY <2>1 DEF Tree
<1> HIDE DEF At, D
<1>6. \A p, dir : <<p, dir>> \in places => g[dir] = Lines(p)
  BY <1>4, <1>5
<1>7. \A dir \in D : DumpStep(g, image, dir) = Lines(At(dir))
  <2> TAKE dir \in D
  <2>1. PICK p : p = At(dir)
    OBVIOUS
  <2>2. <<p, dir>> \in places
    BY <1>3, <2>1
  <2> HIDE DEF g
  <2>3. \A k \in 1 .. Cell(image, dir).count :
          LET e == Cell(image, dir + k) IN
          e.type = "DIR" => g[e.location] = Lines(Append(p, e.name))
    BY <1>6, <2>2, ChildPlace
  <2>4. DumpStep(g, image, dir) = Lines(p)
    BY <2>2, <2>3, LinesOfEntries
  <2> QED
    BY <2>1, <2>4
<1>8. W(g)
  BY <1>7
<1>9. W(below)
  BY <1>8, Zenon
<1> HIDE DEF below, g
<1>10. \A dir \in D : below[dir] = DumpStep(below, image, dir)
  BY <1>9, Zenon
<1> DEFINE Wrong(dir) == dir \in D /\ below[dir] # Lines(At(dir))
           Bad == {j \in 0 .. L : Wrong(L - j)}
<1>a. \A dir \in D : dir \in 0 .. L
  BY DEF D
<1>11. ASSUME Bad # {} PROVE FALSE
  <2>1. Bad \in SUBSET Nat
    OBVIOUS
  <2>2. PICK j \in Bad : \A y \in Bad : j <= y
    BY <1>11, <2>1, LeastNat
  <2>3. PICK dir : dir = L - j
    OBVIOUS
  <2>4. PICK p : p = At(dir)
    OBVIOUS
  <2>5. dir \in D /\ below[dir] # Lines(p)
    BY <2>2, <2>3, <2>4
  <2>6. <<p, dir>> \in places /\ dir \in 0 .. L
    BY <1>3, <1>a, <2>4, <2>5
  <2>7. ASSUME NEW k \in 1 .. Cell(image, dir).count, Cell(image, dir + k).type = "DIR"
        PROVE  below[Cell(image, dir + k).location] = Lines(Append(p, Cell(image, dir + k).name))
    <3>1. PICK e : e = Cell(image, dir + k)
      OBVIOUS
    <3>2. <<Append(p, e.name), e.location>> \in places /\ dir < e.location
      BY <2>6, <2>7, <3>1, ChildPlace
    <3>3. e.location \in D /\ At(e.location) = Append(p, e.name)
      BY <1>4, <1>5, <3>2
    <3>4. e.location \in 0 .. L
      BY <1>a, <3>3
    <3>5. L - e.location \in 0 .. L /\ L - e.location < j /\ L - (L - e.location) = e.location
      BY <1>2, <2>2, <2>3, <2>6, <3>2, <3>4
    <3>6. L - e.location \notin Bad
      BY <2>2, <3>5
    <3>7. ~ Wrong(e.location)
      BY <3>5, <3>6
    <3> QED
      BY <3>1, <3>3, <3>7
  <2>8. DumpStep(below, image, dir) = Lines(p)
    BY <2>6, <2>7, LinesOfEntries
  <2> QED
    BY <1>10, <2>5, <2>8
<1>12. loc \in D /\ At(loc) = root
  BY <1>4, <1>5
<1>13. loc \in 0 .. L /\ L - loc \in 0 .. L /\ L - (L - loc) = loc
  BY <1>2, <1>12, <1>a
<1>14. ~ Wrong(loc)
  BY <1>11, <1>13
<1> QED
  BY <1>1, <1>12, <1>14

(* Below the root is every file of the host that belongs into the image.   *)
LEMMA LinesOfRoot ==
  Lines(<<>>) = {[type |-> Host[path].type, size |-> Host[path].size, path |-> path] :
                   path \in HostFiles \ {<<>>}}
<1>1. \A q : IsSeq(q) => <<>> \o q = q
  <2> TAKE q
  <2> HAVE IsSeq(q)
  <2>1. PICK C : q \in Seq(C)
    BY DEF IsSeq
  <2> QED
    BY <2>1
<1>2. \A q : IsSeq(q) => (IsBelow(<<>>, q) <=> q \in HostFiles)
  <2> TAKE q
  <2> HAVE IsSeq(q)
  <2>1. Len(q) \in Nat /\ DOMAIN q = 1 .. Len(q)
    BY SeqFacts
  <2>2. \A k \in 1 .. Len(q) : <<>> \o SubSeq(q, 1, k - 1) = SubSeq(q, 1, k - 1)
    <3> TAKE k \in 1 .. Len(q)
    <3>1. 1 \in 1 .. (Len(q) + 1) /\ k - 1 \in 0 .. Len(q) /\ 1 <= (k - 1) + 1
      BY <2>1
    <3>2. IsSeq(SubSeq(q, 1, k - 1))
      BY <3>1, SeqPart
    <3> QED
      BY <1>1, <3>2
  <2>3. <<>> \o q = q
    BY <1>1
  <2>4. IsBelow(<<>>, q) <=> q \in DOMAIN Host /\ \A k \in 1 .. Len(q) : q[k] \in Listed(SubSeq(q, 1, k - 1))
    BY <2>2, <2>3 DEF IsBelow
  <2> QED
    BY <2>1, <2>4 DEF HostFiles
<1>3. \A q \in HostFiles : IsSeq(q)
  BY HostAssumption DEF HostFiles, IsSeq
<1>4. \A type, size, path : Line(type, size, path) = [type |-> type, size |-> size, path |-> path]
  BY DEF Line
<1> DEFINE R == {Line(Host[path].type, Host[path].size, path) : path \in HostFiles \ {<<>>}}
<1>5. ASSUME NEW x \in Lines(<<>>) PROVE x \in R
  <2>1. PICK q : IsSeq(q) /\ q # <<>> /\ IsBelow(<<>>, q)
                 /\ x = Line(Host[<<>> \o q].type, Host[<<>> \o q].size, q)
    BY <1>5, IsLine
  <2>2. q \in HostFiles \ {<<>>} /\ x = Line(Host[q].type, Host[q].size, q)
    BY <1>1, <1>2, <2>1
  <2> QED
    BY <2>2
<1>6. ASSUME NEW x \in R PROVE x \in Lines(<<>>)
  <2>1. PICK q \in HostFiles \ {<<>>} : x = Line(Host[q].type, Host[q].size, q)
    OBVIOUS
  <2>2. IsSeq(q) /\ q # <<>> /\ <<>> \o q = q
    BY <1>1, <1>3, <2>1
  <2>3. IsBelow(<<>>, q)
    BY <1>2, <2>1, <2>2
  <2>4. Line(Host[<<>> \o q].type, Host[<<>> \o q].size, q) \in Lines(<<>>)
    BY <2>2, <2>3, NoText, LinesAre
  <2> QED
    BY <2>1, <2>2, <2>4
<1>7. Lines(<<>>) = R
  BY <1>5, <1>6
<1> QED
  BY <1>7, <1>4, Zenon

-----------------------------------------------------------------------------
(***************************************************************************)
(* The components of a path are the names that it was made of.             *)
(***************************************************************************)
Slashed(s, name) == s \o <<"/">> \o name

NameAfter(t, s, name) ==
  /\ IsSeq(t) /\ Len(t) = Len(s) + 1 + Len(name)
  /\ \A j \in 1 .. Len(s) : t[j] = s[j]
  /\ t[Len(s) + 1] = "/"
  /\ \A i \in 1 .. Len(name) : t[Len(s) + 1 + i] = name[i]

LEMMA SlashAndName ==
  ASSUME NEW s, IsSeq(s), NEW name, IsSeq(name)
  PROVE  NameAfter(Slashed(s, name), s, name)
<1>t. PICK t : t = Slashed(s, name)
  OBVIOUS
<1>1. <<"/">> \in Seq({"/"}) /\ Len(<<"/">>) = 1 /\ <<"/">>[1] = "/"
  OBVIOUS
<1>2. PICK w : w = <<"/">>
  OBVIOUS
<1>3. IsSeq(w) /\ Len(w) = 1 /\ w[1] = "/"
  BY <1>1, <1>2 DEF IsSeq
<1>4. Len(s) \in Nat /\ Len(name) \in Nat
  BY SeqFacts
<1>5. PICK u : u = s \o w
  OBVIOUS
<1>6. t = u \o name
  BY <1>2, <1>5, <1>t DEF Slashed
<1>7. /\ IsSeq(u) /\ Len(u) = Len(s) + 1
      /\ \A k \in 1 .. (Len(s) + 1) : u[k] = IF k <= Len(s) THEN s[k] ELSE w[k - Len(s)]
  <2>1. /\ IsSeq(s \o w) /\ Len(s \o w) = Len(s) + Len(w)
        /\ \A k \in 1 .. (Len(s) + Len(w)) : (s \o w)[k] = IF k <= Len(s) THEN s[k] ELSE w[k - Len(s)]
    BY <1>3, SeqConcat
  <2> QED
    BY <1>3, <1>5, <2>1, Zenon
<1>8. /\ IsSeq(t) /\ Len(t) = Len(u) + Len(name)
      /\ \A k \in 1 .. (Len(u) + Len(name)) : t[k] = IF k <= Len(u) THEN u[k] ELSE name[k - Len(u)]
  BY <1>6, <1>7, SeqConcat
<1>9. Len(t) = Len(s) + 1 + Len(name)
  BY <1>4, <1>7, <1>8
<1>10. \A j \in 1 .. Len(s) : t[j] = s[j]
  <2> TAKE j \in 1 .. Len(s)
  <2>1. j \in 1 .. (Len(u) + Len(name)) /\ j <= Len(u) /\ j \in 1 .. (Len(s) + 1) /\ j <= Len(s)
    BY <1>4, <1>7
  <2>2. t[j] = u[j]
    BY <1>8, <2>1
  <2> QED
    BY <1>7, <2>1, <2>2
<1>11. t[Len(s) + 1] = "/"
  <2>1. PICK j : j = Len(s) + 1
    OBVIOUS
  <2>2. /\ j \in 1 .. (Len(u) + Len(name)) /\ j <= Len(u) /\ j \in 1 .. (Len(s) + 1)
        /\ ~ (j <= Len(s)) /\ j - Len(s) = 1
    BY <1>4, <1>7, <2>1
  <2>3. t[j] = u[j]
    BY <1>8, <2>2
  <2> QED
    BY <1>3, <1>7, <2>1, <2>2, <2>3
<1>12. \A i \in 1 .. Len(name) : t[Len(s) + 1 + i] = name[i]
  <2> TAKE i \in 1 .. Len(name)
  <2>1. PICK j : j = Len(s) + 1 + i
    OBVIOUS
  <2>2. j \in 1 .. (Len(u) + Len(name)) /\ ~ (j <= Len(u)) /\ j - Len(u) = i
    BY <1>4, <1>7, <2>1
  <2> QED
    BY <1>8, <2>1, <2>2
<1> QED
  BY <1>8, <1>9, <1>10, <1>11, <1>12, <1>t DEF NameAfter

PathWalk(f, names, n) ==
  f = [k \in 0 .. n |-> IF k = 0 THEN <<>> ELSE f[k - 1] \o <<"/">> \o names[k]]

LEMMA PathWalkExists ==
  ASSUME NEW names, NEW n \in Nat
  PROVE  \E f : PathWalk(f, names, n)
<1> DEFINE Step(p, k) == p \o <<"/">> \o names[k]
           Bad == {m \in Nat : ~ \E f : PathWalk(f, names, m)}
<1>1. SUFFICES ASSUME Bad # {} PROVE FALSE
  OBVIOUS
<1>2. PICK m \in Bad : \A y \in Bad : m <= y
  BY <1>1, LeastNat
<1>3. m # 0
  <2> DEFINE g == [k \in 0 .. 0 |-> <<>>]
  <2>1. PathWalk(g, names, 0)
    BY DEF PathWalk
  <2> QED
    BY <2>1
<1>4. m - 1 \in Nat /\ m - 1 \notin Bad
  BY <1>2, <1>3
<1>5. PICK f : PathWalk(f, names, m - 1)
  BY <1>4
<1> DEFINE v == Step(f[m - 1], m)
           g == [k \in 0 .. m |-> IF k = m THEN v ELSE f[k]]
<1>6. \A k \in 0 .. (m - 1) : f[k] = IF k = 0 THEN <<>> ELSE Step(f[k - 1], k)
  BY <1>5, Zenon DEF PathWalk
<1>a. \A h : PathWalk(h, names, m) <=>
               h = [k \in 0 .. m |-> IF k = 0 THEN <<>> ELSE Step(h[k - 1], k)]
  BY Zenon DEF PathWalk
<1> HIDE DEF Step
<1>7. \A k \in 0 .. (m - 1) : g[k] = f[k]
  BY <1>4
<1>8. \A k \in 0 .. m : g[k] = IF k = 0 THEN <<>> ELSE Step(g[k - 1], k)
  <2> TAKE k \in 0 .. m
  <2>1. CASE k = m
    <3>1. k - 1 \in 0 .. (m - 1) /\ g[k] = v /\ k # 0
      BY <1>3, <1>4, <2>1
    <3> QED
      BY <1>7, <2>1, <3>1
  <2>2. CASE k # m
    <3>1. k \in 0 .. (m - 1) /\ (k # 0 => k - 1 \in 0 .. (m - 1))
      BY <1>4, <2>2
    <3> HIDE DEF g
    <3> QED
      BY <1>6, <1>7, <3>1
  <2> QED
    BY <2>1, <2>2
<1>9. PathWalk(g, names, m)
  BY <1>8, <1>a
<1> QED
  BY <1>2, <1>9

(* In a path made of names, name k is after the slash behind ends[k - 1].  *)
MadeOf(path, names, ends, n) ==
  /\ IsSeq(path) /\ ends[0] = 0 /\ Len(path) = ends[n]
  /\ \A k \in 0 .. n : ends[k] \in 0 .. Len(path)
  /\ \A k \in 1 .. n : /\ ends[k] = ends[k - 1] + 1 + Len(names[k])
                       /\ path[ends[k - 1] + 1] = "/"
                       /\ \A i \in 1 .. Len(names[k]) : path[ends[k - 1] + 1 + i] = names[k][i]

LEMMA PathOfMadeOf ==
  ASSUME NEW names, IsNames(names)
  PROVE  \E ends : MadeOf(PathOf(names), names, ends, Len(names))
<1> DEFINE n == Len(names)
           W(f) == PathWalk(f, names, n)
           path == CHOOSE f : W(f)
           ends == [k \in 0 .. n |-> Len(path[k])]
<1>1. PathOf(names) = path[n]
  BY DEF PathOf, PathWalk
<1>2. n \in Nat
  BY SeqFacts DEF IsNames
<1>3. W(path)
  BY <1>2, PathWalkExists, Zenon
<1> HIDE DEF path
<1>4. \A k \in 0 .. n : path[k] = IF k = 0 THEN <<>> ELSE path[k - 1] \o <<"/">> \o names[k]
  BY <1>3, Zenon DEF PathWalk
<1>5. \A k \in 0 .. n : ends[k] = Len(path[k])
  OBVIOUS
<1>6. \A k \in 1 .. n : IsSeq(names[k])
  BY DEF IsNames
<1> HIDE DEF n, ends
<1>7. MadeOf(path[0], names, ends, 0)
  <2>1. path[0] = <<>> /\ 0 \in 0 .. n
    BY <1>2, <1>4
  <2>2. IsSeq(path[0]) /\ Len(path[0]) = 0 /\ ends[0] = 0
    BY <1>5, <2>1, NoText
  <2> QED
    BY <2>2 DEF MadeOf
<1>8. ASSUME NEW m \in 1 .. n, MadeOf(path[m - 1], names, ends, m - 1)
      PROVE  MadeOf(path[m], names, ends, m)
  <2>1. PICK s, t, name : s = path[m - 1] /\ t = path[m] /\ name = names[m]
    OBVIOUS
  <2>2. /\ IsSeq(s) /\ ends[0] = 0 /\ Len(s) = ends[m - 1]
        /\ \A k \in 0 .. (m - 1) : ends[k] \in 0 .. Len(s)
        /\ \A k \in 1 .. (m - 1) :
             /\ ends[k] = ends[k - 1] + 1 + Len(names[k])
             /\ s[ends[k - 1] + 1] = "/"
             /\ \A i \in 1 .. Len(names[k]) : s[ends[k - 1] + 1 + i] = names[k][i]
    BY <1>8, <2>1 DEF MadeOf
  <2>3. t = Slashed(s, name)
    <3>1. m \in 0 .. n /\ m # 0
      BY <1>2
    <3> QED
      BY <1>4, <2>1, <3>1 DEF Slashed
  <2>4. IsSeq(name) /\ Len(name) \in Nat /\ Len(s) \in Nat
    BY <1>6, <2>1, <2>2, SeqFacts
  <2>5. /\ IsSeq(t) /\ Len(t) = Len(s) + 1 + Len(name)
        /\ \A j \in 1 .. Len(s) : t[j] = s[j]
        /\ t[Len(s) + 1] = "/"
        /\ \A i \in 1 .. Len(name) : t[Len(s) + 1 + i] = name[i]
    <3>1. NameAfter(Slashed(s, name), s, name)
      BY <2>2, <2>4, SlashAndName
    <3> QED
      BY <2>3, <3>1 DEF NameAfter
  <2>6. ends[m] = Len(t)
    <3>1. m \in 0 .. n
      BY <1>2
    <3> QED
      BY <1>5, <2>1, <3>1
  <2>7. \A k \in 0 .. m : ends[k] \in 0 .. Len(t)
    <3> TAKE k \in 0 .. m
    <3>1. k = m \/ k \in 0 .. (m - 1)
      OBVIOUS
    <3>2. CASE k = m
      BY <2>4, <2>5, <2>6, <3>2
    <3>3. CASE k \in 0 .. (m - 1)
      <4>1. ends[k] \in 0 .. Len(s)
        BY <2>2, <3>3
      <4> QED
        BY <2>4, <2>5, <4>1
    <3> QED
      BY <3>1, <3>2, <3>3
  <2>8. ASSUME NEW k \in 1 .. m
        PROVE  /\ ends[k] = ends[k - 1] + 1 + Len(names[k])
               /\ t[ends[k - 1] + 1] = "/"
               /\ \A i \in 1 .. Len(names[k]) : t[ends[k - 1] + 1 + i] = names[k][i]
    <3>1. CASE k = m
      <4>1. ends[k - 1] = Len(s)
        BY <2>2, <3>1
      <4> QED
        BY <2>1, <2>5, <2>6, <3>1, <4>1
    <3>2. CASE k # m
      <4>1. k \in 1 .. (m - 1) /\ k - 1 \in 0 .. (m - 1) /\ k \in 0 .. (m - 1) /\ k \in 1 .. n
        BY <1>2, <3>2
      <4>2. PICK a, b : a = ends[k - 1] /\ b = ends[k]
        OBVIOUS
      <4>3. PICK l : l = Len(names[k])
        OBVIOUS
      <4>4. /\ a \in 0 .. Len(s) /\ b \in 0 .. Len(s) /\ b = a + 1 + l /\ s[a + 1] = "/"
            /\ \A i \in 1 .. l : s[a + 1 + i] = names[k][i]
        BY <2>2, <4>1, <4>2, <4>3
      <4>5. l \in Nat
        BY <1>6, <4>1, <4>3, SeqFacts
      <4>6. a + 1 \in 1 .. Len(s)
        BY <2>4, <4>4, <4>5
      <4>7. \A i \in 1 .. l : a + 1 + i \in 1 .. Len(s)
        BY <2>4, <4>4, <4>5
      <4>8. t[a + 1] = "/" /\ \A i \in 1 .. l : t[a + 1 + i] = names[k][i]
        BY <2>5, <4>4, <4>6, <4>7
      <4> QED
        BY <4>2, <4>3, <4>4, <4>8
    <3> QED
      BY <3>1, <3>2
  <2> QED
    BY <2>1, <2>2, <2>5, <2>6, <2>7, <2>8 DEF MadeOf
<1> DEFINE Bad == {m \in 0 .. n : ~ MadeOf(path[m], names, ends, m)}
<1>9. ASSUME Bad # {} PROVE FALSE
  <2>1. Bad \in SUBSET Nat
    OBVIOUS
  <2>2. PICK m \in Bad : \A y \in Bad : m <= y
    BY <1>9, <2>1, LeastNat
  <2>3. m # 0
    BY <1>7, <2>2
  <2>4. m \in 1 .. n /\ m - 1 \in 0 .. n /\ m - 1 \notin Bad
    BY <1>2, <2>2, <2>3
  <2> QED
    BY <1>8, <2>2, <2>4
<1>10. MadeOf(path[n], names, ends, n)
  BY <1>2, <1>9
<1> QED
  BY <1>1, <1>10 DEF n

LEMMA NameEndIs ==
  ASSUME NEW path, Len(path) \in Nat, NEW k \in 1 .. Len(path), NEW e \in k .. (Len(path) + 1),
         AtSlash(path, e), \A j \in k .. (e - 1) : ~ AtSlash(path, j)
  PROVE  NameEnd(path, k) = e
<1> DEFINE P(x) == AtSlash(path, x) /\ \A j \in k .. (x - 1) : ~ AtSlash(path, j)
           z == CHOOSE x \in k .. (Len(path) + 1) : P(x)
<1>1. P(e)
  OBVIOUS
<1>2. NameEnd(path, k) = z
  BY DEF NameEnd
<1> HIDE DEF P
<1>3. z \in k .. (Len(path) + 1) /\ P(z)
  BY <1>1, Zenon
<1> HIDE DEF z
<1>4. z >= e
  <2>1. SUFFICES ASSUME z < e PROVE FALSE
    BY <1>3
  <2>2. z \in k .. (e - 1)
    BY <1>3, <2>1
  <2> QED
    BY <1>3, <2>2 DEF P
<1>5. e >= z
  <2>1. SUFFICES ASSUME e < z PROVE FALSE
    BY <1>3
  <2>2. e \in k .. (z - 1)
    BY <1>3, <2>1
  <2> QED
    BY <1>3, <2>2 DEF P
<1> QED
  BY <1>2, <1>3, <1>4, <1>5

PlainNames(names) ==
  IsNames(names) /\ \A k \in 1 .. Len(names) : /\ Len(names[k]) >= 1
                                              /\ \A i \in 1 .. Len(names[k]) : names[k][i] # "/"

(* At a slash, the name that follows is split off.                         *)
LEMMA NameSplitOff ==
  ASSUME NEW names, PlainNames(names), NEW path, NEW ends, MadeOf(path, names, ends, Len(names)),
         NEW m \in 1 .. Len(names), NEW from,
         \A k \in 1 .. (Len(path) + 1) : from[k] = Split(from, path, k)
  PROVE  from[ends[m - 1] + 1] = <<names[m]>> \o from[ends[m] + 1]
<1>1. PICK a, b, name : a = ends[m - 1] /\ b = ends[m] /\ name = names[m]
  OBVIOUS
<1>2. Len(names) \in Nat /\ IsSeq(name) /\ Len(name) \in Nat /\ Len(name) >= 1
      /\ \A i \in 1 .. Len(name) : name[i] # "/"
  BY <1>1, SeqFacts DEF PlainNames, IsNames
<1>3. m \in 0 .. Len(names) /\ m - 1 \in 0 .. Len(names)
  BY <1>2
<1>4. /\ IsSeq(path) /\ a \in 0 .. Len(path) /\ b \in 0 .. Len(path)
      /\ b = a + 1 + Len(name) /\ path[a + 1] = "/"
      /\ \A i \in 1 .. Len(name) : path[a + 1 + i] = name[i]
  BY <1>1, <1>3 DEF MadeOf
<1>5. Len(path) \in Nat
  BY <1>4, SeqFacts
<1>6. from[a + 1] = from[a + 2]
  <2>1. PICK k : k = a + 1
    OBVIOUS
  <2>2. k \in 1 .. (Len(path) + 1) /\ ~ (k > Len(path)) /\ k + 1 = a + 2
    BY <1>2, <1>4, <1>5, <2>1
  <2>3. AtSlash(path, k)
    BY <1>4, <2>1 DEF AtSlash
  <2>4. Split(from, path, k) = from[k + 1]
    BY <2>2, <2>3, Zenon DEF Split
  <2> QED
    BY <2>1, <2>2, <2>4
<1>7. PICK k : k = a + 2
  OBVIOUS
<1>8. k \in 1 .. Len(path) /\ k \in 1 .. (Len(path) + 1) /\ ~ (k > Len(path))
      /\ b + 1 \in k .. (Len(path) + 1)
  BY <1>2, <1>4, <1>5, <1>7
<1>9. \A j \in k .. ((b + 1) - 1) : ~ AtSlash(path, j)
  <2> TAKE j \in k .. ((b + 1) - 1)
  <2>1. PICK i : i = j - (a + 1)
    OBVIOUS
  <2>2. i \in 1 .. Len(name) /\ a + 1 + i = j /\ ~ (j > Len(path))
    BY <1>2, <1>4, <1>5, <1>7, <2>1
  <2>3. path[j] # "/"
    BY <1>2, <1>4, <2>2
  <2> QED
    BY <2>2, <2>3 DEF AtSlash
<1>10. AtSlash(path, b + 1)
  <2>1. CASE m = Len(names)
    <3>1. b = Len(path)
      BY <1>1, <2>1 DEF MadeOf
    <3>2. b + 1 > Len(path)
      BY <1>5, <3>1
    <3> QED
      BY <3>2 DEF AtSlash
  <2>2. CASE m # Len(names)
    <3>1. m + 1 \in 1 .. Len(names) /\ (m + 1) - 1 = m
      BY <1>2, <2>2
    <3>2. path[ends[(m + 1) - 1] + 1] = "/"
      BY <3>1 DEF MadeOf
    <3>3. path[b + 1] = "/"
      BY <1>1, <3>1, <3>2
    <3> QED
      BY <3>3 DEF AtSlash
  <2> QED
    BY <2>1, <2>2
<1>11. NameEnd(path, k) = b + 1
  BY <1>5, <1>8, <1>9, <1>10, NameEndIs
<1>12. ~ AtSlash(path, k)
  <2>1. k \in k .. ((b + 1) - 1)
    BY <1>2, <1>4, <1>7
  <2> QED
    BY <1>9, <2>1
<1>13. Split(from, path, k) = <<SubSeq(path, k, (b + 1) - 1)>> \o from[b + 1]
  <2>1. Split(from, path, k) = <<SubSeq(path, k, NameEnd(path, k) - 1)>> \o from[NameEnd(path, k)]
    BY <1>8, <1>12, Zenon DEF Split
  <2> QED
    BY <1>11, <2>1, Zenon
<1>14. SubSeq(path, k, (b + 1) - 1) = name
  <2>1. PICK s : s = SubSeq(path, k, b)
    OBVIOUS
  <2>2. /\ IsSeq(s) /\ Len(s) = b - k + 1
        /\ \A i \in 1 .. (b - k + 1) : s[i] = path[k + i - 1]
    <3>1. k \in 1 .. (Len(path) + 1) /\ b \in 0 .. Len(path) /\ k <= b + 1
      BY <1>4, <1>5, <1>8
    <3> QED
      BY <1>4, <2>1, <3>1, SeqPart
  <2>3. Len(s) = Len(name)
    BY <1>2, <1>4, <1>7, <2>2
  <2>4. \A i \in 1 .. Len(s) : s[i] = name[i]
    <3> TAKE i \in 1 .. Len(s)
    <3>1. i \in 1 .. (b - k + 1) /\ k + i - 1 = a + 1 + i /\ i \in 1 .. Len(name)
      BY <1>2, <1>4, <1>7, <2>2, <2>3
    <3>2. s[i] = path[k + i - 1] /\ path[a + 1 + i] = name[i]
      BY <1>4, <2>2, <3>1
    <3> QED
      BY <3>1, <3>2
  <2>5. s = name
    BY <1>2, <2>2, <2>3, <2>4, SameTexts
  <2>6. (b + 1) - 1 = b
    BY <1>4
  <2> QED
    BY <2>1, <2>5, <2>6
<1>15. from[k] = <<name>> \o from[b + 1]
  BY <1>8, <1>13, <1>14
<1> QED
  BY <1>1, <1>6, <1>7, <1>15

LEMMA ComponentsOfPath ==
  ASSUME NEW names, PlainNames(names)
  PROVE  /\ Components(PathOf(names)) = names /\ IsSeq(PathOf(names))
         /\ names # <<>> => PathOf(names)[Len(PathOf(names))] # "/"
<1> DEFINE n == Len(names)
<1>1. IsNames(names) /\ IsSeq(names) /\ n \in Nat
  BY SeqFacts DEF PlainNames, IsNames
<1>2. PICK path : path = PathOf(names)
  OBVIOUS
<1>3. PICK ends : MadeOf(path, names, ends, n)
  BY <1>1, <1>2, PathOfMadeOf
<1>4. IsSeq(path) /\ Len(path) \in Nat /\ Len(path) = ends[n] /\ ends[0] = 0
  BY <1>3, SeqFacts DEF MadeOf
<1> DEFINE L == Len(path) + 1
           W(f) == SplitFrom(f, path, 1)
           from == CHOOSE f : W(f)
<1>5. Components(path) = from[1]
  BY DEF Components, SplitFrom, Split, NameEnd, AtSlash
<1>6. W(from)
  BY <1>4, SplitExists, Zenon
<1> HIDE DEF from
<1>7. \A k \in 1 .. L : from[k] = Split(from, path, k)
  BY <1>6, Zenon DEF SplitFrom
<1>8. ASSUME NEW m \in 1 .. n PROVE from[ends[m - 1] + 1] = <<names[m]>> \o from[ends[m] + 1]
  BY <1>3, <1>7, NameSplitOff
<1>9. from[ends[n] + 1] = <<>>
  <2>1. L \in 1 .. L /\ L > Len(path) /\ ends[n] + 1 = L
    BY <1>4
  <2>2. Split(from, path, L) = <<>>
    BY <2>1, Zenon DEF Split
  <2> QED
    BY <1>7, <2>1, <2>2
<1> DEFINE rest(k) == from[ends[k] + 1]
           Bad == {j \in 0 .. n : rest(n - j) # SubSeq(names, (n - j) + 1, n)}
<1>10. rest(n) = <<>> /\ \A m \in 1 .. n : rest(m - 1) = <<names[m]>> \o rest(m)
  BY <1>8, <1>9
<1>11. rest(0) = Components(path)
  BY <1>4, <1>5
<1>12. SubSeq(names, n + 1, n) = <<>> /\ SubSeq(names, 1, n) = names
  <2>1. PICK C : names \in Seq(C)
    BY <1>1 DEF IsSeq
  <2> QED
    BY <1>1, <2>1
<1>13. \A k \in 1 .. n : <<names[k]>> \o SubSeq(names, k + 1, n) = SubSeq(names, k, n)
  BY <1>1, SplitOffFirst
<1> HIDE DEF rest, n
<1>14. ASSUME Bad # {} PROVE FALSE
  <2>1. Bad \in SUBSET Nat
    OBVIOUS
  <2>2. PICK j \in Bad : \A y \in Bad : j <= y
    BY <1>14, <2>1, LeastNat
  <2>3. j # 0
    <3>1. n - 0 = n
      BY <1>1
    <3> QED
      BY <1>10, <1>12, <2>2, <3>1
  <2>4. PICK m : m = (n - j) + 1
    OBVIOUS
  <2>5. /\ m \in 1 .. n /\ n - j = m - 1 /\ n - (j - 1) = m /\ j - 1 \in 0 .. n
        /\ j - 1 < j
    BY <1>1, <2>2, <2>3, <2>4
  <2>6. j - 1 \notin Bad
    BY <2>2, <2>5
  <2>7. rest(m) = SubSeq(names, m + 1, n)
    BY <2>5, <2>6
  <2>8. rest(m - 1) = SubSeq(names, m, n)
    BY <1>10, <1>13, <2>5, <2>7
  <2>9. rest(n - j) = SubSeq(names, (n - j) + 1, n)
    BY <2>4, <2>5, <2>8
  <2> QED
    BY <2>2, <2>9
<1>15. rest(0) = SubSeq(names, 1, n)
  <2>1. n \in 0 .. n /\ n - n = 0 /\ 0 + 1 = 1
    BY <1>1
  <2>2. rest(n - n) = SubSeq(names, (n - n) + 1, n)
    BY <1>14, <2>1
  <2> QED
    BY <2>1, <2>2
<1>16. ASSUME names # <<>> PROVE path[Len(path)] # "/"
  <2>1. n >= 1
    <3>1. PICK C : names \in Seq(C)
      BY <1>1 DEF IsSeq
    <3> QED
      BY <1>16, <3>1 DEF n
  <2>2. n \in 1 .. n /\ n \in 0 .. n /\ n - 1 \in 0 .. n
    BY <1>1, <2>1
  <2>3. PICK a, name : a = ends[n - 1] /\ name = names[n]
    OBVIOUS
  <2>4. IsSeq(name) /\ Len(name) >= 1 /\ \A i \in 1 .. Len(name) : name[i] # "/"
    BY <2>2, <2>3 DEF PlainNames, IsNames, n
  <2>5. Len(name) \in Nat /\ Len(name) \in 1 .. Len(name)
    BY <2>4, SeqFacts
  <2>6. /\ ends[n] = a + 1 + Len(name)
        /\ \A i \in 1 .. Len(name) : path[a + 1 + i] = name[i]
    BY <1>3, <2>2, <2>3 DEF MadeOf
  <2> QED
    BY <1>4, <2>4, <2>5, <2>6
<1> QED
  BY <1>2, <1>4, <1>11, <1>12, <1>15, <1>16

-----------------------------------------------------------------------------
(***************************************************************************)
(* Every file that belongs into the image is found under its path.         *)
(***************************************************************************)
LEMMA LookupFinds ==
  ASSUME NEW img, NEW places, Tree(img, places), NEW path, NEW dir, <<path, dir>> \in places,
         NEW name \in Listed(path)
  PROVE  lookup(img, dir, name) # NotFound
<1> DEFINE n == Cell(img, dir).count
           found == {k \in 1 .. n :
                       /\ Len(Cell(img, dir + k).name) = Len(name)
                       /\ SameFirst(Cell(img, dir + k).name, name, Len(name))}
<1>1. NamesAt(img, dir, path)
  BY DEF Tree
<1>2. dir \in Nat /\ n \in Nat /\ \E k \in 1 .. n : Cell(img, dir + k).name = name
  BY <1>1 DEF NamesAt
<1>3. PICK k \in 1 .. n : Cell(img, dir + k).name = name
  BY <1>2
<1>4. SameFirst(name, name, Len(name))
  BY DEF SameFirst
<1>5. k \in found
  BY <1>3, <1>4
<1>6. found \in SUBSET Nat /\ found # {}
  BY <1>5
<1>7. Min(found) \in found
  BY <1>6, LeastOf
<1>8. lookup(img, dir, name) = dir + Min(found)
  BY <1>6 DEF lookup
<1>9. PICK j : j = Min(found)
  OBVIOUS
<1>10. j \in 1 .. n
  BY <1>7, <1>9
<1>11. dir + j # -1
  BY <1>2, <1>10
<1> HIDE DEF found
<1> QED
  BY <1>8, <1>9, <1>11 DEF NotFound

LEMMA HostFileFound ==
  ASSUME NEW img, NEW places, Tree(img, places), NEW names \in HostFiles,
         NEW path, IsSeq(path), Components(path) = names,
         names # <<>> => path[Len(path)] # "/"
  PROVE  get_directory_entry(img, path) # NotFound
<1> DEFINE n == Len(names)
           trailing == path[Len(path)] = "/"
           W(f) == FoundWalk(f, img, names, trailing, n, n)
           found == CHOOSE f : W(f)
<1>1. get_directory_entry(img, path) = found[n]
  BY DEF get_directory_entry, FoundWalk, FoundStep
<1>2. IsNames(names)
  BY ComponentsAreNames
<1>3. n \in Nat /\ DOMAIN names = 1 .. n
  BY <1>2, SeqFacts DEF IsNames
<1>4. W(found)
  BY <1>3, FoundWalkExists, Zenon
<1> HIDE DEF found
<1>5. \A k \in 0 .. n : found[k] =
        IF k = 0 THEN 0 ELSE FoundStep(img, found[k - 1], names[k], k < n \/ trailing)
  BY <1>4, Zenon DEF FoundWalk
<1> DEFINE pre(k) == SubSeq(names, 1, k)
<1>6. \A m \in 1 .. n : names[m] \in Listed(pre(m - 1)) /\ Append(pre(m - 1), names[m]) = pre(m)
  <2> TAKE m \in 1 .. n
  <2>1. names[m] \in Listed(pre(m - 1))
    BY <1>3 DEF HostFiles
  <2>2. PICK C : names \in Seq(C)
    BY <1>2 DEF IsNames, IsSeq
  <2>3. m \in 1 .. Len(names) /\ Len(names) \in Nat
    BY <1>3
  <2>4. Append(pre(m - 1), names[m]) = pre(m)
    BY <2>2, <2>3
  <2> QED
    BY <2>1, <2>4
<1>7. pre(0) = <<>>
  BY <1>2 DEF IsNames, IsSeq
<1>8. \A m \in 1 .. n : IsSeq(names[m])
  BY <1>2 DEF IsNames
<1>9. n >= 1 => ~ trailing
  <2>1. n >= 1 => names # <<>>
    BY NoText
  <2> QED
    BY <2>1
<1> DEFINE Good(k) == found[k] # NotFound /\ Leads(img, places, found[k], pre(k))
           Bad == {k \in 0 .. n : ~ Good(k)}
<1> HIDE DEF pre, n, trailing
<1>10. Good(0)
  <2>1. found[0] = 0
    BY <1>3, <1>5
  <2>2. <<>> \in DOMAIN Host /\ Host[<<>>].type = "DIR"
    BY HostAssumption
  <2>3. Leads(img, places, 0, <<>>)
    BY <2>2 DEF Leads, Tree
  <2>4. 0 # NotFound
    BY DEF NotFound
  <2> QED
    BY <1>7, <2>1, <2>3, <2>4, Zenon
<1>11. ASSUME NEW m \in 1 .. n, Good(m - 1) PROVE Good(m)
  <2>1. PICK p, dir, e : p = found[m - 1] /\ dir = Cell(img, p).location /\ e = lookup(img, dir, names[m])
    OBVIOUS
  <2>2. p # NotFound /\ Leads(img, places, p, pre(m - 1))
    BY <1>11, <2>1
  <2>3. names[m] \in Listed(pre(m - 1)) /\ Append(pre(m - 1), names[m]) = pre(m)
    BY <1>6
  <2>4. Host[pre(m - 1)].type = "DIR"
    BY <2>3, OnlyDirectoriesList
  <2>5. <<pre(m - 1), dir>> \in places
    BY <2>1, <2>2, <2>4 DEF Leads
  <2>6. e # NotFound
    BY <2>1, <2>3, <2>5, LookupFinds
  <2>7. Leads(img, places, e, pre(m))
    <3>1. IsSeq(names[m]) /\ lookup(img, dir, names[m]) # NotFound
      BY <1>8, <2>1, <2>6
    <3>2. Leads(img, places, lookup(img, dir, names[m]), Append(pre(m - 1), names[m]))
      BY <2>5, <3>1, LookupLeads
    <3> QED
      BY <2>1, <2>3, <3>2
  <2>8. ~ (Cell(img, e).type = "FILE" /\ (m < n \/ trailing))
    <3>1. ~ trailing
      BY <1>3, <1>9
    <3>2. ASSUME m < n PROVE Cell(img, e).type # "FILE"
      <4>1. m + 1 \in 1 .. n /\ (m + 1) - 1 = m
        BY <1>3, <3>2
      <4>2. names[m + 1] \in Listed(pre((m + 1) - 1))
        BY <1>6, <4>1
      <4>3. Host[pre(m)].type = "DIR"
        BY <4>1, <4>2, OnlyDirectoriesList
      <4> QED
        BY <2>7, <4>3 DEF Leads
    <3> QED
      BY <3>1, <3>2
  <2>9. found[m] = FoundStep(img, p, names[m], m < n \/ trailing)
    <3>1. m \in 0 .. n /\ m # 0
      BY <1>3
    <3> QED
      BY <1>5, <2>1, <3>1
  <2>10. found[m] = e
    BY <2>1, <2>2, <2>8, <2>9, Zenon DEF FoundStep
  <2> QED
    BY <2>6, <2>7, <2>10
<1> HIDE DEF Good
<1>12. ASSUME Bad # {} PROVE FALSE
  <2>1. Bad \in SUBSET Nat
    OBVIOUS
  <2>2. PICK m \in Bad : \A y \in Bad : m <= y
    BY <1>12, <2>1, LeastNat
  <2>3. m # 0
    BY <1>10, <2>2
  <2>4. m \in 1 .. n /\ m - 1 \in 0 .. n /\ m - 1 \notin Bad
    BY <1>3, <2>2, <2>3
  <2> QED
    BY <1>11, <2>2, <2>4
<1>13. Good(n)
  BY <1>3, <1>12
<1> QED
  BY <1>1, <1>13 DEF Good

LEMMA HostNames ==
  ASSUME NEW path \in DOMAIN Host
  PROVE  PlainNames(path)
<1>1. path \in Seq(Range(path)) /\ \A k \in DOMAIN path : /\ path[k] \in Seq(Range(path[k]))
                                                          /\ path[k] # <<>> /\ "/" \notin Range(path[k])
  BY HostAssumption
<1>2. IsSeq(path)
  BY <1>1 DEF IsSeq
<1>3. DOMAIN path = 1 .. Len(path)
  BY <1>2, SeqFacts
<1>4. ASSUME NEW k \in 1 .. Len(path)
      PROVE  /\ IsSeq(path[k]) /\ Len(path[k]) >= 1
             /\ \A i \in 1 .. Len(path[k]) : path[k][i] # "/"
  <2>1. PICK name : name = path[k]
    OBVIOUS
  <2>2. name \in Seq(Range(name)) /\ name # <<>> /\ "/" \notin Range(name)
    BY <1>1, <1>3, <2>1
  <2>3. IsSeq(name)
    BY <2>2 DEF IsSeq
  <2>4. Len(name) \in Nat /\ DOMAIN name = 1 .. Len(name)
    BY <2>3, SeqFacts
  <2>5. Len(name) >= 1
    <3>1. PICK C : name \in Seq(C)
      BY <2>3 DEF IsSeq
    <3> QED
      BY <2>2, <3>1
  <2>6. \A i \in 1 .. Len(name) : name[i] # "/"
    BY <2>2, <2>4 DEF Range
  <2> QED
    BY <2>1, <2>3, <2>5, <2>6
<1> QED
  BY <1>2, <1>4 DEF PlainNames, IsNames

(* A directory in the image has an entry for each of its names.            *)
LEMMA DirectoryHolds ==
  ASSUME NEW img, NEW dir, NEW path, NamesAt(img, dir, path)
  PROVE  LET es == Entries(img, dir) IN
         {es[k].name : k \in DOMAIN es} = Listed(path) /\ Len(es) = Cardinality(Listed(path))
<1>1. PICK n, es : n = Cell(img, dir).count /\ es = Entries(img, dir)
  OBVIOUS
<1>2. /\ n \in Nat /\ \A k \in 1 .. n : Cell(img, dir + k).name \in Listed(path)
      /\ \A j, k \in 1 .. n : Cell(img, dir + j).name = Cell(img, dir + k).name => j = k
      /\ \A name \in Listed(path) : \E k \in 1 .. n : Cell(img, dir + k).name = name
  BY <1>1 DEF NamesAt, IsEntryOf
<1>3. es = [k \in 1 .. n |-> Cell(img, dir + k)]
  BY <1>1 DEF Entries
<1>4. DOMAIN es = 1 .. n /\ \A k \in 1 .. n : es[k] = Cell(img, dir + k)
  BY <1>3
<1>5. es = [k \in 1 .. n |-> es[k]]
  BY <1>3
<1>6. Len(es) = n
  BY <1>2, <1>5, SeqIs
<1>7. {es[k].name : k \in DOMAIN es} = Listed(path)
  <2>1. \A k \in DOMAIN es : es[k].name \in Listed(path)
    BY <1>2, <1>4
  <2>2. \A name \in Listed(path) : \E k \in DOMAIN es : es[k].name = name
    BY <1>2, <1>4
  <2> QED
    BY <2>1, <2>2
<1> DEFINE f == [k \in 1 .. n |-> Cell(img, dir + k).name]
<1>8. f \in Bijection(1 .. n, Listed(path))
  <2>1. f \in [1 .. n -> Listed(path)]
    BY <1>2
  <2>2. \A j, k \in 1 .. n : f[j] = f[k] => j = k
    BY <1>2
  <2>3. \A name \in Listed(path) : \E k \in 1 .. n : f[k] = name
    BY <1>2
  <2> HIDE DEF f
  <2> QED
    BY <2>1, <2>2, <2>3 DEF Bijection, Injection, Surjection, IsInjective
<1>9. ExistsBijection(1 .. n, Listed(path))
  BY <1>8 DEF ExistsBijection
<1>10. IsFiniteSet(1 .. n) /\ Cardinality(1 .. n) = n
  <2>1. IsFiniteSet(1 .. n) /\ Cardinality(1 .. n) = IF 1 > n THEN 0 ELSE n - 1 + 1
    BY <1>2, FS_Interval
  <2> QED
    BY <1>2, <2>1
<1>11. Cardinality(Listed(path)) = n
  BY <1>9, <1>10, FS_Bijection
<1> QED
  BY <1>1, <1>6, <1>7, <1>11

LEMMA TreeIsFaithful ==
  ASSUME IsSeq(image), NEW places, Tree(image, places)
  PROVE  ImageFaithful
<1>1. dump_dir(Cell(image, 0).location) =
        {[type |-> Host[path].type, size |-> Host[path].size, path |-> path] :
           path \in HostFiles \ {<<>>}}
  <2>1. PICK loc : loc = Cell(image, 0).location
    OBVIOUS
  <2>2. <<<<>>, loc>> \in places
    BY <2>1 DEF Tree
  <2>3. dump_dir(loc) = Lines(<<>>)
    BY <2>2, DumpLists
  <2> QED
    BY <2>1, <2>3, LinesOfRoot, Zenon
<1>2. ASSUME NEW path \in HostFiles
      PROVE  LET e == get_directory_entry(image, PathOf(path)) IN
             /\ e # NotFound
             /\ Cell(image, e).type = Host[path].type
             /\ IF Host[path].type = "FILE"
                THEN HoldsBytes(Cell(image, e), Host[path].bytes)
                ELSE LET es == Entries(image, Cell(image, e).location) IN
                     /\ {es[k].name : k \in DOMAIN es} = Listed(path)
                     /\ Len(es) = Cardinality(Listed(path))
  <2>1. path \in DOMAIN Host
    BY DEF HostFiles
  <2>2. PICK p : p = PathOf(path)
    OBVIOUS
  <2>3. Components(p) = path /\ IsSeq(p) /\ (path # <<>> => p[Len(p)] # "/")
    BY <2>1, <2>2, HostNames, ComponentsOfPath
  <2>4. PICK e : e = get_directory_entry(image, p)
    OBVIOUS
  <2>5. e # NotFound
    BY <2>3, <2>4, HostFileFound
  <2>6. Leads(image, places, e, path)
    BY <2>3, <2>4, <2>5, EntryLeads
  <2>7. PICK c : c = Cell(image, e)
    OBVIOUS
  <2>8. c.type = Host[path].type
    BY <2>6, <2>7 DEF Leads
  <2>9. ASSUME Host[path].type = "FILE" PROVE HoldsBytes(c, Host[path].bytes)
    <3>1. c.size = Len(Host[path].bytes) /\ BytesAt(image, c.location, Host[path].bytes)
      BY <2>6, <2>7, <2>9 DEF Leads
    <3>2. IsSeq(Host[path].bytes)
      BY <2>1, HostAssumption DEF IsSeq
    <3>3. DOMAIN Host[path].bytes = 1 .. Len(Host[path].bytes)
      BY <3>2, SeqFacts
    <3> QED
      BY <3>1, <3>3 DEF HoldsBytes, BytesAt
  <2>10. ASSUME Host[path].type # "FILE"
         PROVE  LET es == Entries(image, c.location) IN
                {es[k].name : k \in DOMAIN es} = Listed(path) /\ Len(es) = Cardinality(Listed(path))
    <3>1. <<path, c.location>> \in places
      BY <2>6, <2>7, <2>10 DEF Leads
    <3>2. NamesAt(image, c.location, path)
      BY <3>1 DEF Tree
    <3> QED
      BY <3>2, DirectoryHolds
  <2> QED
    BY <2>2, <2>4, <2>5, <2>7, <2>8, <2>9, <2>10, Zenon
<1> QED
  BY <1>1, <1>2, Zenon DEF ImageFaithful

-----------------------------------------------------------------------------
(***************************************************************************)
(* Handles and the descriptors that refer to them.                         *)
(***************************************************************************)
Refs(fds, h) == {r \in Pids \X FDs : fds[r[1]][r[2]] = h}
RowRefs(row, h) == {fd \in FDs : row[fd] = h}

LEMMA SetSizes ==
  /\ Pids \in SUBSET Nat /\ FDs \in SUBSET Nat /\ Handles \in SUBSET Nat /\ NULL \notin Handles
  /\ IsFiniteSet(Pids) /\ IsFiniteSet(FDs)
<1>1. MAX_PROCESSES \in Nat /\ MAX_FDS \in Nat /\ MaxHandles \in Nat
  BY FilesAssumption
<1>2. IsFiniteSet(Pids)
  <2>1. 1 \in Int /\ MAX_PROCESSES - 1 \in Int
    BY <1>1
  <2> QED
    BY <2>1, FS_Interval DEF Pids
<1>3. IsFiniteSet(FDs)
  <2>1. 0 \in Int /\ MAX_FDS - 1 \in Int
    BY <1>1
  <2> QED
    BY <2>1, FS_Interval DEF FDs
<1> QED
  BY <1>1, <1>2, <1>3 DEF Pids, FDs, Handles, NULL

LEMMA RefsFinite ==
  ASSUME NEW fds, NEW h
  PROVE  /\ IsFiniteSet(Refs(fds, h)) /\ Cardinality(Refs(fds, h)) \in Nat
         /\ Cardinality(Refs(fds, h)) = 0 <=> Refs(fds, h) = {}
<1>1. IsFiniteSet(Pids \X FDs)
  BY SetSizes, FS_Product
<1>2. Refs(fds, h) \in SUBSET (Pids \X FDs)
  BY DEF Refs
<1>3. IsFiniteSet(Refs(fds, h))
  BY <1>1, <1>2, FS_Subset
<1> QED
  BY <1>3, FS_CardinalityType, FS_EmptySet

LEMMA RowRefsFinite ==
  ASSUME NEW row, NEW h
  PROVE  IsFiniteSet(RowRefs(row, h)) /\ Cardinality(RowRefs(row, h)) \in Nat
<1>1. RowRefs(row, h) \in SUBSET FDs
  BY DEF RowRefs
<1>2. IsFiniteSet(RowRefs(row, h))
  BY <1>1, SetSizes, FS_Subset
<1> QED
  BY <1>2, FS_CardinalityType

(* Pairing every descriptor of a row with something else keeps its size.   *)
Paired(x, D) == {<<x, fd>> : fd \in D}
Marked(D, x) == {<<fd, x>> : fd \in D}

LEMMA PairedRow ==
  ASSUME NEW D, IsFiniteSet(D), NEW x
  PROVE  /\ IsFiniteSet(Paired(x, D)) /\ Cardinality(Paired(x, D)) = Cardinality(D)
         /\ IsFiniteSet(Marked(D, x)) /\ Cardinality(Marked(D, x)) = Cardinality(D)
<1> DEFINE A == Paired(x, D)
           B == Marked(D, x)
           f == [fd \in D |-> <<x, fd>>]
           g == [fd \in D |-> <<fd, x>>]
<1>1. f \in Bijection(D, A)
  BY DEF Bijection, Injection, Surjection, IsInjective, Paired
<1>2. g \in Bijection(D, B)
  BY DEF Bijection, Injection, Surjection, IsInjective, Marked
<1> HIDE DEF f, g, A, B
<1>3. ExistsBijection(D, A) /\ ExistsBijection(D, B)
  BY <1>1, <1>2 DEF ExistsBijection
<1>4. IsFiniteSet(A) /\ Cardinality(A) = Cardinality(D)
  BY <1>3, FS_Bijection
<1>5. IsFiniteSet(B) /\ Cardinality(B) = Cardinality(D)
  BY <1>3, FS_Bijection
<1> QED
  BY <1>4, <1>5 DEF A, B

Fds == [Pids -> [FDs -> Handles \cup {NULL}]]
WithRow(fds, p, row) == [fds EXCEPT ![p] = row]
WithFd(row, fd, x) == [row EXCEPT ![fd] = x]

(* The references after the descriptors of one process have been replaced. *)
LEMMA RowReplaced ==
  ASSUME NEW fds \in Fds, NEW p \in Pids, NEW row, NEW fds2, fds2 = WithRow(fds, p, row),
         NEW h
  PROVE  Cardinality(Refs(fds2, h)) =
           Cardinality(Refs(fds, h)) - Cardinality(RowRefs(fds[p], h)) + Cardinality(RowRefs(row, h))
<1> DEFINE Others == {r \in Pids \X FDs : r[1] # p /\ fds[r[1]][r[2]] = h}
           Old == Paired(p, RowRefs(fds[p], h))
           New == Paired(p, RowRefs(row, h))
<1>0. fds2[p] = row /\ \A q \in Pids : q # p => fds2[q] = fds[q]
  BY DEF Fds, WithRow
<1>1. Refs(fds, h) = Others \cup Old /\ Others \cap Old = {}
  <2>1. \A r \in Refs(fds, h) : r \in Others \cup Old
    <3> TAKE r \in Refs(fds, h)
    <3>1. r \in Pids \X FDs /\ fds[r[1]][r[2]] = h
      BY DEF Refs
    <3>2. CASE r[1] = p
      <4>1. r = <<p, r[2]>> /\ r[2] \in RowRefs(fds[p], h)
        BY <3>1, <3>2 DEF RowRefs
      <4> QED
        BY <4>1 DEF Paired
    <3>3. CASE r[1] # p
      BY <3>1, <3>3
    <3> QED
      BY <3>2, <3>3
  <2>2. \A r \in Old : r \in Refs(fds, h) /\ r \notin Others
    BY DEF Refs, RowRefs, Paired
  <2>3. Others \subseteq Refs(fds, h)
    BY DEF Refs
  <2> HIDE DEF Old, Others
  <2> QED
    BY <2>1, <2>2, <2>3
<1>2. Refs(fds2, h) = Others \cup New /\ Others \cap New = {}
  <2>1. \A r \in Refs(fds2, h) : r \in Others \cup New
    <3> TAKE r \in Refs(fds2, h)
    <3>1. r \in Pids \X FDs /\ fds2[r[1]][r[2]] = h
      BY DEF Refs
    <3>2. CASE r[1] = p
      <4>1. r = <<p, r[2]>> /\ r[2] \in RowRefs(row, h)
        BY <1>0, <3>1, <3>2 DEF RowRefs
      <4> QED
        BY <4>1 DEF Paired
    <3>3. CASE r[1] # p
      BY <1>0, <3>1, <3>3
    <3> QED
      BY <3>2, <3>3
  <2>2. \A r \in New : r \in Refs(fds2, h) /\ r \notin Others
    BY <1>0 DEF Refs, RowRefs, Paired
  <2>3. \A r \in Others : r \in Refs(fds2, h)
    BY <1>0 DEF Refs
  <2> HIDE DEF New, Others
  <2> QED
    BY <2>1, <2>2, <2>3
<1>3. IsFiniteSet(Others) /\ Cardinality(Others) \in Nat
  <2>1. Others \in SUBSET (Pids \X FDs) /\ IsFiniteSet(Pids \X FDs)
    BY SetSizes, FS_Product
  <2> HIDE DEF Others
  <2>2. IsFiniteSet(Others)
    BY <2>1, FS_Subset
  <2> QED
    BY <2>2, FS_CardinalityType
<1>4. IsFiniteSet(Old) /\ Cardinality(Old) = Cardinality(RowRefs(fds[p], h))
  BY RowRefsFinite, PairedRow
<1>5. IsFiniteSet(New) /\ Cardinality(New) = Cardinality(RowRefs(row, h))
  BY RowRefsFinite, PairedRow
<1> HIDE DEF Others, Old, New
<1>6. Cardinality(Refs(fds, h)) = Cardinality(Others) + Cardinality(Old)
  <2>1. Cardinality(Others \cup Old) =
          Cardinality(Others) + Cardinality(Old) - Cardinality(Others \cap Old)
    BY <1>3, <1>4, FS_Union
  <2>2. Cardinality(Others \cap Old) = 0
    BY <1>1, FS_EmptySet
  <2>3. Cardinality(Old) \in Nat
    BY <1>4, RowRefsFinite
  <2> QED
    BY <1>1, <1>3, <2>1, <2>2, <2>3
<1>7. Cardinality(Refs(fds2, h)) = Cardinality(Others) + Cardinality(New)
  <2>1. Cardinality(Others \cup New) =
          Cardinality(Others) + Cardinality(New) - Cardinality(Others \cap New)
    BY <1>3, <1>5, FS_Union
  <2>2. Cardinality(Others \cap New) = 0
    BY <1>2, FS_EmptySet
  <2>3. Cardinality(New) \in Nat
    BY <1>5, RowRefsFinite
  <2>4. Cardinality(Refs(fds2, h)) = Cardinality(Others \cup New)
    BY <1>2, Zenon
  <2> QED
    BY <1>3, <2>1, <2>2, <2>3, <2>4
<1>8. Cardinality(RowRefs(fds[p], h)) \in Nat /\ Cardinality(RowRefs(row, h)) \in Nat
  BY RowRefsFinite
<1> QED
  BY <1>3, <1>4, <1>5, <1>6, <1>7, <1>8

One(a, b) == IF a = b THEN 1 ELSE 0

(* The references from a row in which one descriptor has been set.         *)
LEMMA DescriptorSet ==
  ASSUME NEW row \in [FDs -> Handles \cup {NULL}], NEW fd \in FDs, NEW x, NEW h
  PROVE  Cardinality(RowRefs(WithFd(row, fd, x), h)) =
           Cardinality(RowRefs(row, h)) - One(row[fd], h) + One(x, h)
<1> DEFINE R == RowRefs(row, h)
           Q == RowRefs(WithFd(row, fd, x), h)
           S == R \ {fd}
<1>1. /\ fd \in R <=> row[fd] = h
      /\ x = h => Q = S \cup {fd}
      /\ x # h => Q = S
  BY DEF RowRefs, WithFd
<1>2. IsFiniteSet(R) /\ Cardinality(R) \in Nat
  BY RowRefsFinite
<1> HIDE DEF R, Q
<1>3. IsFiniteSet(S) /\ Cardinality(S) = IF fd \in R THEN Cardinality(R) - 1 ELSE Cardinality(R)
  BY <1>2, FS_RemoveElement
<1>4. fd \notin S
  OBVIOUS
<1> HIDE DEF S
<1>5. Cardinality(S \cup {fd}) = Cardinality(S) + 1
  BY <1>3, <1>4, FS_AddElement
<1>6. Cardinality(S) = Cardinality(R) - One(row[fd], h)
  BY <1>1, <1>2, <1>3 DEF One
<1>7. Cardinality(Q) = Cardinality(S) + One(x, h)
  <2>1. Cardinality(S) \in Int
    BY <1>2, <1>3
  <2> QED
    BY <1>1, <1>5, <2>1 DEF One
<1>8. One(row[fd], h) \in Int /\ One(x, h) \in Int
  BY DEF One
<1> QED
  BY <1>2, <1>6, <1>7, <1>8 DEF R, Q

Count(fds, h) == Cardinality(Refs(fds, h))
RowCount(row, h) == Cardinality(RowRefs(row, h))

LEMMA CountFacts ==
  ASSUME NEW fds, NEW h
  PROVE  /\ Count(fds, h) \in Nat
         /\ \A p \in Pids, fd \in FDs : fds[p][fd] = h => Count(fds, h) # 0
<1>1. \A p \in Pids, fd \in FDs : fds[p][fd] = h => <<p, fd>> \in Refs(fds, h)
  BY DEF Refs
<1>2. /\ Cardinality(Refs(fds, h)) \in Nat
      /\ Cardinality(Refs(fds, h)) = 0 <=> Refs(fds, h) = {}
  BY RefsFinite
<1> QED
  BY <1>1, <1>2 DEF Count

LEMMA RowCountFacts ==
  ASSUME NEW row, NEW h
  PROVE  /\ RowCount(row, h) \in Nat
         /\ RowCount(row, h) # 0 => \E fd \in FDs : row[fd] = h
<1>1. IsFiniteSet(RowRefs(row, h)) /\ RowCount(row, h) \in Nat
  BY RowRefsFinite DEF RowCount
<1>2. RowCount(row, h) # 0 => RowRefs(row, h) # {}
  BY <1>1, FS_EmptySet DEF RowCount
<1> QED
  BY <1>1, <1>2 DEF RowRefs

LEMMA OneIs ==
  ASSUME NEW a, NEW b
  PROVE  /\ One(a, b) \in {0, 1} /\ (One(a, b) = 1 <=> a = b)
  BY DEF One

(* No descriptor that is NULL refers to a handle.                          *)
LEMMA EmptyRow ==
  ASSUME NEW row, \A fd \in FDs : row[fd] = NULL, NEW h \in Handles
  PROVE  RowCount(row, h) = 0
  BY RowCountFacts, SetSizes

LEMMA RowChanged ==
  ASSUME NEW fds \in Fds, NEW p \in Pids, NEW row \in [FDs -> Handles \cup {NULL}], NEW fds2,
         fds2 = WithRow(fds, p, row)
  PROVE  /\ fds2 \in Fds /\ fds2[p] = row /\ \A q \in Pids : q # p => fds2[q] = fds[q]
         /\ \A h : Count(fds2, h) = Count(fds, h) - RowCount(fds[p], h) + RowCount(row, h)
<1>1. fds2 \in Fds /\ fds2[p] = row /\ \A q \in Pids : q # p => fds2[q] = fds[q]
  BY DEF Fds, WithRow
<1>2. \A h : Count(fds2, h) = Count(fds, h) - RowCount(fds[p], h) + RowCount(row, h)
  BY RowReplaced DEF Count, RowCount
<1> QED
  BY <1>1, <1>2

LEMMA DescriptorChanged ==
  ASSUME NEW fds \in Fds, NEW p \in Pids, NEW fd \in FDs, NEW x \in Handles \cup {NULL}, NEW fds2,
         fds2 = WithRow(fds, p, WithFd(fds[p], fd, x))
  PROVE  /\ fds2 \in Fds /\ \A q \in Pids : q # p => fds2[q] = fds[q]
         /\ fds2[p] = WithFd(fds[p], fd, x)
         /\ \A h : Count(fds2, h) = Count(fds, h) - One(fds[p][fd], h) + One(x, h)
<1>1. PICK row : row = WithFd(fds[p], fd, x)
  OBVIOUS
<1>2. fds[p] \in [FDs -> Handles \cup {NULL}]
  BY DEF Fds
<1>3. row \in [FDs -> Handles \cup {NULL}]
  BY <1>1, <1>2 DEF WithFd
<1>4. fds2 = WithRow(fds, p, row)
  BY <1>1
<1>5. /\ fds2 \in Fds /\ fds2[p] = row /\ \A q \in Pids : q # p => fds2[q] = fds[q]
      /\ \A h : Count(fds2, h) = Count(fds, h) - RowCount(fds[p], h) + RowCount(row, h)
  BY <1>3, <1>4, RowChanged
<1>6. ASSUME NEW h
      PROVE  Count(fds2, h) = Count(fds, h) - One(fds[p][fd], h) + One(x, h)
  <2>1. RowCount(row, h) = RowCount(fds[p], h) - One(fds[p][fd], h) + One(x, h)
    BY <1>1, <1>2, DescriptorSet DEF RowCount
  <2>2. Count(fds2, h) = Count(fds, h) - RowCount(fds[p], h) + RowCount(row, h)
    BY <1>5
  <2>3. Count(fds, h) \in Int /\ RowCount(fds[p], h) \in Int
    BY CountFacts, RowCountFacts
  <2>4. One(fds[p][fd], h) \in Int /\ One(x, h) \in Int
    BY DEF One
  <2> QED
    BY <2>1, <2>2, <2>3, <2>4
<1> QED
  BY <1>1, <1>5, <1>6

(* References(p), handle by handle.                                        *)
LEMMA ReferencesOf ==
  ASSUME filedesc \in Fds, NEW p \in Pids, NEW h \in Handles
  PROVE  Cardinality({r \in References(p) : r[2] = h}) = RowCount(filedesc[p], h)
<1>1. {r \in References(p) : r[2] = h} = Marked(RowRefs(filedesc[p], h), h)
  <2>1. \A r \in {s \in References(p) : s[2] = h} : r \in Marked(RowRefs(filedesc[p], h), h)
    BY DEF References, Marked, RowRefs
  <2>2. \A r \in Marked(RowRefs(filedesc[p], h), h) : r \in References(p) /\ r[2] = h
    BY SetSizes DEF References, Marked, RowRefs
  <2> QED
    BY <2>1, <2>2
<1>2. IsFiniteSet(RowRefs(filedesc[p], h))
  BY RowRefsFinite
<1>3. Cardinality(Marked(RowRefs(filedesc[p], h), h)) = Cardinality(RowRefs(filedesc[p], h))
  BY <1>2, PairedRow
<1> QED
  BY <1>1, <1>3 DEF RowCount

(* One reference, or none.                                                 *)
Reference(fd, x) == {<<fd, x>>}

LEMMA OneReference ==
  ASSUME NEW fd, NEW x, NEW refs, refs = Reference(fd, x), NEW h
  PROVE  Cardinality({r \in refs : r[2] = h}) = One(x, h)
<1>1. Cardinality({}) = 0 /\ Cardinality({<<fd, x>>}) = 1
  BY FS_EmptySet, FS_Singleton
<1>2. CASE x = h
  <2>1. {r \in refs : r[2] = h} = {<<fd, x>>}
    BY <1>2 DEF Reference
  <2> QED
    BY <1>1, <1>2, <2>1 DEF One
<1>3. CASE x # h
  <2>1. {r \in refs : r[2] = h} = {}
    BY <1>3 DEF Reference
  <2> QED
    BY <1>1, <1>3, <2>1 DEF One
<1> QED
  BY <1>2, <1>3

LEMMA NoReference ==
  ASSUME NEW h
  PROVE  Cardinality({r \in {} : r[2] = h}) = 0
<1>1. {r \in {} : r[2] = h} = {}
  OBVIOUS
<1> QED
  BY <1>1, FS_EmptySet

(* What has been read through a handle is the beginning of what there is   *)
(* to read, up to the handle's position.                                   *)
ReadsFile(img, hd, g) ==
  LET c == Cell(img, hd.entry)
      bytes == Host[hd.path].bytes
  IN
  /\ hd.path \in DOMAIN Host
  /\ c.size = Len(bytes) /\ c.location \in Nat /\ BytesAt(img, c.location, bytes)
  /\ hd.pos \in 0 .. Len(bytes) /\ IsSeq(g) /\ Len(g) = hd.pos
  /\ \A k \in 1 .. hd.pos : g[k] = Byte(bytes[k])

ReadsDir(img, hd, g) ==
  LET dir == Cell(img, hd.entry).location IN
  /\ NamesAt(img, dir, hd.path)
  /\ hd.entryno \in 0 .. Cell(img, dir).count /\ IsSeq(g) /\ Len(g) = hd.entryno
  /\ \A k \in 1 .. hd.entryno : g[k] = Cell(img, dir + k).name

Reads(img, hd, g) ==
  \/ hd.type = "FH_FILE" /\ ReadsFile(img, hd, g)
  \/ hd.type = "FH_DIR" /\ ReadsDir(img, hd, g)

IsHandle(hd) ==
  hd = [refcount |-> hd.refcount, type |-> hd.type, entry |-> hd.entry, pos |-> hd.pos,
        entryno |-> hd.entryno, path |-> hd.path]

HandleOk(img, n, hd, g) == IsHandle(hd) /\ hd.refcount = n /\ (n # 0 => Reads(img, hd, g))

HandlesOk(img, fds, hs, gs) ==
  /\ fds \in Fds /\ hs = [h \in Handles |-> hs[h]] /\ gs = [h \in Handles |-> gs[h]]
  /\ \A h \in Handles : HandleOk(img, Count(fds, h), hs[h], gs[h])

Counted(hd, x) == [hd EXCEPT !.refcount = x]
Moved(hd, x) == [hd EXCEPT !.pos = x]
Stepped(hd, x) == [hd EXCEPT !.entryno = x]

(* The fields a step of a handle changes, and those it leaves.             *)
LEMMA HandleUpdates ==
  ASSUME NEW hd, IsHandle(hd), NEW x
  PROVE  /\ LET a == Counted(hd, x) IN
            /\ IsHandle(a) /\ a.refcount = x /\ a.type = hd.type /\ a.entry = hd.entry
            /\ a.pos = hd.pos /\ a.entryno = hd.entryno /\ a.path = hd.path
         /\ LET a == Moved(hd, x) IN
            /\ IsHandle(a) /\ a.refcount = hd.refcount /\ a.type = hd.type /\ a.entry = hd.entry
            /\ a.pos = x /\ a.entryno = hd.entryno /\ a.path = hd.path
         /\ LET a == Stepped(hd, x) IN
            /\ IsHandle(a) /\ a.refcount = hd.refcount /\ a.type = hd.type /\ a.entry = hd.entry
            /\ a.pos = hd.pos /\ a.entryno = x /\ a.path = hd.path
  BY DEF IsHandle, Counted, Moved, Stepped

LEMMA CountedAgain ==
  ASSUME NEW img, NEW n, NEW hd, NEW g, HandleOk(img, n, hd, g), n # 0, NEW m
  PROVE  HandleOk(img, m, Counted(hd, m), g)
<1>0. IsHandle(hd) /\ Reads(img, hd, g)
  BY DEF HandleOk
<1>1. PICK a : a = Counted(hd, m)
  OBVIOUS
<1>2. /\ IsHandle(a) /\ a.refcount = m /\ a.type = hd.type /\ a.entry = hd.entry
      /\ a.pos = hd.pos /\ a.entryno = hd.entryno /\ a.path = hd.path
  BY <1>0, <1>1, HandleUpdates
<1>3. Reads(img, a, g)
  <2>1. ReadsFile(img, a, g) <=> ReadsFile(img, hd, g)
    BY <1>2, Zenon DEF ReadsFile
  <2>2. ReadsDir(img, a, g) <=> ReadsDir(img, hd, g)
    BY <1>2, Zenon DEF ReadsDir
  <2> QED
    BY <1>0, <1>2, <2>1, <2>2, Zenon DEF Reads
<1>4. HandleOk(img, m, a, g)
  BY <1>2, <1>3 DEF HandleOk
<1> QED
  BY <1>1, <1>4

LEMMA UnusedHandle == IsHandle(Unused) /\ Unused.refcount = 0
  BY DEF IsHandle, Unused

(* Dropping and adding references as the descriptors change.               *)
LEMMA RecountKeeps ==
  ASSUME NEW img, HandlesOk(img, filedesc, handle, got), NEW fds2 \in Fds, NEW refs, NEW more,
         \A h \in Handles :
           /\ Count(fds2, h) = Count(filedesc, h) - Cardinality({r \in refs : r[2] = h})
                                 + Cardinality({r \in more : r[2] = h})
           /\ Count(fds2, h) # 0 => Count(filedesc, h) # 0,
         NEW hs, hs = Recount(refs, more), NEW gs, gs = [h \in Handles |-> gs[h]],
         \A h \in Handles : hs[h].refcount # 0 => gs[h] = got[h]
  PROVE  HandlesOk(img, fds2, hs, gs)
<1>1. ASSUME NEW h \in Handles
      PROVE  /\ Count(fds2, h) = 0 => hs[h] = Unused
             /\ Count(fds2, h) # 0 => hs[h] = Counted(handle[h], Count(fds2, h))
  <2>1. handle[h].refcount = Count(filedesc, h)
    BY DEF HandlesOk, HandleOk
  <2>2. PICK n : n = handle[h].refcount - Cardinality({r \in refs : r[2] = h})
                       + Cardinality({r \in more : r[2] = h})
    OBVIOUS
  <2>3. hs[h] = IF n = 0 THEN Unused ELSE Counted(handle[h], n)
    BY <2>2, Zenon DEF Recount, Counted
  <2>4. n = Count(fds2, h)
    BY <2>1, <2>2, Zenon
  <2> QED
    BY <2>3, <2>4, Zenon
<1>2. hs = [h \in Handles |-> hs[h]]
  BY DEF Recount
<1>3. ASSUME NEW h \in Handles
      PROVE  HandleOk(img, Count(fds2, h), hs[h], gs[h])
  <2>1. HandleOk(img, Count(filedesc, h), handle[h], got[h])
    BY DEF HandlesOk
  <2>2. CASE Count(fds2, h) = 0
    BY <1>1, <2>2, UnusedHandle DEF HandleOk
  <2>3. CASE Count(fds2, h) # 0
    <3>1. Count(filedesc, h) # 0
      BY <2>3
    <3>2. HandleOk(img, Count(fds2, h), hs[h], got[h])
      <4>1. HandleOk(img, Count(fds2, h), Counted(handle[h], Count(fds2, h)), got[h])
        BY <2>1, <3>1, CountedAgain
      <4>2. hs[h] = Counted(handle[h], Count(fds2, h))
        BY <1>1, <2>3
      <4> QED
        BY <4>1, <4>2, Zenon
    <3>3. hs[h].refcount # 0
      BY <2>3, <3>2 DEF HandleOk
    <3> QED
      BY <3>2, <3>3
  <2> QED
    BY <2>2, <2>3
<1> QED
  BY <1>2, <1>3 DEF HandlesOk

(* Only processes that exist, and none before the image is built, have     *)
(* open descriptors.                                                       *)
ReadsInv ==
  /\ FilesInv /\ LaidOut(image, frames)
  /\ \A p \in Pids : IsSeq(cwd[p])
  /\ HandlesOk(image, filedesc, handle, got)
  /\ \A p \in Pids : (p \in exists /\ Built) \/ \A fd \in FDs : filedesc[p][fd] = NULL

(* A new handle is at the beginning of what the path leads to.             *)
LEMMA NewFileReads ==
  ASSUME ReadsInv, Built, NEW path, IsSeq(path), NEW e, e = get_directory_entry(image, path),
         e # NotFound
  PROVE  HandleOk(image, 1, new_file(e, path), <<>>)
<1>1. PICK places : Tree(image, places)
  BY BuiltTree, BuildInvFacts DEF ReadsInv, FilesInv
<1>2. Leads(image, places, e, Components(path))
  BY <1>1, EntryLeads
<1>3. PICK nd : nd = new_file(e, path)
  OBVIOUS
<1>4. /\ IsHandle(nd) /\ nd.refcount = 1 /\ nd.entry = e /\ nd.pos = 0 /\ nd.entryno = 0
      /\ nd.path = Components(path)
      /\ nd.type = IF Cell(image, e).type = "DIR" THEN "FH_DIR" ELSE "FH_FILE"
  BY <1>3 DEF new_file, IsHandle
<1>5. CASE Cell(image, e).type = "DIR"
  <2>1. <<Components(path), Cell(image, e).location>> \in places
    BY <1>2, <1>5 DEF Leads
  <2>2. NamesAt(image, Cell(image, e).location, Components(path))
    BY <1>1, <2>1 DEF Tree
  <2>3. Cell(image, Cell(image, e).location).count \in Nat
    BY <2>2 DEF NamesAt
  <2>4. 0 \in 0 .. Cell(image, Cell(image, e).location).count
    BY <2>3
  <2>5. \A k \in 1 .. 0 : <<>>[k] = Cell(image, Cell(image, e).location + k).name
    OBVIOUS
  <2>6. ReadsDir(image, nd, <<>>)
    BY <1>4, <2>2, <2>4, <2>5, NoText, Zenon DEF ReadsDir
  <2> QED
    BY <1>3, <1>4, <1>5, <2>6 DEF HandleOk, Reads
<1>6. CASE Cell(image, e).type # "DIR"
  <2> DEFINE bytes == Host[Components(path)].bytes
  <2>1. /\ Components(path) \in DOMAIN Host /\ Cell(image, e).size = Len(bytes)
        /\ Cell(image, e).location \in Nat /\ BytesAt(image, Cell(image, e).location, bytes)
    BY <1>2, <1>6 DEF Leads
  <2>2. bytes \in Seq(Range(bytes))
    BY <2>1, HostAssumption
  <2> HIDE DEF bytes
  <2>3. 0 \in 0 .. Len(bytes)
    BY <2>2
  <2>4. \A k \in 1 .. 0 : <<>>[k] = Byte(bytes[k])
    OBVIOUS
  <2>5. ReadsFile(image, nd, <<>>)
    BY <1>4, <2>1, <2>3, <2>4, NoText, Zenon DEF ReadsFile, bytes
  <2> QED
    BY <1>3, <1>4, <1>6, <2>5 DEF HandleOk, Reads
<1> QED
  BY <1>5, <1>6

(* The lowest descriptor and the lowest handle that are free.              *)
LEMMA OpenKeeps ==
  ASSUME ReadsInv, Built, NEW p \in exists, NEW path \in Opened, NEW flags,
         syscall_open(p, path, flags)
  PROVE  /\ HandlesOk(image, filedesc', handle', got')
         /\ \A q \in Pids : q # p => filedesc'[q] = filedesc[q]
<1> DEFINE F == {f \in FDs : filedesc[p][f] = NULL}
           H == {k \in Handles : handle[k].refcount = 0}
           fd == Min(F)
           h == Min(H)
<1>1. PICK slash \in SlashBefore(p) :
        /\ OpenResult(p, path, flags, slash) = "0"
        /\ \E k \in Handles : handle[k].refcount = 0
        /\ handle' = [handle EXCEPT ![h] = new_file(Found(p, path, slash), AbsPath(p, path, slash))]
        /\ filedesc' = [filedesc EXCEPT ![p][fd] = h]
        /\ got' = [got EXCEPT ![h] = <<>>]
  BY DEF syscall_open
<1> DEFINE abs == AbsPath(p, path, slash)
           e == Found(p, path, slash)
<1>2. p \in Pids /\ filedesc \in Fds /\ IsSeq(cwd[p])
  BY DEF ReadsInv, FilesInv, HandlesOk
<1>3. (\E f \in FDs : filedesc[p][f] = NULL) /\ e # NotFound
  <2>1. "EMFILE" # "0" /\ "ENOENT" # "0"
    OBVIOUS
  <2> QED
    BY <1>1, <2>1, Zenon DEF OpenResult
<1>4. F \in SUBSET Nat /\ F # {} /\ H \in SUBSET Nat /\ H # {}
  BY <1>1, <1>3, SetSizes
<1>5. fd \in F /\ h \in H
  <2> HIDE DEF F, H
  <2> QED
    BY <1>4, LeastOf
<1>6. fd \in FDs /\ filedesc[p][fd] = NULL /\ h \in Handles /\ handle[h].refcount = 0
  BY <1>5
<1> HIDE DEF fd, h
<1>7. HandleOk(image, 1, new_file(e, abs), <<>>)
  <2>1. path \in Paths /\ path \in Seq(Range(path))
    BY FilesAssumption
  <2>2. IsSeq(path)
    BY <2>1 DEF IsSeq
  <2>3. IsSeq(abs)
    BY <1>2, <2>2, AbsoluteIsText DEF AbsPath
  <2>4. e = get_directory_entry(image, abs)
    BY DEF Found
  <2> HIDE DEF e, abs
  <2> QED
    BY <1>3, <2>3, <2>4, NewFileReads
<1> HIDE DEF e, abs
<1>8. filedesc' = WithRow(filedesc, p, WithFd(filedesc[p], fd, h))
  BY <1>1 DEF WithRow, WithFd
<1>9. /\ filedesc' \in Fds /\ \A q \in Pids : q # p => filedesc'[q] = filedesc[q]
      /\ \A k : Count(filedesc', k) = Count(filedesc, k) - One(filedesc[p][fd], k) + One(h, k)
  BY <1>2, <1>6, <1>8, DescriptorChanged
<1>10. /\ handle = [k \in Handles |-> handle[k]] /\ got = [k \in Handles |-> got[k]]
       /\ \A k \in Handles : HandleOk(image, Count(filedesc, k), handle[k], got[k])
  BY DEF ReadsInv, HandlesOk
<1>11. /\ handle' = [k \in Handles |-> handle'[k]] /\ got' = [k \in Handles |-> got'[k]]
       /\ handle'[h] = new_file(e, abs) /\ got'[h] = <<>>
       /\ \A k \in Handles : k # h => handle'[k] = handle[k] /\ got'[k] = got[k]
  <2>1. PICK nd : nd = new_file(e, abs)
    OBVIOUS
  <2>2. handle' = [handle EXCEPT ![h] = nd] /\ got' = [got EXCEPT ![h] = <<>>]
    BY <1>1, <2>1 DEF e, abs
  <2> QED
    BY <1>6, <1>10, <2>1, <2>2
<1>12. ASSUME NEW k \in Handles
       PROVE  HandleOk(image, Count(filedesc', k), handle'[k], got'[k])
  <2>1. Count(filedesc', k) = Count(filedesc, k) - One(filedesc[p][fd], k) + One(h, k)
    BY <1>9
  <2>2. One(filedesc[p][fd], k) = 0
    BY <1>6, SetSizes DEF One
  <2>3. Count(filedesc, k) \in Nat
    BY CountFacts
  <2>4. CASE k = h
    <3>1. Count(filedesc, k) = 0
      BY <1>6, <1>10, <2>4 DEF HandleOk
    <3>2. One(h, k) = 1
      BY <2>4 DEF One
    <3>3. Count(filedesc', k) = 1
      BY <2>1, <2>2, <3>1, <3>2
    <3> QED
      BY <1>7, <1>11, <2>4, <3>3
  <2>5. CASE k # h
    <3>1. One(h, k) = 0
      BY <2>5 DEF One
    <3>2. Count(filedesc', k) = Count(filedesc, k)
      BY <2>1, <2>2, <2>3, <3>1
    <3> QED
      BY <1>10, <1>11, <2>5, <3>2
  <2> QED
    BY <2>4, <2>5
<1> QED
  BY <1>9, <1>11, <1>12 DEF HandlesOk

(* An open descriptor refers to a handle that is in use.                   *)
LEMMA OpenDescriptor ==
  ASSUME ReadsInv, NEW p \in Pids, NEW fd \in FDs, filedesc[p][fd] # NULL
  PROVE  LET h == filedesc[p][fd] IN
         /\ h \in Handles /\ Count(filedesc, h) # 0 /\ handle[h].refcount = Count(filedesc, h)
         /\ IsHandle(handle[h]) /\ Reads(image, handle[h], got[h])
<1> DEFINE h == filedesc[p][fd]
<1>1. h \in Handles
  BY DEF ReadsInv, HandlesOk, Fds
<1>2. Count(filedesc, h) # 0
  BY CountFacts
<1>3. HandleOk(image, Count(filedesc, h), handle[h], got[h])
  BY <1>1 DEF ReadsInv, HandlesOk
<1> QED
  BY <1>1, <1>2, <1>3 DEF HandleOk

(* Only one handle changes.                                                *)
LEMMA OneHandleChanges ==
  ASSUME ReadsInv, NEW h \in Handles, NEW nd, NEW g, HandleOk(image, Count(filedesc, h), nd, g),
         handle' = [handle EXCEPT ![h] = nd], got' = [got EXCEPT ![h] = g], filedesc' = filedesc
  PROVE  HandlesOk(image, filedesc', handle', got')
<1>1. /\ handle = [k \in Handles |-> handle[k]] /\ got = [k \in Handles |-> got[k]]
      /\ \A k \in Handles : HandleOk(image, Count(filedesc, k), handle[k], got[k])
      /\ filedesc \in Fds
  BY DEF ReadsInv, HandlesOk
<1>2. /\ handle' = [k \in Handles |-> handle'[k]] /\ got' = [k \in Handles |-> got'[k]]
      /\ \A k \in Handles : /\ handle'[k] = IF k = h THEN nd ELSE handle[k]
                            /\ got'[k] = IF k = h THEN g ELSE got[k]
  BY <1>1
<1>3. \A k \in Handles : HandleOk(image, Count(filedesc, k), handle'[k], got'[k])
  BY <1>1, <1>2
<1>4. \A k \in Handles : HandleOk(image, Count(filedesc', k), handle'[k], got'[k])
  BY <1>3
<1>5. filedesc' \in Fds
  BY <1>1
<1> QED
  BY <1>2, <1>4, <1>5, Zenon DEF HandlesOk

LEMMA ReadKeeps ==
  ASSUME ReadsInv, NEW p \in Pids, NEW fd \in FDs, NEW count \in Counts, file_read(p, fd, count)
  PROVE  HandlesOk(image, filedesc', handle', got')
<1> DEFINE h == filedesc[p][fd]
           hd == handle[h]
           g == got[h]
           pos == hd.pos
           n == ReadCount(h, count)
           loc == Cell(image, hd.entry).location
           size == Cell(image, hd.entry).size
           bytes == Host[hd.path].bytes
           more == [k \in 1 .. n |-> Cell(image, loc + pos + k - 1)]
<1>1. /\ h # NULL /\ hd.type = "FH_FILE"
      /\ got' = [got EXCEPT ![h] = @ \o more]
      /\ handle' = [handle EXCEPT ![h].pos = @ + n]
      /\ filedesc' = filedesc
  BY DEF file_read, FileAt
<1>2. /\ h \in Handles /\ Count(filedesc, h) # 0 /\ hd.refcount = Count(filedesc, h)
      /\ IsHandle(hd) /\ Reads(image, hd, g)
  BY <1>1, OpenDescriptor
<1>3. ReadsFile(image, hd, g)
  BY <1>1, <1>2 DEF Reads
<1>4. n = IF pos >= size THEN 0 ELSE IF pos + count > size THEN size - pos ELSE count
  BY DEF ReadCount, FileAt
<1>5. count \in Nat
  BY FilesAssumption
<1>6. /\ got = [k \in Handles |-> got[k]] /\ handle = [k \in Handles |-> handle[k]]
  BY DEF ReadsInv, HandlesOk
<1>7. got' = [got EXCEPT ![h] = g \o more] /\ handle' = [handle EXCEPT ![h] = Moved(hd, pos + n)]
  BY <1>1, <1>2, <1>6 DEF Moved
<1> HIDE DEF h, hd, g, pos, n, loc, size, bytes
<1>8. /\ size = Len(bytes) /\ hd.path \in DOMAIN Host /\ loc \in Nat
      /\ BytesAt(image, loc, bytes) /\ pos \in 0 .. Len(bytes) /\ IsSeq(g) /\ Len(g) = pos
      /\ \A k \in 1 .. pos : g[k] = Byte(bytes[k])
  BY <1>3 DEF ReadsFile, size, bytes, loc, pos
<1>9. Len(bytes) \in Nat
  <2>1. bytes \in Seq(Range(bytes))
    BY <1>8, HostAssumption DEF bytes
  <2> QED
    BY <2>1
<1>10. n \in Nat /\ pos \in Nat /\ pos + n \in 0 .. Len(bytes)
  BY <1>4, <1>5, <1>8, <1>9
<1>11. /\ IsSeq(more) /\ Len(more) = n
       /\ \A k \in 1 .. n : more[k] = Cell(image, loc + pos + k - 1)
  <2>1. \A k \in 1 .. n : more[k] = Cell(image, loc + pos + k - 1)
    OBVIOUS
  <2>2. more = [k \in 1 .. n |-> more[k]]
    OBVIOUS
  <2> HIDE DEF more
  <2> QED
    BY <1>10, <2>1, <2>2, SeqIs
<1> HIDE DEF more
<1>12. PICK ng : ng = g \o more
  OBVIOUS
<1>13. /\ IsSeq(ng) /\ Len(ng) = pos + n
       /\ \A k \in 1 .. (pos + n) : ng[k] = IF k <= pos THEN g[k] ELSE more[k - pos]
  BY <1>8, <1>11, <1>12, SeqConcat
<1>14. ASSUME NEW k \in 1 .. (pos + n)
       PROVE  ng[k] = Byte(bytes[k])
  <2>1. ng[k] = IF k <= pos THEN g[k] ELSE more[k - pos]
    BY <1>13
  <2>2. CASE k <= pos
    <3>1. k \in 1 .. pos
      BY <1>10, <2>2
    <3> QED
      BY <1>8, <2>1, <2>2, <3>1
  <2>3. CASE ~ (k <= pos)
    <3>1. k - pos \in 1 .. n /\ k \in 1 .. Len(bytes) /\ loc + pos + (k - pos) - 1 = loc + k - 1
      BY <1>8, <1>9, <1>10, <2>3
    <3>2. Cell(image, loc + k - 1) = Byte(bytes[k])
      BY <1>8, <3>1 DEF BytesAt
    <3>3. more[k - pos] = Cell(image, loc + pos + (k - pos) - 1)
      BY <1>11, <3>1
    <3> QED
      BY <2>1, <2>3, <3>1, <3>2, <3>3
  <2> QED
    BY <2>2, <2>3
<1>15. PICK nd : nd = Moved(hd, pos + n)
  OBVIOUS
<1>16. /\ IsHandle(nd) /\ nd.refcount = hd.refcount /\ nd.type = hd.type /\ nd.entry = hd.entry
       /\ nd.pos = pos + n /\ nd.path = hd.path
  BY <1>2, <1>15, HandleUpdates
<1>17. ReadsFile(image, nd, ng)
  BY <1>8, <1>10, <1>13, <1>14, <1>16, Zenon DEF ReadsFile, size, bytes, loc, pos
<1>18. HandleOk(image, Count(filedesc, h), nd, ng)
  BY <1>1, <1>2, <1>16, <1>17 DEF HandleOk, Reads, hd
<1>19. handle' = [handle EXCEPT ![h] = nd] /\ got' = [got EXCEPT ![h] = ng]
  BY <1>7, <1>12, <1>15
<1> QED
  BY <1>1, <1>2, <1>18, <1>19, OneHandleChanges

LEMMA GetdentKeeps ==
  ASSUME ReadsInv, NEW p \in Pids, NEW fd \in FDs, syscall_getdent(p, fd)
  PROVE  HandlesOk(image, filedesc', handle', got')
<1> DEFINE h == filedesc[p][fd]
           hd == handle[h]
           g == got[h]
           n == hd.entryno
           dir == Cell(image, hd.entry).location
           cnt == Cell(image, dir).count
           name == Cell(image, dir + n + 1).name
           text == snprintf(NAME_MAX + 1, name, <<>>)
<1>1. /\ h # NULL /\ hd.type = "FH_DIR" /\ n < cnt
      /\ got' = [got EXCEPT ![h] = Append(@, text)]
      /\ handle' = [handle EXCEPT ![h].entryno = @ + 1]
      /\ filedesc' = filedesc
  BY DEF syscall_getdent, FileAt
<1>2. /\ h \in Handles /\ Count(filedesc, h) # 0 /\ hd.refcount = Count(filedesc, h)
      /\ IsHandle(hd) /\ Reads(image, hd, g)
  BY <1>1, OpenDescriptor
<1>3. ReadsDir(image, hd, g)
  BY <1>1, <1>2 DEF Reads
<1>6. /\ got = [k \in Handles |-> got[k]] /\ handle = [k \in Handles |-> handle[k]]
  BY DEF ReadsInv, HandlesOk
<1>7. got' = [got EXCEPT ![h] = Append(g, text)] /\ handle' = [handle EXCEPT ![h] = Stepped(hd, n + 1)]
  BY <1>1, <1>2, <1>6 DEF Stepped
<1> HIDE DEF h, hd, g, n, dir, cnt, name, text
<1>8. /\ NamesAt(image, dir, hd.path) /\ n \in 0 .. cnt /\ IsSeq(g) /\ Len(g) = n
      /\ \A k \in 1 .. n : g[k] = Cell(image, dir + k).name
  BY <1>3 DEF ReadsDir, dir, n, cnt
<1>9. cnt \in Nat /\ dir \in Nat /\ \A k \in 1 .. cnt : IsEntryOf(hd.path, Cell(image, dir + k))
  BY <1>8 DEF NamesAt, cnt
<1>10. n + 1 \in 1 .. cnt /\ n \in Nat /\ dir + (n + 1) = dir + n + 1 /\ n + 1 \in 0 .. cnt
  BY <1>1, <1>8, <1>9
<1>11. text = name /\ name = Cell(image, dir + (n + 1)).name
  <2>1. IsEntryOf(hd.path, Cell(image, dir + (n + 1)))
    BY <1>9, <1>10
  <2>2. name = Cell(image, dir + (n + 1)).name
    BY <1>10 DEF name
  <2>3. name \in Listed(hd.path)
    BY <2>1, <2>2 DEF IsEntryOf
  <2> QED
    BY <2>2, <2>3, NamePrinted DEF text
<1>12. PICK ng : ng = Append(g, text)
  OBVIOUS
<1>13. /\ IsSeq(ng) /\ Len(ng) = n + 1 /\ ng[n + 1] = text
       /\ \A k \in 1 .. n : ng[k] = g[k]
  BY <1>8, <1>12, SeqAppend
<1>14. \A k \in 1 .. (n + 1) : ng[k] = Cell(image, dir + k).name
  <2> TAKE k \in 1 .. (n + 1)
  <2>1. k \in 1 .. n \/ k = n + 1
    BY <1>10
  <2> QED
    BY <1>8, <1>11, <1>13, <2>1
<1>15. PICK nd : nd = Stepped(hd, n + 1)
  OBVIOUS
<1>16. /\ IsHandle(nd) /\ nd.refcount = hd.refcount /\ nd.type = hd.type /\ nd.entry = hd.entry
       /\ nd.entryno = n + 1 /\ nd.path = hd.path
  BY <1>2, <1>15, HandleUpdates
<1>17. ReadsDir(image, nd, ng)
  BY <1>8, <1>10, <1>13, <1>14, <1>16, Zenon DEF ReadsDir, dir, cnt
<1>18. HandleOk(image, Count(filedesc, h), nd, ng)
  BY <1>1, <1>2, <1>16, <1>17 DEF HandleOk, Reads, hd
<1>19. handle' = [handle EXCEPT ![h] = nd] /\ got' = [got EXCEPT ![h] = ng]
  BY <1>7, <1>12, <1>15
<1> QED
  BY <1>1, <1>2, <1>18, <1>19, OneHandleChanges

(* Forget keeps what has been read through the handles that stay in use.   *)
LEMMA ForgetKeeps ==
  ASSUME Forget
  PROVE  /\ got' = [h \in Handles |-> got'[h]]
         /\ \A h \in Handles : handle'[h].refcount # 0 => got'[h] = got[h]
  BY DEF Forget

LEMMA CloseKeeps ==
  ASSUME ReadsInv, NEW p \in Pids, NEW fd \in FDs, syscall_close(p, fd)
  PROVE  /\ HandlesOk(image, filedesc', handle', got')
         /\ \A q \in Pids : q # p => filedesc'[q] = filedesc[q]
<1>1. /\ filedesc[p][fd] # NULL /\ handle' = Recount({<<fd, filedesc[p][fd]>>}, {})
      /\ filedesc' = [filedesc EXCEPT ![p][fd] = NULL] /\ Forget
  BY DEF syscall_close
<1>2. filedesc \in Fds /\ HandlesOk(image, filedesc, handle, got)
  BY DEF ReadsInv, HandlesOk
<1>3. filedesc' = WithRow(filedesc, p, WithFd(filedesc[p], fd, NULL))
  BY <1>1 DEF WithRow, WithFd
<1>4. /\ filedesc' \in Fds /\ \A q \in Pids : q # p => filedesc'[q] = filedesc[q]
      /\ \A h : Count(filedesc', h) = Count(filedesc, h) - One(filedesc[p][fd], h) + One(NULL, h)
  <2>1. NULL \in Handles \cup {NULL}
    OBVIOUS
  <2> QED
    BY <1>2, <1>3, <2>1, DescriptorChanged
<1>5. PICK refs, more : refs = Reference(fd, filedesc[p][fd]) /\ more = {}
  OBVIOUS
<1>6. ASSUME NEW h \in Handles
      PROVE  /\ Count(filedesc', h) = Count(filedesc, h) - Cardinality({r \in refs : r[2] = h})
                                        + Cardinality({r \in more : r[2] = h})
             /\ Count(filedesc', h) # 0 => Count(filedesc, h) # 0
  <2>1. Cardinality({r \in refs : r[2] = h}) = One(filedesc[p][fd], h)
    BY <1>5, OneReference
  <2>a. Cardinality({r \in more : r[2] = h}) = 0
    BY <1>5, NoReference
  <2>2. One(NULL, h) = 0
    BY SetSizes DEF One
  <2>3. Count(filedesc', h) = Count(filedesc, h) - One(filedesc[p][fd], h) + One(NULL, h)
    BY <1>4
  <2>4. Count(filedesc, h) \in Nat /\ Count(filedesc', h) \in Nat /\ One(filedesc[p][fd], h) \in {0, 1}
    BY CountFacts, OneIs
  <2> QED
    BY <2>1, <2>a, <2>2, <2>3, <2>4
<1>7. handle' = Recount(refs, more)
  BY <1>1, <1>5 DEF Reference
<1>f. /\ got' = [h \in Handles |-> got'[h]]
      /\ \A h \in Handles : handle'[h].refcount # 0 => got'[h] = got[h]
  BY <1>1, ForgetKeeps
<1>8. HandlesOk(image, filedesc', handle', got')
  BY <1>2, <1>4, <1>6, <1>7, <1>f, RecountKeeps
<1> QED
  BY <1>4, <1>8

LEMMA Dup2Keeps ==
  ASSUME ReadsInv, NEW p \in Pids, NEW oldfd \in FDs, NEW newfd \in FDs, syscall_dup2(p, oldfd, newfd)
  PROVE  /\ HandlesOk(image, filedesc', handle', got')
         /\ \A q \in Pids : q # p => filedesc'[q] = filedesc[q]
<1> DEFINE x == filedesc[p][oldfd]
           y == filedesc[p][newfd]
<1>1. /\ x # NULL
      /\ handle' = Recount({r \in References(p) : r[1] = newfd}, {<<newfd, x>>})
      /\ filedesc' = [filedesc EXCEPT ![p][newfd] = x] /\ Forget
  BY DEF syscall_dup2
<1>2. filedesc \in Fds /\ HandlesOk(image, filedesc, handle, got)
  BY DEF ReadsInv, HandlesOk
<1>a. x \in Handles /\ x \in Handles \cup {NULL}
  BY <1>1, <1>2 DEF Fds
<1>3. filedesc' = WithRow(filedesc, p, WithFd(filedesc[p], newfd, x))
  BY <1>1 DEF WithRow, WithFd
<1>4. /\ filedesc' \in Fds /\ \A q \in Pids : q # p => filedesc'[q] = filedesc[q]
      /\ \A h : Count(filedesc', h) = Count(filedesc, h) - One(y, h) + One(x, h)
  BY <1>2, <1>3, <1>a, DescriptorChanged
<1>b. Count(filedesc, x) # 0
  BY CountFacts
<1>5. PICK refs, more : refs = {r \in References(p) : r[1] = newfd} /\ more = Reference(newfd, x)
  OBVIOUS
<1>c. refs = IF y = NULL THEN {} ELSE Reference(newfd, y)
  BY <1>5 DEF References, Reference
<1> HIDE DEF x, y
<1>6. ASSUME NEW h \in Handles
      PROVE  /\ Count(filedesc', h) = Count(filedesc, h) - Cardinality({r \in refs : r[2] = h})
                                        + Cardinality({r \in more : r[2] = h})
             /\ Count(filedesc', h) # 0 => Count(filedesc, h) # 0
  <2>1. Cardinality({r \in refs : r[2] = h}) = One(y, h)
    <3>1. CASE y = NULL
      <4>1. One(y, h) = 0
        BY <3>1, SetSizes DEF One
      <4>2. refs = {}
        BY <1>c, <3>1
      <4>3. Cardinality({r \in refs : r[2] = h}) = 0
        BY <4>2, NoReference
      <4> QED
        BY <4>1, <4>3
    <3>2. CASE y # NULL
      <4>1. refs = Reference(newfd, y)
        BY <1>c, <3>2
      <4> QED
        BY <4>1, OneReference
    <3> QED
      BY <3>1, <3>2
  <2>2. Cardinality({r \in more : r[2] = h}) = One(x, h)
    BY <1>5, OneReference
  <2>3. Count(filedesc', h) = Count(filedesc, h) - One(y, h) + One(x, h)
    BY <1>4
  <2>4. /\ Count(filedesc, h) \in Nat /\ Count(filedesc', h) \in Nat
        /\ One(y, h) \in {0, 1} /\ One(x, h) \in {0, 1} /\ (One(x, h) = 1 => x = h)
    BY CountFacts, OneIs
  <2>5. One(x, h) = 1 => Count(filedesc, h) # 0
    BY <1>b, <2>4
  <2>6. Count(filedesc', h) # 0 => Count(filedesc, h) # 0
    <3> HIDE DEF One
    <3> QED
      BY <2>3, <2>4, <2>5
  <2> QED
    BY <2>1, <2>2, <2>3, <2>6
<1>7. handle' = Recount(refs, more)
  BY <1>1, <1>5 DEF Reference
<1>f. /\ got' = [h \in Handles |-> got'[h]]
      /\ \A h \in Handles : handle'[h].refcount # 0 => got'[h] = got[h]
  BY <1>1, ForgetKeeps
<1>8. HandlesOk(image, filedesc', handle', got')
  BY <1>2, <1>4, <1>6, <1>7, <1>f, RecountKeeps
<1> QED
  BY <1>4, <1>8

LEMMA NewProcessKeeps ==
  ASSUME ReadsInv, NEW p \in Pids, NEW child \in Pids, NEW dir, NewProcess(p, child, dir)
  PROVE  /\ HandlesOk(image, filedesc', handle', got')
         /\ \A q \in Pids : q # child => filedesc'[q] = filedesc[q]
<1>1. /\ child \notin exists /\ filedesc' = WithRow(filedesc, child, filedesc[p])
      /\ handle' = Recount({}, References(p)) /\ got' = got
  BY DEF NewProcess, WithRow
<1>2. filedesc \in Fds /\ HandlesOk(image, filedesc, handle, got) /\ got = [h \in Handles |-> got[h]]
  BY DEF ReadsInv, HandlesOk
<1>3. \A fd \in FDs : filedesc[child][fd] = NULL
  BY <1>1 DEF ReadsInv
<1>4. /\ filedesc' \in Fds /\ \A q \in Pids : q # child => filedesc'[q] = filedesc[q]
      /\ \A h : Count(filedesc', h) =
                  Count(filedesc, h) - RowCount(filedesc[child], h) + RowCount(filedesc[p], h)
  <2>1. filedesc[p] \in [FDs -> Handles \cup {NULL}]
    BY <1>2 DEF Fds
  <2> QED
    BY <1>1, <1>2, <2>1, RowChanged
<1>5. PICK refs, more : refs = {} /\ more = References(p)
  OBVIOUS
<1>6. ASSUME NEW h \in Handles
      PROVE  /\ Count(filedesc', h) = Count(filedesc, h) - Cardinality({r \in refs : r[2] = h})
                                        + Cardinality({r \in more : r[2] = h})
             /\ Count(filedesc', h) # 0 => Count(filedesc, h) # 0
  <2>1. Cardinality({r \in refs : r[2] = h}) = 0
    BY <1>5, NoReference
  <2>2. Cardinality({r \in more : r[2] = h}) = RowCount(filedesc[p], h)
    BY <1>2, <1>5, ReferencesOf
  <2>3. RowCount(filedesc[child], h) = 0
    BY <1>3, EmptyRow
  <2>4. Count(filedesc', h) =
          Count(filedesc, h) - RowCount(filedesc[child], h) + RowCount(filedesc[p], h)
    BY <1>4
  <2>5. Count(filedesc, h) \in Nat /\ RowCount(filedesc[p], h) \in Nat
    BY CountFacts, RowCountFacts
  <2>6. RowCount(filedesc[p], h) # 0 => Count(filedesc, h) # 0
    BY CountFacts, RowCountFacts
  <2> QED
    BY <2>1, <2>2, <2>3, <2>4, <2>5, <2>6
<1>7. handle' = Recount(refs, more)
  BY <1>1, <1>5 DEF Reference
<1>8. got' = [h \in Handles |-> got'[h]] /\ \A h \in Handles : handle'[h].refcount # 0 => got'[h] = got[h]
  BY <1>1, <1>2
<1>9. HandlesOk(image, filedesc', handle', got')
  BY <1>2, <1>4, <1>6, <1>7, <1>8, RecountKeeps
<1> QED
  BY <1>4, <1>9

LEMMA ExitKeeps ==
  ASSUME ReadsInv, NEW p \in Pids, syscall_exit(p)
  PROVE  /\ HandlesOk(image, filedesc', handle', got')
         /\ \A q \in Pids : q # p => filedesc'[q] = filedesc[q]
         /\ \A fd \in FDs : filedesc'[p][fd] = NULL
<1>0. PICK row : row = [fd \in FDs |-> NULL]
  OBVIOUS
<1>1. /\ filedesc' = WithRow(filedesc, p, row) /\ handle' = Recount(References(p), {}) /\ Forget
  BY <1>0 DEF syscall_exit, WithRow
<1>2. filedesc \in Fds /\ HandlesOk(image, filedesc, handle, got)
  BY DEF ReadsInv, HandlesOk
<1>3. row \in [FDs -> Handles \cup {NULL}] /\ \A fd \in FDs : row[fd] = NULL
  BY <1>0
<1>4. /\ filedesc' \in Fds /\ \A q \in Pids : q # p => filedesc'[q] = filedesc[q]
      /\ filedesc'[p] = row
      /\ \A h : Count(filedesc', h) = Count(filedesc, h) - RowCount(filedesc[p], h) + RowCount(row, h)
  BY <1>1, <1>2, <1>3, RowChanged
<1>5. PICK refs, more : refs = References(p) /\ more = {}
  OBVIOUS
<1>6. ASSUME NEW h \in Handles
      PROVE  /\ Count(filedesc', h) = Count(filedesc, h) - Cardinality({r \in refs : r[2] = h})
                                        + Cardinality({r \in more : r[2] = h})
             /\ Count(filedesc', h) # 0 => Count(filedesc, h) # 0
  <2>1. Cardinality({r \in more : r[2] = h}) = 0
    BY <1>5, NoReference
  <2>2. Cardinality({r \in refs : r[2] = h}) = RowCount(filedesc[p], h)
    BY <1>2, <1>5, ReferencesOf
  <2>3. RowCount(row, h) = 0
    BY <1>3, EmptyRow
  <2>4. Count(filedesc', h) = Count(filedesc, h) - RowCount(filedesc[p], h) + RowCount(row, h)
    BY <1>4
  <2>5. Count(filedesc, h) \in Nat /\ Count(filedesc', h) \in Nat /\ RowCount(filedesc[p], h) \in Nat
    BY CountFacts, RowCountFacts
  <2> QED
    BY <2>1, <2>2, <2>3, <2>4, <2>5
<1>7. handle' = Recount(refs, more)
  BY <1>1, <1>5 DEF Reference
<1>f. /\ got' = [h \in Handles |-> got'[h]]
      /\ \A h \in Handles : handle'[h].refcount # 0 => got'[h] = got[h]
  BY <1>1, ForgetKeeps
<1>8. HandlesOk(image, filedesc', handle', got')
  BY <1>2, <1>4, <1>6, <1>7, <1>f, RecountKeeps
<1> QED
  BY <1>3, <1>4, <1>8

LEMMA ReadsInvPrimed ==
  ReadsInv' <=>
    /\ FilesInv' /\ LaidOut(image', frames')
    /\ \A p \in Pids : IsSeq(cwd'[p])
    /\ HandlesOk(image', filedesc', handle', got')
    /\ \A p \in Pids : (p \in exists' /\ Built') \/ \A fd \in FDs : filedesc'[p][fd] = NULL
  BY DEF ReadsInv

LEMMA NoneOpen ==
  ASSUME NEW fds, \A p \in Pids, fd \in FDs : fds[p][fd] = NULL, NEW h \in Handles
  PROVE  Count(fds, h) = 0
<1>1. Refs(fds, h) = {}
  BY SetSizes DEF Refs
<1> QED
  BY <1>1, RefsFinite DEF Count

LEMMA InitReads == FilesInit => ReadsInv
<1> SUFFICES ASSUME FilesInit PROVE ReadsInv
  OBVIOUS
<1> DEFINE r == Entry("DIR", Uninitialized, 0, 1, <<"R", "O", "O", "T">>)
<1>1. image = <<r>> /\ frames = <<>> /\ r.kind = "entry" /\ r.type = "DIR" /\ r.location = 1
  BY DEF FilesInit, BuildInit, Entry
<1> HIDE DEF r
<1>2. LaidOut(image, frames)
  <2>1. Len(image) = 1 /\ Cell(image, 0) = r
    BY <1>1 DEF Cell
  <2> QED
    BY <1>1, <2>1 DEF LaidOut
<1>3. /\ filedesc = [p \in Pids |-> [fd \in FDs |-> NULL]] /\ handle = [h \in Handles |-> Unused]
      /\ got = [h \in Handles |-> <<>>]
      /\ cwd = [p \in Pids |-> IF p = 1 THEN <<"/">> ELSE <<>>]
  BY DEF FilesInit
<1>4. \A p \in Pids : IsSeq(cwd[p])
  <2>1. <<"/">> \in Seq({"/"})
    OBVIOUS
  <2>2. IsSeq(<<"/">>)
    BY <2>1 DEF IsSeq
  <2> QED
    BY <1>3, <2>2, NoText
<1>5. filedesc \in Fds /\ \A p \in Pids, fd \in FDs : filedesc[p][fd] = NULL
  BY <1>3 DEF Fds
<1>6. \A h \in Handles : Count(filedesc, h) = 0
  BY <1>5, NoneOpen
<1>7. HandlesOk(image, filedesc, handle, got)
  <2>1. \A h \in Handles : HandleOk(image, Count(filedesc, h), handle[h], got[h])
    BY <1>3, <1>6, UnusedHandle DEF HandleOk
  <2>2. handle = [h \in Handles |-> handle[h]] /\ got = [h \in Handles |-> got[h]]
    BY <1>3
  <2> QED
    BY <1>5, <2>1, <2>2 DEF HandlesOk
<1> QED
  BY <1>2, <1>4, <1>5, <1>7, FilesInvInit DEF ReadsInv

LEMMA BuildReads ==
  ASSUME ReadsInv, BuildNext, UNCHANGED callVars, FilesInv'
  PROVE  ReadsInv'
<1>1. BuildInv /\ LaidOut(image, frames)
  BY DEF ReadsInv, FilesInv
<1>2. ~ Built
  BY <1>1, BuildStep
<1>3. LaidOut(image', frames')
  BY <1>1, BeginLaysOut, EntryLaysOut, FillInLaysOut DEF BuildNext
<1>4. UNCHANGED <<exists, cwd, filedesc, handle, got>>
  BY DEF callVars
<1>5. \A p \in Pids : IsSeq(cwd[p]) /\ \A fd \in FDs : filedesc[p][fd] = NULL
  BY <1>2 DEF ReadsInv
<1>6. \A h \in Handles : Count(filedesc, h) = 0
  BY <1>5, NoneOpen
<1>7. HandlesOk(image', filedesc, handle, got)
  <2>1. HandlesOk(image, filedesc, handle, got)
    BY DEF ReadsInv
  <2>2. \A h \in Handles : HandleOk(image', Count(filedesc, h), handle[h], got[h])
    BY <1>6, <2>1 DEF HandlesOk, HandleOk
  <2> QED
    BY <2>1, <2>2 DEF HandlesOk
<1> QED
  BY <1>3, <1>4, <1>5, <1>7, ReadsInvPrimed

LEMMA CallReads ==
  ASSUME ReadsInv, Built, NEW p \in exists, Call(p), UNCHANGED buildVars, FilesInv'
  PROVE  ReadsInv'
<1>1. image' = image /\ frames' = frames /\ p \in Pids /\ cwd = [q \in Pids |-> cwd[q]]
  BY DEF buildVars, ReadsInv, FilesInv
<1>2. Built' /\ LaidOut(image', frames')
  BY <1>1 DEF ReadsInv, Built
<1>3. SUFFICES /\ \A q \in Pids : IsSeq(cwd'[q])
               /\ HandlesOk(image, filedesc', handle', got')
               /\ \A q \in Pids : q \in exists' \/ \A fd \in FDs : filedesc'[q][fd] = NULL
  BY <1>1, <1>2, <1>3, ReadsInvPrimed
<1>4. /\ HandlesOk(image, filedesc, handle, got) /\ \A q \in Pids : IsSeq(cwd[q])
      /\ \A q \in Pids : q \in exists \/ \A fd \in FDs : filedesc[q][fd] = NULL
  BY DEF ReadsInv
<1>5. ASSUME UNCHANGED <<exists, cwd>>, HandlesOk(image, filedesc', handle', got'),
             \A q \in Pids : q # p => filedesc'[q] = filedesc[q]
      PROVE  /\ \A q \in Pids : IsSeq(cwd'[q])
             /\ HandlesOk(image, filedesc', handle', got')
             /\ \A q \in Pids : q \in exists' \/ \A fd \in FDs : filedesc'[q][fd] = NULL
  BY <1>4, <1>5
<1>6. ASSUME NEW path \in Opened, NEW flags \in Flags, syscall_open(p, path, flags)
      PROVE  /\ \A q \in Pids : IsSeq(cwd'[q])
             /\ HandlesOk(image, filedesc', handle', got')
             /\ \A q \in Pids : q \in exists' \/ \A fd \in FDs : filedesc'[q][fd] = NULL
  <2>1. UNCHANGED <<exists, cwd>>
    BY <1>6 DEF syscall_open
  <2> QED
    BY <1>5, <1>6, <2>1, OpenKeeps
<1>7. ASSUME NEW path \in Entered, syscall_chdir(p, path)
      PROVE  /\ \A q \in Pids : IsSeq(cwd'[q])
             /\ HandlesOk(image, filedesc', handle', got')
             /\ \A q \in Pids : q \in exists' \/ \A fd \in FDs : filedesc'[q][fd] = NULL
  <2>1. PICK slash \in SlashBefore(p) :
          /\ cwd' = [cwd EXCEPT ![p] = AbsPath(p, path, slash)]
          /\ UNCHANGED <<exists, filedesc, handle, got>>
    BY <1>7 DEF syscall_chdir
  <2>2. path \in Paths /\ path \in Seq(Range(path))
    BY FilesAssumption
  <2>3. IsSeq(path) /\ IsSeq(cwd[p])
    BY <1>1, <1>4, <2>2 DEF IsSeq
  <2>4. IsSeq(AbsPath(p, path, slash))
    BY <2>3, AbsoluteIsText DEF AbsPath
  <2>5. \A q \in Pids : IsSeq(cwd'[q])
    BY <1>1, <1>4, <2>1, <2>4
  <2> QED
    BY <1>4, <2>1, <2>5
<1>8. ASSUME NEW fd \in FDs, NEW count \in Counts, file_read(p, fd, count)
      PROVE  /\ \A q \in Pids : IsSeq(cwd'[q])
             /\ HandlesOk(image, filedesc', handle', got')
             /\ \A q \in Pids : q \in exists' \/ \A f \in FDs : filedesc'[q][f] = NULL
  <2>1. UNCHANGED <<exists, cwd, filedesc>>
    BY <1>8 DEF file_read
  <2> QED
    BY <1>1, <1>5, <1>8, <2>1, ReadKeeps
<1>9. ASSUME NEW fd \in FDs, syscall_getdent(p, fd)
      PROVE  /\ \A q \in Pids : IsSeq(cwd'[q])
             /\ HandlesOk(image, filedesc', handle', got')
             /\ \A q \in Pids : q \in exists' \/ \A f \in FDs : filedesc'[q][f] = NULL
  <2>1. UNCHANGED <<exists, cwd, filedesc>>
    BY <1>9 DEF syscall_getdent
  <2> QED
    BY <1>1, <1>5, <1>9, <2>1, GetdentKeeps
<1>10. ASSUME NEW fd \in FDs, syscall_close(p, fd)
       PROVE  /\ \A q \in Pids : IsSeq(cwd'[q])
              /\ HandlesOk(image, filedesc', handle', got')
              /\ \A q \in Pids : q \in exists' \/ \A f \in FDs : filedesc'[q][f] = NULL
  <2>1. UNCHANGED <<exists, cwd>>
    BY <1>10 DEF syscall_close
  <2> QED
    BY <1>1, <1>5, <1>10, <2>1, CloseKeeps
<1>11. ASSUME NEW oldfd \in FDs, NEW newfd \in FDs, syscall_dup2(p, oldfd, newfd)
       PROVE  /\ \A q \in Pids : IsSeq(cwd'[q])
              /\ HandlesOk(image, filedesc', handle', got')
              /\ \A q \in Pids : q \in exists' \/ \A fd \in FDs : filedesc'[q][fd] = NULL
  <2>1. UNCHANGED <<exists, cwd>>
    BY <1>11 DEF syscall_dup2
  <2> QED
    BY <1>1, <1>5, <1>11, <2>1, Dup2Keeps
<1>12. ASSUME NEW child \in Pids, NEW dir, IsSeq(dir), NewProcess(p, child, dir)
       PROVE  /\ \A q \in Pids : IsSeq(cwd'[q])
              /\ HandlesOk(image, filedesc', handle', got')
              /\ \A q \in Pids : q \in exists' \/ \A fd \in FDs : filedesc'[q][fd] = NULL
  <2>1. exists' = exists \cup {child} /\ cwd' = [cwd EXCEPT ![child] = dir]
    BY <1>12 DEF NewProcess
  <2>2. /\ HandlesOk(image, filedesc', handle', got')
        /\ \A q \in Pids : q # child => filedesc'[q] = filedesc[q]
    BY <1>1, <1>12, NewProcessKeeps
  <2>3. \A q \in Pids : IsSeq(cwd'[q])
    BY <1>1, <1>4, <1>12, <2>1
  <2> QED
    BY <1>4, <2>1, <2>2, <2>3
<1>13. ASSUME NEW child \in Pids, syscall_fork(p, child) \/ syscall_vfork(p, child)
       PROVE  /\ \A q \in Pids : IsSeq(cwd'[q])
              /\ HandlesOk(image, filedesc', handle', got')
              /\ \A q \in Pids : q \in exists' \/ \A fd \in FDs : filedesc'[q][fd] = NULL
  <2>1. IsSeq(cwd[p]) /\ IsSeq(<<>>)
    BY <1>1, <1>4, NoText
  <2>2. NewProcess(p, child, cwd[p]) \/ NewProcess(p, child, <<>>)
    BY <1>13, Zenon DEF syscall_fork, syscall_vfork
  <2> QED
    BY <1>12, <2>1, <2>2
<1>14. ASSUME syscall_exit(p)
       PROVE  /\ \A q \in Pids : IsSeq(cwd'[q])
              /\ HandlesOk(image, filedesc', handle', got')
              /\ \A q \in Pids : q \in exists' \/ \A fd \in FDs : filedesc'[q][fd] = NULL
  <2>1. exists' = exists \ {p} /\ cwd' = [cwd EXCEPT ![p] = <<>>]
    BY <1>14 DEF syscall_exit
  <2>2. /\ HandlesOk(image, filedesc', handle', got')
        /\ \A q \in Pids : q # p => filedesc'[q] = filedesc[q]
        /\ \A fd \in FDs : filedesc'[p][fd] = NULL
    BY <1>1, <1>14, ExitKeeps
  <2>3. \A q \in Pids : IsSeq(cwd'[q])
    BY <1>1, <1>4, <2>1, NoText
  <2> QED
    BY <1>4, <2>1, <2>2, <2>3
<1> QED
  BY <1>6, <1>7, <1>8, <1>9, <1>10, <1>11, <1>13, <1>14, Zenon DEF Call

LEMMA ReadsInvNext ==
  ASSUME ReadsInv, [Next]_vars
  PROVE  ReadsInv'
<1>0. FilesInv'
  BY FilesInvNext DEF ReadsInv
<1>1. CASE UNCHANGED vars
  BY <1>1 DEF vars, buildVars, callVars, ReadsInv, FilesInv, BuildInv, Built
<1>2. CASE BuildNext /\ UNCHANGED callVars
  BY <1>0, <1>2, BuildReads
<1>3. CASE Built /\ (\E p \in exists : Call(p)) /\ UNCHANGED buildVars
  BY <1>0, <1>3, CallReads
<1> QED
  BY <1>1, <1>2, <1>3 DEF Next

(* The names of a directory differ.                                        *)
LEMMA DirReads ==
  ASSUME NEW img, NEW hd, NEW g, ReadsDir(img, hd, g)
  PROVE  /\ Len(g) = hd.entryno /\ Cardinality(Range(g)) = Len(g)
         /\ Range(g) \subseteq Listed(hd.path)
         /\ hd.entryno = Cell(img, Cell(img, hd.entry).location).count =>
              Range(g) = Listed(hd.path)
<1> DEFINE n == hd.entryno
           dir == Cell(img, hd.entry).location
           cnt == Cell(img, dir).count
           R == Range(g)
           L == Listed(hd.path)
<1>1. /\ NamesAt(img, dir, hd.path) /\ n \in 0 .. cnt /\ IsSeq(g) /\ Len(g) = n
      /\ \A k \in 1 .. n : g[k] = Cell(img, dir + k).name
  BY DEF ReadsDir
<1> HIDE DEF n, dir, cnt
<1>2. /\ cnt \in Nat
      /\ \A k \in 1 .. cnt : Cell(img, dir + k).name \in L
      /\ \A j, k \in 1 .. cnt : Cell(img, dir + j).name = Cell(img, dir + k).name => j = k
      /\ \A name \in L : \E k \in 1 .. cnt : Cell(img, dir + k).name = name
  BY <1>1 DEF NamesAt, IsEntryOf, cnt
<1> HIDE DEF L
<1>3. n \in Nat /\ \A k \in 1 .. n : k \in 1 .. cnt
  BY <1>1, <1>2
<1>4. DOMAIN g = 1 .. n /\ g = [k \in 1 .. n |-> g[k]]
  BY <1>1, SeqFacts
<1>5. R = {g[k] : k \in 1 .. n}
  BY <1>4 DEF Range
<1>6. \A j, k \in 1 .. n : g[j] = g[k] => j = k
  BY <1>1, <1>2, <1>3
<1>7. g \in Bijection(1 .. n, R)
  <2> HIDE DEF R
  <2>1. g \in [1 .. n -> R]
    BY <1>4, <1>5
  <2>2. IsInjective(g)
    BY <1>4, <1>6 DEF IsInjective
  <2>3. \A t \in R : \E k \in 1 .. n : g[k] = t
    BY <1>5
  <2> QED
    BY <2>1, <2>2, <2>3 DEF Bijection, Injection, Surjection
<1> HIDE DEF R
<1>8. IsFiniteSet(1 .. n) /\ Cardinality(1 .. n) = n
  <2>1. 1 \in Int /\ n \in Int
    BY <1>3
  <2>2. IsFiniteSet(1 .. n) /\ Cardinality(1 .. n) = IF 1 > n THEN 0 ELSE n - 1 + 1
    BY <2>1, FS_Interval
  <2> QED
    BY <1>3, <2>2
<1>9. Cardinality(R) = n
  <2>1. ExistsBijection(1 .. n, R)
    BY <1>7 DEF ExistsBijection
  <2> QED
    BY <1>8, <2>1, FS_Bijection
<1>10. \A t \in R : t \in L
  BY <1>1, <1>2, <1>3, <1>5
<1>11. n = cnt => \A t \in L : t \in R
  BY <1>1, <1>2, <1>5
<1>12. R \subseteq L /\ (n = cnt => R = L)
  BY <1>10, <1>11
<1> QED
  BY <1>1, <1>9, <1>12, Zenon DEF n, cnt, dir, R, L

LEMMA ReadsInvIsEnough == ReadsInv => ReadsInOrder
<1> SUFFICES ASSUME ReadsInv, NEW h \in Handles, handle[h].refcount > 0
             PROVE  IF handle[h].type = "FH_FILE"
                    THEN LET bytes == Host[handle[h].path].bytes IN
                         /\ Len(got[h]) = handle[h].pos
                         /\ \A k \in DOMAIN got[h] : k <= Len(bytes) /\ got[h][k] = Byte(bytes[k])
                    ELSE /\ Len(got[h]) = handle[h].entryno
                         /\ Cardinality(Range(got[h])) = Len(got[h])
                         /\ Range(got[h]) \subseteq Listed(handle[h].path)
                         /\ handle[h].entryno = Cell(image, FileAt(h).location).count =>
                              Range(got[h]) = Listed(handle[h].path)
  BY Zenon DEF ReadsInOrder
<1>1. HandleOk(image, Count(filedesc, h), handle[h], got[h])
  BY DEF ReadsInv, HandlesOk
<1>2. Reads(image, handle[h], got[h])
  BY <1>1 DEF HandleOk
<1>3. CASE handle[h].type = "FH_FILE" /\ ReadsFile(image, handle[h], got[h])
  <2> DEFINE bytes == Host[handle[h].path].bytes
  <2>1. /\ handle[h].path \in DOMAIN Host /\ handle[h].pos \in 0 .. Len(bytes)
        /\ IsSeq(got[h]) /\ Len(got[h]) = handle[h].pos
        /\ \A k \in 1 .. handle[h].pos : got[h][k] = Byte(bytes[k])
    BY <1>3 DEF ReadsFile
  <2>2. bytes \in Seq(Range(bytes))
    BY <2>1, HostAssumption
  <2>3. Len(bytes) \in Nat
    BY <2>2
  <2>4. DOMAIN got[h] = 1 .. handle[h].pos
    BY <2>1, SeqFacts
  <2> HIDE DEF bytes
  <2>5. \A k \in DOMAIN got[h] : k <= Len(bytes) /\ got[h][k] = Byte(bytes[k])
    BY <2>1, <2>3, <2>4
  <2> QED
    BY <1>3, <2>1, <2>5 DEF bytes
<1>4. CASE handle[h].type = "FH_DIR" /\ ReadsDir(image, handle[h], got[h])
  <2>1. handle[h].type # "FH_FILE"
    BY <1>4
  <2> QED
    BY <1>4, <2>1, DirReads DEF FileAt
<1> QED
  BY <1>2, <1>3, <1>4 DEF Reads

(* Whatever the host directory, whatever is opened, read, duplicated,      *)
(* inherited and closed in whatever order: a handle is at one position,    *)
(* what processes have been given through it is the beginning of the       *)
(* host's file or a beginning of its directory without a name twice, and   *)
(* at the end of a directory no name is missing (fscalls.c, file_read and  *)
(* syscall_getdent, on the image of fstool.c). The handle stays in use     *)
(* exactly as long as a descriptor refers to it (filedesc.c).              *)
THEOREM HandlesReadInOrder == Spec => []ReadsInOrder
<1>1. ReadsInv /\ [Next]_vars => ReadsInv'
  BY ReadsInvNext
<1> QED
  BY <1>1, InitReads, ReadsInvIsEnough, PTL DEF Spec

LEMMA ReadsInvIsFaithful == ReadsInv => ImageFaithful
<1>1. CASE ~ Built
  BY <1>1, Zenon DEF ImageFaithful
<1>2. CASE ReadsInv /\ Built
  <2>1. IsSeq(image) /\ LaidOut(image, frames)
    BY <1>2, BuildInvFacts DEF ReadsInv, FilesInv
  <2>2. PICK places : Tree(image, places)
    BY <1>2, <2>1, BuiltTree
  <2> QED
    BY <2>1, <2>2, TreeIsFaithful
<1> QED
  BY <1>1, <1>2

(* Whatever the host directory and in whatever order it lists its names,   *)
(* the image that fstool has built holds exactly the files that belong     *)
(* into it: a dump lists these and no others, each is found under its path *)
(* with its type, size and bytes, and no directory lacks a name or has one *)
(* twice (fstool.c, process_dir and dump_dir, and the lookup of            *)
(* filesystem.c). It stays so whatever processes do afterwards.            *)
THEOREM ImagesAreFaithful == Spec => []ImageFaithful
<1>1. ReadsInv /\ [Next]_vars => ReadsInv'
  BY ReadsInvNext
<1> QED
  BY <1>1, InitReads, ReadsInvIsFaithful, PTL DEF Spec
=============================================================================

------------------------- MODULE KernelCorrectness --------------------------
(***************************************************************************)
(* Proof of everything the kernel model claims about a state, KernelInv,   *)
(* and that the kernel implements Lifecycle, for any number of processes,  *)
(* descriptors, pipes and calls, and programs that do not kill a process   *)
(* blocked in a read or a zombie and do not send to a zombie. It builds on *)
(* the scheduler's invariant of KernelSafety: reference counts first, then *)
(* wakeups and asserts, then the refinement.                               *)
(***************************************************************************)
EXTENDS KernelSafety

-----------------------------------------------------------------------------
(***************************************************************************)
(* A handle's reference count is the number of descriptors that refer to   *)
(* it, a pipe's flags follow the counts, and freed kernel memory is never  *)
(* used: RefcountsExact and NoHeapFault.                                   *)
(***************************************************************************)
(* References as a function of the state it depends on: the live processes *)
(* L, the victim v with the descriptors from k on, and the descriptors F.  *)

Tables == [Pids -> [FDs -> Handles \cup {NullHandle}]]

RefSet(L, v, k, F, h) ==
  {pf \in L \X FDs : F[pf[1]][pf[2]] = h}
    \cup {pf \in {v} \X (k .. MAX_FDS - 1) : v # NULL /\ F[pf[1]][pf[2]] = h}

(* Descriptor fd of process p counts.                                      *)
Held(L, v, k, p, fd) == p \in L \/ (p = v /\ fd >= k)

LEMMA ReferencesNow ==
  ASSUME NEW h PROVE References(h) = RefSet(Live, victim, kfd, filedesc, h)
BY DEF References, RefSet

LEMMA ReferencesNext ==
  ASSUME NEW h PROVE References(h)' = RefSet(Live', victim', kfd', filedesc', h)
BY DEF References, RefSet

(* Two sets of pairs are equal if they hold the same pairs.                *)
LEMMA SamePairs ==
  ASSUME NEW S, NEW T, NEW A \in SUBSET (S \X T), NEW B \in SUBSET (S \X T),
         \A p \in S, q \in T : <<p, q>> \in A <=> <<p, q>> \in B
  PROVE  A = B
<1>1. ASSUME NEW x \in S \X T PROVE x \in A <=> x \in B
  <2>1. PICK p \in S, q \in T : x = <<p, q>>
    OBVIOUS
  <2> QED
    BY <2>1
<1> QED
  BY <1>1

(* What A has to be to be RefSet(L, v, k, F, h).                           *)
RefShape(A, L, v, k, F, h) ==
  /\ A \in SUBSET (Pids \X FDs)
  /\ \A p \in Pids, fd \in FDs : <<p, fd>> \in A <=> Held(L, v, k, p, fd) /\ F[p][fd] = h

LEMMA RefMember ==
  ASSUME NEW L \in SUBSET Pids, NEW v \in Pids \cup {NULL}, NEW k \in 0 .. MAX_FDS,
         NEW F \in Tables, NEW h
  PROVE  RefShape(RefSet(L, v, k, F, h), L, v, k, F, h)
<1>1. \A fd \in FDs : fd \in k .. MAX_FDS - 1 <=> fd >= k
  BY KernelAssumption DEF FDs
<1>2. k .. MAX_FDS - 1 \subseteq FDs
  BY KernelAssumption DEF FDs
<1>3. RefSet(L, v, k, F, h) \in SUBSET (Pids \X FDs)
  BY <1>2 DEF RefSet
<1>4. ASSUME NEW p \in Pids, NEW fd \in FDs
      PROVE  <<p, fd>> \in RefSet(L, v, k, F, h) <=> Held(L, v, k, p, fd) /\ F[p][fd] = h
  BY <1>1, ConstantFacts DEF RefSet, Held
<1> QED
  BY <1>3, <1>4 DEF RefShape

LEMMA RefSame ==
  ASSUME NEW A, NEW B, NEW L, NEW M, NEW v, NEW w, NEW j, NEW k, NEW F, NEW h,
         RefShape(A, L, v, k, F, h), RefShape(B, M, w, j, F, h),
         \A p \in Pids, fd \in FDs : Held(L, v, k, p, fd) <=> Held(M, w, j, p, fd)
  PROVE  A = B
<1>1. ASSUME NEW p \in Pids, NEW fd \in FDs PROVE <<p, fd>> \in A <=> <<p, fd>> \in B
  BY DEF RefShape
<1>2. A \in SUBSET (Pids \X FDs) /\ B \in SUBSET (Pids \X FDs)
  BY DEF RefShape
<1> QED
  BY <1>1, <1>2, SamePairs

LEMMA RefFinite ==
  ASSUME NEW L \in SUBSET Pids, NEW v \in Pids \cup {NULL}, NEW k \in 0 .. MAX_FDS,
         NEW F \in Tables, NEW h
  PROVE  IsFiniteSet(RefSet(L, v, k, F, h)) /\ Cardinality(RefSet(L, v, k, F, h)) \in Nat
<1>1. MAX_PROCESSES - 1 \in Int /\ 1 \in Int
  BY KernelAssumption
<1>2. IsFiniteSet(Pids)
  BY <1>1, FS_Interval DEF Pids
<1>3. IsFiniteSet(Pids \X FDs)
  BY <1>2, ConstantFacts, FS_Product
<1>4. IsFiniteSet(RefSet(L, v, k, F, h))
  BY <1>3, RefMember, FS_Subset DEF RefShape
<1> QED
  BY <1>4, FS_CardinalityType

(* Changing one descriptor of a live process moves one reference.          *)
Moved(old, new, h) == IF h = new THEN (IF h = old THEN 0 ELSE 1)
                                 ELSE (IF h = old THEN -1 ELSE 0)

OneChanged(F, G, p, fd, g) ==
  \A q \in Pids, fe \in FDs : G[q][fe] = IF q = p /\ fe = fd THEN g ELSE F[q][fe]

LEMMA MoveReference ==
  ASSUME NEW L \in SUBSET Pids, NEW v \in Pids \cup {NULL}, NEW k \in 0 .. MAX_FDS,
         NEW F \in Tables, NEW G \in Tables,
         NEW p \in L, NEW fd \in FDs, NEW g, OneChanged(F, G, p, fd, g), NEW h
  PROVE  Cardinality(RefSet(L, v, k, G, h))
           = Cardinality(RefSet(L, v, k, F, h)) + Moved(F[p][fd], g, h)
<1> DEFINE A == RefSet(L, v, k, F, h)
           B == RefSet(L, v, k, G, h)
           x == <<p, fd>>
<1>a. p \in Pids
  OBVIOUS
<1>b. Held(L, v, k, p, fd)
  BY DEF Held
<1>c. RefShape(A, L, v, k, F, h)
  BY RefMember
<1>d. RefShape(B, L, v, k, G, h)
  BY RefMember
<1>e. IsFiniteSet(A) /\ Cardinality(A) \in Nat
  BY RefFinite
<1>f. \A q \in Pids, fe \in FDs : <<q, fe>> = x <=> q = p /\ fe = fd
  OBVIOUS
<1>g. x \in Pids \X FDs /\ (x \in A <=> F[p][fd] = h)
  BY <1>a, <1>b, <1>c DEF RefShape
<1> HIDE DEF A, B, x
<1>1. CASE h = g
  <2>1. ASSUME NEW q \in Pids, NEW fe \in FDs
        PROVE  <<q, fe>> \in B <=> <<q, fe>> \in A \cup {x}
    <3>1. /\ <<q, fe>> \in A <=> Held(L, v, k, q, fe) /\ F[q][fe] = h
          /\ <<q, fe>> \in B <=> Held(L, v, k, q, fe) /\ G[q][fe] = h
      BY <1>c, <1>d DEF RefShape
    <3> QED
      BY <3>1, <1>b, <1>f, <1>1 DEF OneChanged
  <2>2. A \cup {x} \in SUBSET (Pids \X FDs)
    BY <1>c, <1>g DEF RefShape
  <2>3. B = A \cup {x}
    BY <1>d, <2>1, <2>2, SamePairs DEF RefShape
  <2>4. Cardinality(B) = IF x \in A THEN Cardinality(A) ELSE Cardinality(A) + 1
    BY <1>e, <2>3, FS_AddElement
  <2> QED
    BY <1>e, <1>g, <1>1, <2>4 DEF Moved, A, B
<1>2. CASE h # g
  <2>1. ASSUME NEW q \in Pids, NEW fe \in FDs
        PROVE  <<q, fe>> \in B <=> <<q, fe>> \in A \ {x}
    <3>1. /\ <<q, fe>> \in A <=> Held(L, v, k, q, fe) /\ F[q][fe] = h
          /\ <<q, fe>> \in B <=> Held(L, v, k, q, fe) /\ G[q][fe] = h
      BY <1>c, <1>d DEF RefShape
    <3> QED
      BY <3>1, <1>b, <1>f, <1>2 DEF OneChanged
  <2>2. A \ {x} \in SUBSET (Pids \X FDs)
    BY <1>c DEF RefShape
  <2>3. B = A \ {x}
    BY <1>d, <2>1, <2>2, SamePairs DEF RefShape
  <2>4. Cardinality(B) = IF x \in A THEN Cardinality(A) - 1 ELSE Cardinality(A)
    BY <1>e, <2>3, FS_RemoveElement
  <2> QED
    BY <1>e, <1>g, <1>2, <2>4 DEF Moved, A, B
<1> QED
  BY <1>1, <1>2

(* A child that gets the descriptors of p adds as many references as p has.*)
Copied(F, G, p, ch) ==
  \A q \in Pids, fe \in FDs : G[q][fe] = IF q = ch THEN F[p][fe] ELSE F[q][fe]

FdsOf(F, p, h) == {fd \in FDs : F[p][fd] = h}

LEMMA ShareReferences ==
  ASSUME NEW L \in SUBSET Pids, NEW k \in 0 .. MAX_FDS, NEW F \in Tables, NEW G \in Tables,
         NEW p \in L, NEW ch \in Pids \ L, Copied(F, G, p, ch), NEW h
  PROVE  /\ Cardinality(FdsOf(F, p, h)) \in Nat
         /\ Cardinality(RefSet(L \cup {ch}, NULL, k, G, h))
              = Cardinality(RefSet(L, NULL, k, F, h)) + Cardinality(FdsOf(F, p, h))
<1> DEFINE A == RefSet(L, NULL, k, F, h)
           B == RefSet(L \cup {ch}, NULL, k, G, h)
           S == {fd \in FDs : F[p][fd] = h}
           C == {ch} \X S
<1>1. p \in Pids /\ p # ch /\ L \cup {ch} \in SUBSET Pids
  OBVIOUS
<1>2. RefShape(A, L, NULL, k, F, h)
  BY RefMember
<1>3. RefShape(B, L \cup {ch}, NULL, k, G, h)
  BY <1>1, RefMember
<1>4. IsFiniteSet(A) /\ Cardinality(A) \in Nat
  BY RefFinite
<1>5. IsFiniteSet(S) /\ Cardinality(S) \in Nat
  BY ConstantFacts, FS_Subset, FS_CardinalityType
<1>6. \A q \in Pids, fe \in FDs : <<q, fe>> \in C <=> q = ch /\ F[p][fe] = h
  OBVIOUS
<1>7. C \in SUBSET (Pids \X FDs)
  OBVIOUS
<1>8. IsFiniteSet(C) /\ Cardinality(C) = Cardinality(S)
  <2> HIDE DEF S
  <2>1. IsFiniteSet({ch}) /\ Cardinality({ch}) = 1
    BY FS_Singleton
  <2>2. IsFiniteSet(C) /\ Cardinality(C) = 1 * Cardinality(S)
    BY <1>5, <2>1, FS_Product
  <2> QED
    BY <1>5, <2>2
<1> HIDE DEF A, B, C, S
<1>9. \A q \in Pids, fe \in FDs :
        /\ Held(L, NULL, k, q, fe) <=> q \in L
        /\ Held(L \cup {ch}, NULL, k, q, fe) <=> q \in L \/ q = ch
  BY ConstantFacts DEF Held
<1>10. B = A \cup C
  <2>1. ASSUME NEW q \in Pids, NEW fe \in FDs
        PROVE  <<q, fe>> \in B <=> <<q, fe>> \in A \cup C
    <3>1. /\ <<q, fe>> \in A <=> q \in L /\ F[q][fe] = h
          /\ <<q, fe>> \in B <=> (q \in L \/ q = ch) /\ G[q][fe] = h
          /\ <<q, fe>> \in C <=> q = ch /\ F[p][fe] = h
      BY <1>2, <1>3, <1>6, <1>9 DEF RefShape
    <3> QED
      BY <3>1, <1>1 DEF Copied
  <2>2. A \cup C \in SUBSET (Pids \X FDs) /\ B \in SUBSET (Pids \X FDs)
    BY <1>2, <1>3, <1>7 DEF RefShape
  <2> QED
    BY <2>1, <2>2, SamePairs
<1>11. A \cap C = {}
  <2>1. ASSUME NEW q \in Pids, NEW fe \in FDs
        PROVE  <<q, fe>> \in A \cap C <=> <<q, fe>> \in {}
    BY <1>2, <1>6, <1>9 DEF RefShape
  <2>2. A \cap C \in SUBSET (Pids \X FDs) /\ {} \in SUBSET (Pids \X FDs)
    BY <1>7
  <2> QED
    BY <2>1, <2>2, SamePairs
<1>12. Cardinality(B) = Cardinality(A) + Cardinality(C) - Cardinality(A \cap C)
  BY <1>4, <1>8, <1>10, FS_Union
<1>13. Cardinality(A \cap C) = 0
  BY <1>11, FS_EmptySet
<1>14. Cardinality(B) = Cardinality(A) + Cardinality(S)
  BY <1>4, <1>5, <1>8, <1>12, <1>13
<1> QED
  BY <1>5, <1>14 DEF A, B, S, FdsOf

(* kill_process takes over the descriptors of the process, lets go of them *)
(* one by one, and has none left at the end.                               *)
LEMMA TakeOverReferences ==
  ASSUME NEW L \in SUBSET Pids, NEW k \in 0 .. MAX_FDS, NEW F \in Tables, NEW p \in L, NEW h
  PROVE  RefSet(L \ {p}, p, 0, F, h) = RefSet(L, NULL, k, F, h)
<1> DEFINE A == RefSet(L, NULL, k, F, h)
           B == RefSet(L \ {p}, p, 0, F, h)
<1>1. p \in Pids /\ L \ {p} \in SUBSET Pids /\ 0 \in 0 .. MAX_FDS
  BY KernelAssumption
<1>2. RefShape(A, L, NULL, k, F, h)
  BY RefMember
<1>3. RefShape(B, L \ {p}, p, 0, F, h)
  BY <1>1, RefMember
<1> HIDE DEF A, B
<1>4. \A q \in Pids, fe \in FDs : Held(L, NULL, k, q, fe) <=> Held(L \ {p}, p, 0, q, fe)
  BY ConstantFacts DEF Held, FDs
<1>5. A = B
  BY <1>2, <1>3, <1>4, RefSame
<1> QED
  BY <1>5 DEF A, B

LEMMA DropReference ==
  ASSUME NEW L \in SUBSET Pids, NEW v \in Pids \ L, NEW k \in FDs, NEW F \in Tables, NEW h
  PROVE  /\ F[v][k] # h => RefSet(L, v, k + 1, F, h) = RefSet(L, v, k, F, h)
         /\ F[v][k] = h => Cardinality(RefSet(L, v, k + 1, F, h))
                             = Cardinality(RefSet(L, v, k, F, h)) - 1
<1> DEFINE A == RefSet(L, v, k, F, h)
           B == RefSet(L, v, k + 1, F, h)
           x == <<v, k>>
<1>1. k \in 0 .. MAX_FDS /\ k + 1 \in 0 .. MAX_FDS
  BY KernelAssumption DEF FDs
<1>2. RefShape(A, L, v, k, F, h)
  BY <1>1, RefMember
<1>3. RefShape(B, L, v, k + 1, F, h)
  BY <1>1, RefMember
<1>4. IsFiniteSet(A) /\ Cardinality(A) \in Nat
  BY <1>1, RefFinite
<1>5. \A q \in Pids, fe \in FDs : <<q, fe>> = x <=> q = v /\ fe = k
  OBVIOUS
<1>6. \A q \in Pids, fe \in FDs :
        Held(L, v, k + 1, q, fe) <=> Held(L, v, k, q, fe) /\ ~ (q = v /\ fe = k)
  BY DEF Held, FDs
<1>7. Held(L, v, k, v, k)
  BY DEF Held, FDs
<1>8. x \in A <=> F[v][k] = h
  BY <1>2, <1>7 DEF RefShape
<1> HIDE DEF A, B, x
<1>9. B = A \ {x}
  <2>1. ASSUME NEW q \in Pids, NEW fe \in FDs
        PROVE  <<q, fe>> \in B <=> <<q, fe>> \in A \ {x}
    <3>1. /\ <<q, fe>> \in A <=> Held(L, v, k, q, fe) /\ F[q][fe] = h
          /\ <<q, fe>> \in B <=> Held(L, v, k + 1, q, fe) /\ F[q][fe] = h
      BY <1>2, <1>3 DEF RefShape
    <3> QED
      BY <3>1, <1>5, <1>6
  <2>2. A \ {x} \in SUBSET (Pids \X FDs) /\ B \in SUBSET (Pids \X FDs)
    BY <1>2, <1>3 DEF RefShape
  <2> QED
    BY <2>1, <2>2, SamePairs
<1>10. Cardinality(B) = IF x \in A THEN Cardinality(A) - 1 ELSE Cardinality(A)
  BY <1>4, <1>9, FS_RemoveElement
<1>11. F[v][k] # h => B = A
  BY <1>8, <1>9
<1>12. F[v][k] = h => Cardinality(B) = Cardinality(A) - 1
  BY <1>8, <1>10
<1> QED
  BY <1>11, <1>12 DEF A, B

LEMMA NoReferencesLeft ==
  ASSUME NEW L \in SUBSET Pids, NEW v \in Pids, NEW F \in Tables, NEW h
  PROVE  RefSet(L, NULL, 0, F, h) = RefSet(L, v, MAX_FDS, F, h)
<1> DEFINE A == RefSet(L, NULL, 0, F, h)
           B == RefSet(L, v, MAX_FDS, F, h)
<1>1. 0 \in 0 .. MAX_FDS /\ MAX_FDS \in 0 .. MAX_FDS
  BY KernelAssumption
<1>2. RefShape(A, L, NULL, 0, F, h)
  BY <1>1, RefMember
<1>3. RefShape(B, L, v, MAX_FDS, F, h)
  BY <1>1, RefMember
<1> HIDE DEF A, B
<1>4. \A q \in Pids, fe \in FDs : Held(L, NULL, 0, q, fe) <=> Held(L, v, MAX_FDS, q, fe)
  BY ConstantFacts, KernelAssumption DEF Held, FDs
<1>5. A = B
  BY <1>2, <1>3, <1>4, RefSame
<1> QED
  BY <1>5 DEF A, B

-----------------------------------------------------------------------------
(* The invariant, and steps that do not touch descriptors or counts.       *)

RefInv == RefcountsExact /\ ResourcesInv

LEMMA StateFacts ==
  ASSUME Inv
  PROVE  /\ Live \in SUBSET Pids /\ victim \in Pids \cup {NULL} /\ kfd \in 0 .. MAX_FDS
         /\ filedesc \in Tables
         /\ victim \notin Live
         /\ refcount \in [Handles -> Nat]
BY DEF Inv, TypeInv, TypeOK, Live, Tables

LEMMA QuietStep ==
  ASSUME Inv, RefInv,
         UNCHANGED <<filedesc, refcount, reading, writing, victim, kfd>>,
         (exists \ exited)' = exists \ exited,
         \A p \in Pids : mailbox'[p] \in {mailbox[p], "live"},
         kpc' # "reap"
  PROVE  RefInv'
<1>1. Live' = Live
  BY DEF Live
<1>2. ASSUME NEW h PROVE References(h)' = References(h)
  BY <1>1, ReferencesNow, ReferencesNext
<1>3. RefcountsExact'
  BY <1>2 DEF RefInv, RefcountsExact
<1>4. exists \ exited \subseteq Pids
  BY DEF Inv, TypeInv, TypeOK
<1>5. ResourcesInv'
  BY <1>4 DEF RefInv, ResourcesInv
<1> QED
  BY <1>3, <1>5 DEF RefInv

LEMMA ReturnOnlyRefs == ASSUME Inv, RefInv, ReturnOnly PROVE RefInv'
<1>1. /\ UNCHANGED <<exists, exited, filedesc, refcount, reading, writing, victim, kfd, mailbox>>
      /\ kpc' = "user"
  BY DEF ReturnOnly, Return, procVars, fdVars, pipeVars, killVars, mailVars
<1> QED
  BY <1>1, QuietStep

LEMMA StopRefs ==
  ASSUME Inv, RefInv, kpc' \in {"panic", "halt"},
         UNCHANGED <<procVars, schedVars, fdVars, pipeVars, mailVars, killVars, in_syscall>>
  PROVE  RefInv'
<1>1. UNCHANGED <<exists, exited, filedesc, refcount, reading, writing, victim, kfd, mailbox>>
  BY DEF procVars, fdVars, pipeVars, killVars, mailVars
<1> QED
  BY <1>1, QuietStep

LEMMA PanicRefs == ASSUME Inv, RefInv, Panic PROVE RefInv'
BY StopRefs DEF Panic

LEMMA SwitchRefs == ASSUME Inv, RefInv, context_switch PROVE RefInv'
<1>1. /\ UNCHANGED <<exists, exited, filedesc, refcount, reading, writing, victim, kfd, mailbox>>
      /\ kpc' \in {"restart", "user"}
  BY DEF context_switch, procVars, fdVars, pipeVars, killVars, mailVars
<1> QED
  BY <1>1, QuietStep

LEMMA KeyboardRefs == ASSUME Inv, RefInv, keyboard_handler PROVE RefInv'
<1>1. CASE Panic
  BY <1>1, PanicRefs
<1>2. CASE ~ Panic
  <2>1. /\ UNCHANGED <<exists, exited, filedesc, refcount, reading, writing, victim, kfd, mailbox>>
        /\ kpc' = "switch"
    BY <1>2 DEF keyboard_handler, write_to_pipe, procVars, fdVars, killVars, mailVars
  <2> QED
    BY <2>1, QuietStep
<1> QED
  BY <1>1, <1>2

LEMMA WriteRefs == ASSUME Inv, RefInv, NEW c \in Calls, syscall_write(c) PROVE RefInv'
<1>1. CASE Panic \/ ReturnOnly
  BY <1>1, PanicRefs, ReturnOnlyRefs
<1>2. CASE ~ (Panic \/ ReturnOnly)
  <2>1. /\ UNCHANGED <<exists, exited, filedesc, refcount, reading, writing, victim, kfd, mailbox>>
        /\ kpc' = "user"
    BY <1>2 DEF syscall_write, write_to_pipe, Return, procVars, fdVars, killVars, mailVars
  <2> QED
    BY <2>1, QuietStep
<1> QED
  BY <1>1, <1>2

LEMMA ReadRefs == ASSUME Inv, RefInv, NEW c \in Calls, syscall_read(c) PROVE RefInv'
<1>1. CASE Panic \/ ReturnOnly
  BY <1>1, PanicRefs, ReturnOnlyRefs
<1>2. CASE ~ (Panic \/ ReturnOnly)
  <2>1. /\ UNCHANGED <<exists, exited, filedesc, refcount, reading, writing, victim, kfd, mailbox>>
        /\ kpc' \in {"user", "switch"}
    BY <1>2 DEF syscall_read, pipe_reader_read, Return, SuspendIn, procVars, fdVars, killVars,
                mailVars
  <2> QED
    BY <2>1, QuietStep
<1> QED
  BY <1>1, <1>2

LEMMA WaitpidRefs == ASSUME Inv, RefInv, NEW c \in Calls, syscall_waitpid(c) PROVE RefInv'
<1>1. CASE Panic \/ ReturnOnly
  BY <1>1, PanicRefs, ReturnOnlyRefs
<1>2. CASE ~ (Panic \/ ReturnOnly)
  <2>1. /\ UNCHANGED <<exited, filedesc, refcount, reading, writing, victim, kfd, mailbox>>
        /\ exists' = exists \/ \E p \in exited : exists' = exists \ {p}
        /\ kpc' \in {"user", "switch"}
    BY <1>2 DEF syscall_waitpid, Return, SuspendIn, pipeVars, fdVars, killVars, mailVars, OwnChild
  <2>2. (exists \ exited)' = exists \ exited
    BY <2>1
  <2> QED
    BY <2>1, <2>2, QuietStep
<1> QED
  BY <1>1, <1>2

LEMMA SendRefs == ASSUME Inv, RefInv, NEW c \in Calls, syscall_send(c) PROVE RefInv'
<1>1. CASE Panic \/ ReturnOnly
  BY <1>1, PanicRefs, ReturnOnlyRefs
<1>2. CASE ~ (Panic \/ ReturnOnly)
  <2>1. /\ UNCHANGED <<exists, exited, filedesc, refcount, reading, writing, victim, kfd>>
        /\ mailbox' = [mailbox EXCEPT ![c[2]] = IF @ = "null" THEN "live" ELSE @]
        /\ kpc' = "user"
    BY <1>2 DEF syscall_send, Return, procVars, fdVars, pipeVars
  <2>2. \A p \in Pids : mailbox'[p] \in {mailbox[p], "live"}
    BY <2>1 DEF Inv, TypeInv, TypeOK
  <2> QED
    BY <2>1, <2>2, QuietStep
<1> QED
  BY <1>1, <1>2

LEMMA ReceiveRefs == ASSUME Inv, RefInv, NEW c \in Calls, syscall_receive(c) PROVE RefInv'
<1>1. CASE Panic \/ ReturnOnly
  BY <1>1, PanicRefs, ReturnOnlyRefs
<1>2. CASE ~ (Panic \/ ReturnOnly)
  <2>1. /\ UNCHANGED <<exists, exited, filedesc, refcount, reading, writing, victim, kfd, mailbox>>
        /\ kpc' \in {"user", "switch"}
    BY <1>2 DEF syscall_receive, Return, SuspendIn, procVars, fdVars, pipeVars, killVars
  <2> QED
    BY <2>1, QuietStep
<1> QED
  BY <1>1, <1>2

-----------------------------------------------------------------------------
(* Closing a descriptor.                                                   *)

(* A handle that some descriptor refers to is counted.                     *)
LEMMA HeldCounts ==
  ASSUME Inv, RefInv, NEW p \in Pids, NEW fd \in FDs, Held(Live, victim, kfd, p, fd),
         NEW h \in Handles, filedesc[p][fd] = h
  PROVE  refcount[h] \in Nat /\ refcount[h] >= 1
<1> DEFINE A == RefSet(Live, victim, kfd, filedesc, h)
<1>1. RefShape(A, Live, victim, kfd, filedesc, h) /\ IsFiniteSet(A)
  BY StateFacts, RefMember, RefFinite
<1>2. refcount[h] = Cardinality(A)
  BY ReferencesNow DEF RefInv, RefcountsExact
<1> HIDE DEF A
<1>3. <<p, fd>> \in A
  BY <1>1 DEF RefShape
<1>4. Cardinality(A) \in Nat /\ Cardinality(A) # 0
  BY <1>1, <1>3, FS_EmptySet, FS_CardinalityType
<1> QED
  BY <1>2, <1>4

(* A handle that two descriptors of a live process refer to counts twice.  *)
LEMMA HeldTwice ==
  ASSUME Inv, RefInv, NEW p \in Live, NEW fd \in FDs, NEW fe \in FDs, fd # fe,
         NEW h \in Handles, filedesc[p][fd] = h, filedesc[p][fe] = h
  PROVE  refcount[h] > 1
<1> DEFINE A == RefSet(Live, victim, kfd, filedesc, h)
           x == <<p, fd>>
           y == <<p, fe>>
<1>1. RefShape(A, Live, victim, kfd, filedesc, h) /\ IsFiniteSet(A)
  BY StateFacts, RefMember, RefFinite
<1>2. refcount[h] = Cardinality(A)
  BY ReferencesNow DEF RefInv, RefcountsExact
<1>3. x # y
  OBVIOUS
<1> HIDE DEF A
<1>4. x \in A /\ y \in A
  BY <1>1, StateFacts DEF RefShape, Held
<1> HIDE DEF x, y
<1>5. Cardinality(A) \in Nat /\ IsFiniteSet(A \ {x}) /\ Cardinality(A \ {x}) = Cardinality(A) - 1
  BY <1>1, <1>4, FS_RemoveElement, FS_CardinalityType
<1>6. Cardinality(A \ {x}) # 0
  BY <1>3, <1>4, <1>5, FS_EmptySet
<1>7. Cardinality(A \ {x}) \in Nat
  BY <1>5, FS_CardinalityType
<1> QED
  BY <1>2, <1>5, <1>6, <1>7

(* Which handle is the end of which pipe.                                  *)
LEMMA WhichEnd ==
  ASSUME NEW h \in Handles, NEW b \in AllPipes
  PROVE  /\ ReaderOf(b) = h <=> h.type = "reader" /\ h.p = b
         /\ WriterOf(b) = h <=> h.type = "writer" /\ h.p = b
<1>1. CASE h \in PipeHandles
  <2>1. PICK t \in {"reader", "writer"}, x \in AllPipes : h = [type |-> t, p |-> x]
    BY <1>1 DEF PipeHandles
  <2> QED
    BY <2>1 DEF ReaderOf, WriterOf
<1>2. CASE h \in ScreenHandles
  BY <1>2 DEF ScreenHandles, ReaderOf, WriterOf
<1> QED
  BY <1>1, <1>2 DEF Handles

(* A pipe's flags follow the counts when a reference to h is dropped,      *)
(* whatever else the call does to the counts of handles in use.            *)
LEMMA CloseFlags ==
  ASSUME Inv, RefInv, NEW h \in Handles, refcount[h] >= 1, close_filehandle(h),
         refcount' \in [Handles -> Nat],
         refcount'[h] > 0 <=> refcount[h] > 1,
         \A x \in Handles : x # h => (refcount'[x] > 0 <=> refcount[x] > 0)
  PROVE  /\ \A b \in AllPipes : b \in reading' <=> refcount'[ReaderOf(b)] > 0
         /\ \A b \in Pipes : b \in writing' <=> refcount'[WriterOf(b)] > 0
         /\ StdinPipe \in writing' /\ refcount'[WriterOf(StdinPipe)] = 0
<1>0. refcount[h] \in Nat /\ StdinPipe \in AllPipes /\ Pipes \subseteq AllPipes
  BY StateFacts DEF AllPipes
<1>1. ASSUME NEW b \in AllPipes
      PROVE  b \in reading' <=> refcount'[ReaderOf(b)] > 0
  <2>1. b \in reading <=> refcount[ReaderOf(b)] > 0
    BY DEF RefInv, RefcountsExact
  <2>2. b \in reading' <=> b \in reading /\ ~ (refcount[h] = 1 /\ h.type = "reader" /\ h.p = b)
    BY DEF close_filehandle
  <2> QED
    BY <1>0, <2>1, <2>2, WhichEnd, EndsAreHandles
<1>2. ASSUME NEW b \in AllPipes
      PROVE  b \in writing' <=> b \in writing /\ ~ (refcount[h] = 1 /\ WriterOf(b) = h)
  BY WhichEnd DEF close_filehandle
<1>3. ASSUME NEW b \in Pipes
      PROVE  b \in writing' <=> refcount'[WriterOf(b)] > 0
  <2>1. b \in writing <=> refcount[WriterOf(b)] > 0
    BY DEF RefInv, RefcountsExact
  <2> QED
    BY <1>0, <1>2, <2>1, EndsAreHandles
<1>4. StdinPipe \in writing' /\ refcount'[WriterOf(StdinPipe)] = 0
  <2>1. StdinPipe \in writing /\ refcount[WriterOf(StdinPipe)] = 0
    BY DEF RefInv, ResourcesInv
  <2>2. h # WriterOf(StdinPipe)
    BY <2>1
  <2>3. WriterOf(StdinPipe) \in Handles
    BY <1>0, EndsAreHandles
  <2> QED
    BY <1>0, <1>2, <2>1, <2>2, <2>3
<1> QED
  BY <1>1, <1>3, <1>4

LEMMA CloseRefs == ASSUME Inv, RefInv, NEW c \in Calls, syscall_close(c) PROVE RefInv'
<1> DEFINE h == HandleAt(c[2])
           p == current_process
<1>1. CASE Panic \/ ReturnOnly
  BY <1>1, PanicRefs, ReturnOnlyRefs
<1>2. CASE ~ (Panic \/ ReturnOnly)
  <2>1. /\ h # NullHandle /\ close_asserts(h) /\ close_filehandle(h)
        /\ refcount' = Dropped(h)
        /\ filedesc' = [filedesc EXCEPT ![p][c[2]] = NullHandle]
        /\ UNCHANGED <<exists, exited, victim, kfd, mailbox>> /\ kpc' = "user"
    BY <1>2 DEF syscall_close, Return, procVars, killVars, mailVars
  <2>2. p \in Live /\ p \in Pids
    BY EnteringInv DEF syscall_close
  <2>3. c[2] \in FDs /\ h \in Handles /\ filedesc[p][c[2]] = h
    BY <2>1, <2>2, HandleAtType DEF Inv, TypeInv, HandleAt
  <2>4. Live' = Live
    BY <2>1 DEF Live
  <2>5. refcount[h] >= 1 /\ refcount[h] \in Nat
    BY <2>1, <2>3, StateFacts DEF close_asserts
  <2>6. /\ refcount' \in [Handles -> Nat]
        /\ \A x \in Handles : refcount'[x] = IF x = h THEN refcount[h] - 1 ELSE refcount[x]
    BY <2>1, <2>3, <2>5, StateFacts DEF Dropped
  <2>7. filedesc' \in Tables
    BY <2>1, <2>2, <2>3, StateFacts DEF Tables
  <2>8. OneChanged(filedesc, filedesc', p, c[2], NullHandle)
    BY <2>1, <2>2, <2>3, StateFacts DEF Tables, OneChanged
  <2>9. ASSUME NEW x \in Handles PROVE refcount'[x] = Cardinality(References(x)')
    <3>1. Cardinality(References(x)') = Cardinality(References(x)) + Moved(h, NullHandle, x)
      <4>1. References(x)' = RefSet(Live, victim, kfd, filedesc', x)
        BY <2>1, <2>4, ReferencesNext
      <4>2. References(x) = RefSet(Live, victim, kfd, filedesc, x)
        BY ReferencesNow
      <4>3. Cardinality(RefSet(Live, victim, kfd, filedesc', x))
              = Cardinality(RefSet(Live, victim, kfd, filedesc, x))
                  + Moved(filedesc[p][c[2]], NullHandle, x)
        BY <2>2, <2>3, <2>7, <2>8, StateFacts, MoveReference
      <4> QED
        BY <2>3, <4>1, <4>2, <4>3
    <3>2. x # NullHandle
      BY DEF Handles, PipeHandles, ScreenHandles, NullHandle
    <3>3. refcount[x] = Cardinality(References(x)) /\ refcount[x] \in Nat
      BY StateFacts DEF RefInv, RefcountsExact
    <3> QED
      BY <2>6, <3>1, <3>2, <3>3 DEF Moved
  <2>10. /\ \A b \in AllPipes : b \in reading' <=> refcount'[ReaderOf(b)] > 0
         /\ \A b \in Pipes : b \in writing' <=> refcount'[WriterOf(b)] > 0
         /\ StdinPipe \in writing' /\ refcount'[WriterOf(StdinPipe)] = 0
    BY <2>1, <2>3, <2>5, <2>6, CloseFlags
  <2> QED
    BY <2>1, <2>9, <2>10 DEF RefInv, RefcountsExact, ResourcesInv
<1> QED
  BY <1>1, <1>2

(* When the handle is dropped from the descriptor it is copied to, the     *)
(* descriptor it is copied from still holds it.                            *)
LEMMA Dup2Refs == ASSUME Inv, RefInv, NEW c \in Calls, syscall_dup2(c) PROVE RefInv'
<1> DEFINE h == HandleAt(c[2])
           old == HandleAt(c[3])
           p == current_process
<1>1. CASE Panic \/ ReturnOnly
  BY <1>1, PanicRefs, ReturnOnlyRefs
<1>2. CASE ~ (Panic \/ ReturnOnly)
  <2>1. /\ c[3] \in FDs /\ h # NullHandle /\ c[2] # c[3]
        /\ filedesc' = [filedesc EXCEPT ![p][c[3]] = h]
        /\ UNCHANGED <<exists, exited, victim, kfd, mailbox>> /\ kpc' = "user"
        /\ IF old = NullHandle
           THEN refcount' = [refcount EXCEPT ![h] = @ + 1] /\ UNCHANGED <<reading, writing>>
           ELSE /\ close_asserts(old) /\ close_filehandle(old)
                /\ refcount' = [Dropped(old) EXCEPT ![h] = @ + 1]
    BY <1>2 DEF syscall_dup2, Return, procVars, pipeVars, killVars, mailVars
  <2>2. p \in Live /\ p \in Pids
    BY EnteringInv DEF syscall_dup2
  <2>3. c[2] \in FDs /\ h \in Handles /\ filedesc[p][c[2]] = h /\ filedesc[p][c[3]] = old
    BY <2>1, <2>2, HandleAtType DEF Inv, TypeInv, HandleAt
  <2>4. Live' = Live
    BY <2>1 DEF Live
  <2>5. refcount[h] \in Nat /\ refcount[h] >= 1 /\ (old = h => refcount[h] > 1)
    BY <2>1, <2>2, <2>3, HeldCounts, HeldTwice DEF Held
  <2>6. old # NullHandle => old \in Handles /\ refcount[old] \in Nat /\ refcount[old] >= 1
    BY <2>1, <2>2, StateFacts, HandleAtType DEF close_asserts, Inv, TypeInv
  <2>7. \A x \in Handles : x # NullHandle
    BY DEF Handles, PipeHandles, ScreenHandles, NullHandle
  <2> HIDE DEF h, old
  <2>8. /\ refcount' \in [Handles -> Nat]
        /\ \A x \in Handles : refcount'[x] = refcount[x] + Moved(old, h, x)
    <3>1. CASE old = NullHandle
      <4>1. refcount' = [refcount EXCEPT ![h] = @ + 1]
        BY <2>1, <3>1
      <4> QED
        BY <2>3, <2>5, <2>7, <3>1, <4>1, StateFacts DEF Moved
    <3>2. CASE old # NullHandle
      <4>1. refcount' = [Dropped(old) EXCEPT ![h] = @ + 1]
        BY <2>1, <3>2
      <4>2. /\ Dropped(old) \in [Handles -> Nat]
            /\ \A x \in Handles : Dropped(old)[x] = IF x = old THEN refcount[x] - 1 ELSE refcount[x]
        BY <2>6, <3>2, StateFacts DEF Dropped
      <4> HIDE DEF Dropped
      <4>3. refcount' \in [Handles -> Nat]
        BY <2>3, <4>1, <4>2
      <4>4. ASSUME NEW x \in Handles PROVE refcount'[x] = refcount[x] + Moved(old, h, x)
        <5>1. refcount'[x] = IF x = h THEN Dropped(old)[x] + 1 ELSE Dropped(old)[x]
          BY <2>3, <4>1, <4>2
        <5>2. refcount[x] \in Nat
          BY StateFacts
        <5> QED
          BY <4>2, <5>1, <5>2 DEF Moved
      <4> QED
        BY <4>3, <4>4
    <3> QED
      BY <3>1, <3>2
  <2>9. filedesc' \in Tables /\ OneChanged(filedesc, filedesc', p, c[3], h)
    BY <2>1, <2>2, <2>3, StateFacts DEF Tables, OneChanged
  <2>10. ASSUME NEW x \in Handles PROVE refcount'[x] = Cardinality(References(x)')
    <3>1. References(x)' = RefSet(Live, victim, kfd, filedesc', x)
      BY <2>1, <2>4, ReferencesNext
    <3>2. References(x) = RefSet(Live, victim, kfd, filedesc, x)
      BY ReferencesNow
    <3>3. Cardinality(RefSet(Live, victim, kfd, filedesc', x))
            = Cardinality(RefSet(Live, victim, kfd, filedesc, x)) + Moved(filedesc[p][c[3]], h, x)
      BY <2>1, <2>2, <2>9, StateFacts, MoveReference
    <3>4. refcount[x] = Cardinality(References(x))
      BY DEF RefInv, RefcountsExact
    <3> QED
      BY <2>3, <2>8, <3>1, <3>2, <3>3, <3>4
  <2>11. /\ \A b \in AllPipes : b \in reading' <=> refcount'[ReaderOf(b)] > 0
         /\ \A b \in Pipes : b \in writing' <=> refcount'[WriterOf(b)] > 0
         /\ StdinPipe \in writing' /\ refcount'[WriterOf(StdinPipe)] = 0
    <3>1. \A x \in Handles : x # old => (refcount'[x] > 0 <=> refcount[x] > 0)
      BY <2>3, <2>5, <2>8, StateFacts DEF Moved
    <3>2. CASE old = NullHandle
      <4>1. \A x \in Handles : refcount'[x] > 0 <=> refcount[x] > 0
        BY <2>7, <3>1, <3>2
      <4>2. UNCHANGED <<reading, writing>> /\ StdinPipe \in AllPipes /\ Pipes \subseteq AllPipes
        BY <2>1, <3>2 DEF AllPipes
      <4> QED
        BY <2>8, <4>1, <4>2, EndsAreHandles DEF RefInv, RefcountsExact, ResourcesInv
    <3>3. CASE old # NullHandle
      <4>1. refcount'[old] > 0 <=> refcount[old] > 1
        BY <2>5, <2>6, <2>8, <3>3 DEF Moved
      <4> QED
        BY <2>1, <2>6, <2>8, <3>1, <3>3, <4>1, CloseFlags
    <3> QED
      BY <3>2, <3>3
  <2> QED
    BY <2>1, <2>10, <2>11 DEF RefInv, RefcountsExact, ResourcesInv
<1> QED
  BY <1>1, <1>2

-----------------------------------------------------------------------------
(* New pipes and new processes.                                            *)

(* The ends of a pipe whose flags are both clear are in no descriptor.     *)
LEMMA PipeRefs == ASSUME Inv, RefInv, NEW c \in Calls, syscall_pipe(c) PROVE RefInv'
<1> DEFINE p == current_process
<1>1. CASE Panic \/ ReturnOnly
  BY <1>1, PanicRefs, ReturnOnlyRefs
<1>2. CASE ~ (Panic \/ ReturnOnly)
  <2>1. PICK r \in FDs, w \in FDs, b \in Pipes \ (reading \cup writing) :
          /\ LowestUnused(r, w) /\ new_pipe(b, r, w) /\ kpc' = "user"
          /\ UNCHANGED <<exists, exited, victim, kfd, mailbox>>
    BY <1>2 DEF syscall_pipe, Return, procVars, killVars, mailVars
  <2> DEFINE R == ReaderOf(b)
             W == WriterOf(b)
             F == [filedesc EXCEPT ![p][r] = R]
  <2>2. p \in Live /\ p \in Pids
    BY EnteringInv DEF syscall_pipe
  <2>3. /\ b \in Pipes /\ b \in AllPipes /\ b # StdinPipe /\ r # w
        /\ filedesc[p][r] = NullHandle /\ filedesc[p][w] = NullHandle
    BY <2>1, KernelAssumption DEF LowestUnused, Unused, AllPipes, FDs
  <2>4. /\ R \in Handles /\ W \in Handles /\ R # W
        /\ \A x \in Handles : x # NullHandle
    <3>1. R # W
      BY DEF ReaderOf, WriterOf
    <3>2. \A x \in Handles : x # NullHandle
      BY DEF Handles, PipeHandles, ScreenHandles, NullHandle
    <3> QED
      BY <2>3, <3>1, <3>2, EndsAreHandles
  <2>5. /\ reading' = reading \cup {b} /\ writing' = writing \cup {b}
        /\ refcount' = [refcount EXCEPT ![R] = 1, ![W] = 1]
        /\ filedesc' = [filedesc EXCEPT ![p][r] = R, ![p][w] = W]
    BY <2>1 DEF new_pipe
  <2>6. Live' = Live
    BY <2>1 DEF Live
  <2>7. /\ F \in Tables /\ filedesc' \in Tables
        /\ OneChanged(filedesc, F, p, r, R) /\ OneChanged(F, filedesc', p, w, W)
        /\ F[p][w] = NullHandle
    BY <2>2, <2>3, <2>4, <2>5, StateFacts DEF Tables, OneChanged
  <2>8. refcount[R] = 0 /\ refcount[W] = 0
    <3>1. b \notin reading /\ b \notin writing
      BY <2>1
    <3> QED
      BY <2>3, <2>4, <3>1, StateFacts DEF RefInv, RefcountsExact
  <2> HIDE DEF R, W, F
  <2>9. \A x \in Handles : refcount'[x] = IF x \in {R, W} THEN 1 ELSE refcount[x]
    BY <2>4, <2>5, StateFacts
  <2>10. ASSUME NEW x \in Handles PROVE refcount'[x] = Cardinality(References(x)')
    <3>1. References(x)' = RefSet(Live, victim, kfd, filedesc', x)
      BY <2>1, <2>6, ReferencesNext
    <3>2. References(x) = RefSet(Live, victim, kfd, filedesc, x)
      BY ReferencesNow
    <3>3. Cardinality(RefSet(Live, victim, kfd, F, x))
            = Cardinality(RefSet(Live, victim, kfd, filedesc, x)) + Moved(filedesc[p][r], R, x)
      BY <2>2, <2>7, StateFacts, MoveReference
    <3>4. Cardinality(RefSet(Live, victim, kfd, filedesc', x))
            = Cardinality(RefSet(Live, victim, kfd, F, x)) + Moved(F[p][w], W, x)
      BY <2>2, <2>7, StateFacts, MoveReference
    <3>5. refcount[x] = Cardinality(References(x)) /\ refcount[x] \in Nat
      BY StateFacts DEF RefInv, RefcountsExact
    <3>6. x # NullHandle
      BY <2>4
    <3>7. Cardinality(References(x)') = refcount[x] + Moved(NullHandle, R, x) + Moved(NullHandle, W, x)
      BY <2>3, <2>7, <3>1, <3>2, <3>3, <3>4, <3>5
    <3> QED
      BY <2>4, <2>8, <2>9, <3>5, <3>6, <3>7 DEF Moved
  <2>11. ASSUME NEW x \in AllPipes PROVE x \in reading' <=> refcount'[ReaderOf(x)] > 0
    <3>1. /\ ReaderOf(x) \in Handles /\ ReaderOf(x) # W
          /\ ReaderOf(x) = R <=> x = b
      BY EndsAreHandles DEF R, W, ReaderOf, WriterOf
    <3>2. refcount'[ReaderOf(x)] = IF x = b THEN 1 ELSE refcount[ReaderOf(x)]
      BY <2>9, <3>1
    <3>3. x \in reading <=> refcount[ReaderOf(x)] > 0
      BY DEF RefInv, RefcountsExact
    <3> QED
      BY <2>5, <3>2, <3>3
  <2>12. ASSUME NEW x \in AllPipes
         PROVE  /\ WriterOf(x) \in Handles /\ WriterOf(x) # R
                /\ WriterOf(x) = W <=> x = b
    BY EndsAreHandles DEF R, W, ReaderOf, WriterOf
  <2>13. ASSUME NEW x \in Pipes PROVE x \in writing' <=> refcount'[WriterOf(x)] > 0
    <3>1. refcount'[WriterOf(x)] = IF x = b THEN 1 ELSE refcount[WriterOf(x)]
      BY <2>9, <2>12 DEF AllPipes
    <3>2. x \in writing <=> refcount[WriterOf(x)] > 0
      BY DEF RefInv, RefcountsExact
    <3> QED
      BY <2>5, <3>1, <3>2
  <2>14. StdinPipe \in writing' /\ refcount'[WriterOf(StdinPipe)] = 0
    BY <2>3, <2>5, <2>9, <2>12 DEF RefInv, ResourcesInv, AllPipes
  <2> QED
    BY <2>1, <2>10, <2>11, <2>13, <2>14 DEF RefInv, RefcountsExact, ResourcesInv
<1> QED
  BY <1>1, <1>2

LEMMA ForkRefs == ASSUME Inv, RefInv, NEW c \in Calls, syscall_fork(c) PROVE RefInv'
<1> DEFINE p == current_process
<1>1. CASE Panic \/ ReturnOnly
  BY <1>1, PanicRefs, ReturnOnlyRefs
<1>2. CASE ~ (Panic \/ ReturnOnly)
  <2>1. PICK ch \in Pids :
          /\ ch \notin exists /\ fork_child(c, ch) /\ kpc' = "user"
          /\ UNCHANGED <<reading, writing, victim, kfd>>
    BY <1>2 DEF syscall_fork, IsFreePid, pipeVars, killVars
  <2>2. p \in Live /\ p \in Pids /\ victim = NULL /\ Live = exists \ exited
    BY EnteringInv DEF syscall_fork
  <2>3. /\ exists' = exists \cup {ch} /\ exited' = exited \ {ch}
        /\ filedesc' = [filedesc EXCEPT ![ch] = filedesc[p]]
        /\ refcount' = [h \in Handles |-> refcount[h] + FdCount(p, h)]
        /\ mailbox' = [mailbox EXCEPT ![ch] = "null"]
    BY <2>1 DEF fork_child
  <2>4. (exists \ exited)' = Live \cup {ch} /\ Live' = Live \cup {ch} /\ ch \notin Live
    BY <2>1, <2>2, <2>3, ConstantFacts DEF Live
  <2>5. filedesc' \in Tables /\ Copied(filedesc, filedesc', p, ch)
    BY <2>2, <2>3, StateFacts DEF Tables, Copied
  <2>6. ASSUME NEW x \in Handles
        PROVE  /\ FdCount(p, x) \in Nat
               /\ Cardinality(References(x)') = Cardinality(References(x)) + FdCount(p, x)
    <3>1. References(x)' = RefSet(Live \cup {ch}, NULL, kfd, filedesc', x)
      BY <2>1, <2>2, <2>4, ReferencesNext
    <3>2. References(x) = RefSet(Live, NULL, kfd, filedesc, x)
      BY <2>2, ReferencesNow
    <3>3. /\ Cardinality(FdsOf(filedesc, p, x)) \in Nat
          /\ Cardinality(RefSet(Live \cup {ch}, NULL, kfd, filedesc', x))
               = Cardinality(RefSet(Live, NULL, kfd, filedesc, x))
                   + Cardinality(FdsOf(filedesc, p, x))
      BY <2>2, <2>4, <2>5, StateFacts, ShareReferences
    <3> QED
      BY <3>1, <3>2, <3>3 DEF FdCount, FdsOf
  <2>7. ASSUME NEW x \in Handles PROVE refcount'[x] = Cardinality(References(x)')
    <3>1. refcount[x] = Cardinality(References(x))
      BY DEF RefInv, RefcountsExact
    <3> QED
      BY <2>3, <2>6, <3>1
  <2>8. ASSUME NEW x \in Handles PROVE refcount'[x] > 0 <=> refcount[x] > 0
    <3>1. refcount[x] \in Nat /\ FdCount(p, x) \in Nat /\ refcount'[x] = refcount[x] + FdCount(p, x)
      BY <2>3, <2>6, StateFacts
    <3>2. CASE FdCount(p, x) = 0
      BY <3>1, <3>2
    <3>3. CASE FdCount(p, x) # 0
      <4>1. {fd \in FDs : filedesc[p][fd] = x} # {}
        BY <3>3, FS_EmptySet DEF FdCount
      <4>2. PICK fd \in FDs : filedesc[p][fd] = x
        BY <4>1
      <4>3. refcount[x] >= 1
        BY <2>2, <4>2, HeldCounts DEF Held
      <4> QED
        BY <3>1, <4>3
    <3> QED
      BY <3>2, <3>3
  <2>9. refcount'[WriterOf(StdinPipe)] = 0
    <3>1. WriterOf(StdinPipe) \in Handles /\ refcount[WriterOf(StdinPipe)] = 0
      BY EndsAreHandles DEF RefInv, ResourcesInv, AllPipes
    <3>2. refcount'[WriterOf(StdinPipe)] \in Nat
      BY <2>3, <2>6, <3>1
    <3> QED
      BY <2>8, <3>1, <3>2
  <2>10. RefcountsExact'
    BY <2>1, <2>7, <2>8, EndsAreHandles DEF RefInv, RefcountsExact, AllPipes
  <2>11. \A q \in (exists \ exited)' : mailbox'[q] # "freed"
    <3>1. \A q \in Pids : mailbox'[q] = IF q = ch THEN "null" ELSE mailbox[q]
      BY <2>3 DEF Inv, TypeInv, TypeOK
    <3> QED
      BY <2>2, <2>4, <3>1, StateFacts DEF RefInv, ResourcesInv
  <2> QED
    BY <2>1, <2>9, <2>10, <2>11 DEF RefInv, ResourcesInv
<1> QED
  BY <1>1, <1>2
-----------------------------------------------------------------------------
(* Death. kill_process takes over the descriptors of its victim.           *)
LEMMA KillBeginRefs ==
  ASSUME Inv, RefInv, NEW p \in Live, victim = NULL, KillBegin(p),
         UNCHANGED <<exists, exited, filedesc, refcount, reading, writing, mailbox>>
  PROVE  RefInv'
<1>1. victim' = p /\ kfd' = 0 /\ kpc' = "close"
  BY DEF KillBegin
<1>2. Live' = Live \ {p}
  <2>1. Live' = (exists \ exited) \ {p}
    BY <1>1 DEF Live
  <2>2. Live = (exists \ exited) \ {NULL} /\ NULL \notin exists
    BY ConstantFacts DEF Live, Inv, TypeInv, TypeOK
  <2> QED
    BY <2>1, <2>2
<1>3. ASSUME NEW x \in Handles PROVE References(x)' = References(x)
  <2>1. References(x)' = RefSet(Live \ {p}, p, 0, filedesc, x)
    BY <1>1, <1>2, ReferencesNext
  <2>2. References(x) = RefSet(Live, NULL, kfd, filedesc, x)
    BY ReferencesNow
  <2> QED
    BY <2>1, <2>2, StateFacts, TakeOverReferences
<1>4. RefcountsExact'
  BY <1>3 DEF RefInv, RefcountsExact
<1> QED
  BY <1>1, <1>4 DEF RefInv, ResourcesInv

LEMMA ExitRefs == ASSUME Inv, RefInv, NEW c \in Calls, syscall_exit(c) PROVE RefInv'
<1>1. current_process \in Live /\ victim = NULL
  BY EnteringInv DEF syscall_exit
<1>2. /\ KillBegin(current_process)
      /\ UNCHANGED <<exists, exited, filedesc, refcount, reading, writing, mailbox>>
  BY DEF syscall_exit, procVars, fdVars, pipeVars, mailVars
<1> QED
  BY <1>1, <1>2, KillBeginRefs

LEMMA FaultRefs == ASSUME Inv, RefInv, page_fault PROVE RefInv'
<1>1. current_process \in Live /\ victim = NULL
  BY DEF page_fault, Inv, SchedulerInv, RunsLiveProcess, VictimInv
<1>2. /\ KillBegin(current_process)
      /\ UNCHANGED <<exists, exited, filedesc, refcount, reading, writing, mailbox>>
  BY DEF page_fault, procVars, fdVars, pipeVars, mailVars
<1> QED
  BY <1>1, <1>2, KillBeginRefs

(* Within the discipline, kill and send find their target alive.           *)
LEMMA KillTarget ==
  ASSUME DisciplinedPrograms, Inv, NEW c \in Calls, Entering(c), c[1] = "kill",
         c[2] \in exists, kpc = "user" => Workload(c)
  PROVE  c[2] \in Live /\ (c[2] \in ready \/ in_syscall[c[2]][1] # "read")
<1>1. Workload(c) /\ Live = exists \ exited
  BY EnteringInv DEF BlockingCalls, Entering
<1>2. Condition(c[2]) \in KillScope \cup {"none"}
  BY <1>1 DEF Workload
<1>3. Condition(c[2]) \notin {"read", "zombie"}
  BY <1>2 DEF DisciplinedPrograms
<1> QED
  BY <1>1, <1>3 DEF Condition

LEMMA SendTarget ==
  ASSUME DisciplinedPrograms, Inv, NEW c \in Calls, Entering(c), c[1] = "send",
         c[2] \in exists, kpc = "user" => Workload(c)
  PROVE  c[2] \in Live
<1>1. Workload(c) /\ Live = exists \ exited
  BY EnteringInv DEF BlockingCalls, Entering
<1>2. Condition(c[2]) # "zombie"
  BY <1>1 DEF Workload, DisciplinedPrograms
<1> QED
  BY <1>1, <1>2 DEF Condition

LEMMA KillRefs ==
  ASSUME DisciplinedPrograms, Inv, RefInv, NEW c \in Calls, syscall_kill(c),
         kpc = "user" => Workload(c)
  PROVE  RefInv'
<1>1. CASE ReturnOnly
  BY <1>1, ReturnOnlyRefs
<1>2. CASE ~ ReturnOnly
  <2>1. /\ Entering(c) /\ c[1] = "kill" /\ c[2] \in exists /\ KillBegin(c[2])
        /\ UNCHANGED <<exists, exited, filedesc, refcount, reading, writing, mailbox>>
    BY <1>2 DEF syscall_kill, procVars, fdVars, pipeVars, mailVars
  <2>2. c[2] \in Live /\ victim = NULL
    BY <2>1, KillTarget, EnteringInv
  <2> QED
    BY <2>1, <2>2, KillBeginRefs
<1> QED
  BY <1>1, <1>2

(* One iteration of the loop drops one reference of the victim.            *)
LEMMA KillCloseRefs == ASSUME Inv, RefInv, KillClose PROVE RefInv'
<1> DEFINE h == filedesc[victim][kfd]
<1>1. CASE Panic
  BY <1>1, PanicRefs
<1>2. CASE ~ Panic
  <2>1. /\ kpc = "close"
        /\ kfd' = kfd + 1
        /\ kpc' = IF kfd + 1 = MAX_FDS THEN "reap" ELSE "close"
        /\ UNCHANGED <<exists, exited, filedesc, mailbox, victim>>
    BY <1>2 DEF KillClose, procVars, mailVars
  <2>2. /\ victim \in Pids \ Live /\ kfd \in FDs
        /\ h \in Handles \cup {NullHandle}
    BY <2>1, StateFacts DEF Inv, TypeInv, TypeOK, ControlOK
  <2>3. Live' = Live
    BY <2>1 DEF Live
  <2>4. kpc' = "reap" => kfd' = MAX_FDS
    BY <2>1
  <2>5. ASSUME NEW x \in Handles
        PROVE  /\ h # x => References(x)' = References(x)
               /\ h = x => Cardinality(References(x)') = Cardinality(References(x)) - 1
    <3>1. References(x)' = RefSet(Live, victim, kfd + 1, filedesc, x)
      BY <2>1, <2>3, ReferencesNext
    <3>2. References(x) = RefSet(Live, victim, kfd, filedesc, x)
      BY ReferencesNow
    <3> QED
      BY <2>2, <3>1, <3>2, StateFacts, DropReference
  <2>6. \A x \in Handles : x # NullHandle /\ refcount[x] \in Nat
    BY StateFacts DEF Handles, PipeHandles, ScreenHandles, NullHandle
  <2>7. CASE h = NullHandle
    <3>1. UNCHANGED <<refcount, reading, writing>>
      BY <1>2, <2>7 DEF KillClose, pipeVars
    <3>2. \A x \in Handles : References(x)' = References(x)
      BY <2>5, <2>6, <2>7
    <3>3. RefcountsExact'
      BY <3>1, <3>2 DEF RefInv, RefcountsExact
    <3> QED
      BY <2>1, <2>4, <3>1, <3>3 DEF RefInv, ResourcesInv
  <2>8. CASE h # NullHandle
    <3>1. h \in Handles /\ close_asserts(h) /\ close_filehandle(h) /\ refcount' = Dropped(h)
      BY <1>2, <2>2, <2>8 DEF KillClose
    <3> HIDE DEF h
    <3>2. refcount[h] \in Nat /\ refcount[h] >= 1
      BY <2>6, <3>1 DEF close_asserts
    <3>3. /\ refcount' \in [Handles -> Nat]
          /\ \A x \in Handles : refcount'[x] = IF x = h THEN refcount[h] - 1 ELSE refcount[x]
      BY <3>1, <3>2, StateFacts DEF Dropped
    <3>4. ASSUME NEW x \in Handles PROVE refcount'[x] = Cardinality(References(x)')
      BY <2>5, <3>3 DEF RefInv, RefcountsExact
    <3>5. /\ \A b \in AllPipes : b \in reading' <=> refcount'[ReaderOf(b)] > 0
          /\ \A b \in Pipes : b \in writing' <=> refcount'[WriterOf(b)] > 0
          /\ StdinPipe \in writing' /\ refcount'[WriterOf(StdinPipe)] = 0
      BY <3>1, <3>2, <3>3, CloseFlags
    <3> QED
      BY <2>1, <2>4, <3>4, <3>5 DEF RefInv, RefcountsExact, ResourcesInv
  <2> QED
    BY <2>7, <2>8
<1> QED
  BY <1>1, <1>2

(* By the end of the loop the victim holds nothing.                        *)
LEMMA KillReapRefs == ASSUME Inv, RefInv, KillReap PROVE RefInv'
<1>1. CASE Panic
  BY <1>1, PanicRefs
<1>2. CASE ~ Panic
  <2>1. /\ kpc = "reap" /\ kfd = MAX_FDS /\ victim \in Pids /\ victim \in exists \ exited
    BY DEF KillReap, RefInv, ResourcesInv, Inv, SchedulerInv, VictimInv, TypeInv, TypeOK
  <2>2. /\ mailbox' = [mailbox EXCEPT ![victim] = IF @ = "null" THEN "null" ELSE "freed"]
        /\ exists' \in {exists, exists \ {victim}} /\ exited' = exited \cup {victim}
        /\ victim' = NULL /\ kfd' = 0 /\ kpc' # "reap"
        /\ UNCHANGED <<filedesc, refcount, reading, writing>>
    BY <1>2 DEF KillReap, Return, fdVars, pipeVars
  <2>3. (exists \ exited)' = Live /\ Live' = Live
    <3>1. (exists \ exited)' = Live
      BY <2>2 DEF Live
    <3>2. NULL \notin Live
      BY LiveFacts, ConstantFacts
    <3>3. Live' = (exists \ exited)' \ {NULL}
      BY <2>2 DEF Live
    <3> QED
      BY <3>1, <3>2, <3>3
  <2>4. ASSUME NEW x \in Handles PROVE References(x)' = References(x)
    <3>1. References(x)' = RefSet(Live, NULL, 0, filedesc, x)
      BY <2>2, <2>3, ReferencesNext
    <3>2. References(x) = RefSet(Live, victim, MAX_FDS, filedesc, x)
      BY <2>1, ReferencesNow
    <3> QED
      BY <2>1, <3>1, <3>2, StateFacts, NoReferencesLeft
  <2>5. RefcountsExact'
    BY <2>2, <2>4 DEF RefInv, RefcountsExact
  <2>6. \A q \in Live : mailbox'[q] # "freed"
    <3>1. \A q \in Live : q # victim /\ q \in Pids /\ q \in exists \ exited
      BY StateFacts DEF Live
    <3> QED
      BY <2>2, <3>1 DEF RefInv, ResourcesInv, Inv, TypeInv, TypeOK
  <2> QED
    BY <2>2, <2>3, <2>5, <2>6 DEF RefInv, ResourcesInv
<1> QED
  BY <1>1, <1>2

-----------------------------------------------------------------------------
(* At boot process 1 holds the reader of standard input and two screens.   *)
LEMMA InitRefs == Init => RefInv
<1> SUFFICES ASSUME Init PROVE RefInv
  OBVIOUS
<1> DEFINE Std == {ReaderOf(StdinPipe), Screen(1), Screen(2)}
<1>1. victim = NULL /\ Live = {1} /\ kpc = "user"
  BY DEF Init, Live, NULL
<1>2. \A fd \in FDs : filedesc[1][fd] = StdHandle(fd)
  BY ConstantFacts DEF Init
<1>3. /\ \A h \in Handles : h # NullHandle
      /\ ReaderOf(StdinPipe) # Screen(1) /\ ReaderOf(StdinPipe) # Screen(2) /\ Screen(1) # Screen(2)
  BY DEF Handles, PipeHandles, ScreenHandles, NullHandle, ReaderOf, Screen
<1>4. ASSUME NEW h \in Handles PROVE refcount[h] = Cardinality(References(h))
  <2>1. refcount[h] = IF h \in Std THEN 1 ELSE 0
    BY DEF Init
  <2>2. References(h) = {pf \in {1} \X FDs : filedesc[pf[1]][pf[2]] = h}
    BY <1>1 DEF References
  <2>3. ASSUME NEW fd \in FDs
        PROVE  filedesc[1][fd] = h <=> \/ fd = 0 /\ h = ReaderOf(StdinPipe)
                                       \/ fd = 1 /\ h = Screen(1)
                                       \/ fd = 2 /\ h = Screen(2)
    <3>1. filedesc[1][fd] = StdHandle(fd) /\ h # NullHandle
      BY <1>2, <1>3
    <3>2. fd > 2 \/ fd = 0 \/ fd = 1 \/ fd = 2
      BY DEF FDs
    <3> QED
      BY <3>1, <3>2 DEF StdHandle
  <2>4. CASE h \in Std
    <3>1. PICK fd \in FDs : \A fe \in FDs : filedesc[1][fe] = h <=> fe = fd
      BY <1>3, <2>3, <2>4, ConstantFacts
    <3>2. References(h) = {<<1, fd>>}
      BY <2>2, <3>1
    <3> QED
      BY <2>1, <2>4, <3>2, FS_Singleton
  <2>5. CASE h \notin Std
    <3>1. References(h) = {}
      BY <2>2, <2>3, <2>5
    <3> QED
      BY <2>1, <2>5, <3>1, FS_EmptySet
  <2> QED
    BY <2>4, <2>5
<1>5. ASSUME NEW b \in AllPipes
      PROVE  /\ refcount[ReaderOf(b)] = IF b = StdinPipe THEN 1 ELSE 0
             /\ refcount[WriterOf(b)] = 0
  <2>1. ReaderOf(b) \in Std <=> b = StdinPipe
    BY DEF ReaderOf, Screen
  <2>2. WriterOf(b) \notin Std
    BY DEF ReaderOf, WriterOf, Screen
  <2> QED
    BY <2>1, <2>2, EndsAreHandles DEF Init
<1>6. RefcountsExact
  <2>1. reading = {StdinPipe} /\ writing = {StdinPipe}
    BY DEF Init
  <2>2. \A b \in AllPipes : b \in reading <=> refcount[ReaderOf(b)] > 0
    BY <1>5, <2>1
  <2>3. \A b \in Pipes : b \in AllPipes /\ b # StdinPipe
    BY KernelAssumption DEF AllPipes
  <2>4. \A b \in Pipes : b \in writing <=> refcount[WriterOf(b)] > 0
    BY <1>5, <2>1, <2>3
  <2> QED
    BY <1>4, <2>2, <2>4 DEF RefcountsExact
<1>7. ResourcesInv
  BY <1>1, <1>5, ConstantFacts DEF Init, ResourcesInv, AllPipes
<1> QED
  BY <1>6, <1>7 DEF RefInv

LEMMA SyscallRefs ==
  ASSUME DisciplinedPrograms, Inv, RefInv, NEW c \in Calls, syscall(c), kpc = "user" => Workload(c)
  PROVE  RefInv'
<1>1. CASE syscall_getpid(c) \/ InvalidArgument(c)
  BY <1>1, ReturnOnlyRefs DEF syscall_getpid, InvalidArgument
<1>2. CASE syscall_halt(c)
  BY <1>2, StopRefs DEF syscall_halt
<1> QED
  BY <1>1, <1>2, ExitRefs, WriteRefs, ReadRefs, SendRefs, ReceiveRefs, CloseRefs, PipeRefs, Dup2Refs,
     ForkRefs, WaitpidRefs, KillRefs DEF syscall

LEMMA NextRefs ==
  ASSUME DisciplinedPrograms, Inv, RefInv, [Next]_vars
  PROVE  RefInv'
<1>1. CASE timer_handler \/ SwitchAway
  BY <1>1, SwitchRefs DEF timer_handler, SwitchAway
<1>2. CASE UserCall \/ RestartCall
  BY <1>2, SyscallRefs DEF UserCall, RestartCall
<1>3. CASE other_exception
  BY <1>3, StopRefs DEF other_exception
<1>4. CASE UNCHANGED vars
  BY <1>4 DEF vars, procVars, fdVars, pipeVars, mailVars, killVars, RefInv, RefcountsExact,
              ResourcesInv, References, Live
<1> QED
  BY <1>1, <1>2, <1>3, <1>4, KeyboardRefs, FaultRefs, KillCloseRefs, KillReapRefs DEF Next, Stopped

(* Only a message to or from, or the death of, a process touches the       *)
(* storage of its mailbox, and only death its page tables; the process is  *)
(* alive each time.                                                        *)
LEMMA NextHeap ==
  ASSUME DisciplinedPrograms, Inv, RefInv, NoHeapFault, [Next]_vars
  PROVE  NoHeapFault'
<1> USE DEF NoHeapFault
<1>1. CASE UNCHANGED heap_fault
  BY <1>1
<1>2. CASE KillReap
  <2>1. mailbox[victim] # "freed"
    BY <1>2 DEF KillReap, RefInv, ResourcesInv, Inv, SchedulerInv, VictimInv
  <2> QED
    BY <1>2, <2>1 DEF KillReap, Panic, killVars
<1>3. CASE page_fault
  <2>1. current_process \notin exited
    BY <1>3 DEF page_fault, Inv, SchedulerInv, RunsLiveProcess, Live
  <2> QED
    BY <1>3, <2>1 DEF page_fault, KillBegin
<1>4. ASSUME NEW c \in Calls, syscall(c), kpc = "user" => Workload(c)
      PROVE  ~ heap_fault'
  <2>1. CASE syscall_exit(c)
    <3>1. current_process \notin exited
      BY <2>1, EnteringInv DEF syscall_exit, Live
    <3> QED
      BY <2>1, <3>1 DEF syscall_exit, KillBegin
  <2>2. CASE syscall_kill(c)
    <3>1. c[2] \in exists => c[2] \notin exited
      BY <1>4, <2>2, KillTarget DEF syscall_kill, Live
    <3> QED
      BY <2>2, <3>1 DEF syscall_kill, KillBegin, ReturnOnly, killVars
  <2>3. CASE syscall_send(c)
    <3>1. c[2] \in exists => mailbox[c[2]] # "freed"
      BY <1>4, <2>3, SendTarget DEF syscall_send, Live, RefInv, ResourcesInv
    <3> QED
      BY <2>3, <3>1 DEF syscall_send, ReturnOnly, Panic, killVars
  <2>4. CASE syscall_receive(c)
    <3>1. mailbox[current_process] # "freed"
      BY <2>4, EnteringInv DEF syscall_receive, Live, RefInv, ResourcesInv
    <3> QED
      BY <2>4, <3>1 DEF syscall_receive, ReturnOnly, Panic, killVars
  <2>5. CASE ~ (syscall_exit(c) \/ syscall_kill(c) \/ syscall_send(c) \/ syscall_receive(c))
    <3>1. UNCHANGED heap_fault
      BY <1>4, <2>5 DEF syscall, syscall_getpid, syscall_write, syscall_read, pipe_reader_read,
         syscall_close, syscall_pipe, syscall_dup2, syscall_fork, syscall_waitpid, syscall_halt,
         InvalidArgument, ReturnOnly, Panic, killVars
    <3> QED
      BY <3>1
  <2> QED
    BY <2>1, <2>2, <2>3, <2>4, <2>5
<1>5. CASE UserCall \/ RestartCall
  BY <1>4, <1>5 DEF UserCall, RestartCall
<1>6. CASE ~ (KillReap \/ page_fault \/ UserCall \/ RestartCall)
  <2>1. UNCHANGED heap_fault
    BY <1>6 DEF Next, timer_handler, SwitchAway, context_switch, keyboard_handler, other_exception,
       KillClose, Stopped, Panic, killVars, vars
  <2> QED
    BY <1>1, <2>1
<1> QED
  BY <1>2, <1>3, <1>5, <1>6

-----------------------------------------------------------------------------
(* Through dup2, fork, close, exit, kill and faults, in any order and with *)
(* any number of processes, descriptors and pipes, a handle is destroyed   *)
(* exactly when the last descriptor that refers to it is gone, and a pipe  *)
(* is at its end of file, or may be reused, exactly when it should be.     *)
THEOREM RefcountsCorrect ==
  ASSUME DisciplinedPrograms
  PROVE  Spec => []RefcountsExact
<1>1. Init => Inv /\ RefInv
  BY InitType, InitInv, InitRefs DEF Inv
<1>2. Inv /\ RefInv /\ [Next]_vars => (Inv /\ RefInv)'
  BY NextType, NextInv, NextRefs DEF Inv
<1>3. RefInv => RefcountsExact
  BY DEF RefInv
<1> QED
  BY <1>1, <1>2, <1>3, PTL DEF Spec

(* The kernel never uses or frees a mailbox or a page table that           *)
(* kill_process has freed.                                                 *)
THEOREM NoUseAfterFree ==
  ASSUME DisciplinedPrograms
  PROVE  Spec => []NoHeapFault
<1>1. Init => Inv /\ RefInv /\ NoHeapFault
  <2>1. Init => NoHeapFault
    BY DEF Init, NoHeapFault
  <2> QED
    BY <2>1, InitType, InitInv, InitRefs DEF Inv
<1>2. Inv /\ RefInv /\ NoHeapFault /\ [Next]_vars => (Inv /\ RefInv /\ NoHeapFault)'
  BY NextType, NextInv, NextRefs, NextHeap DEF Inv
<1> QED
  BY <1>1, <1>2, PTL DEF Spec

-----------------------------------------------------------------------------
(***************************************************************************)
(* No wakeup is lost or goes astray and no assert of the kernel fails:     *)
(* NoLostWakeup, NoStaleWaiter and NoPanic.                                *)
(***************************************************************************)
WakeInv == NoLostWakeup /\ NoStaleWaiter /\ ResumedInv

Waits(p) == WaitsForData(p) \/ WaitsForMessage(p) \/ WaitsForChild(p)

-----------------------------------------------------------------------------
(* A reader waits on one pipe, which it is registered with.                *)
LEMMA ReadsOnePipe ==
  ASSUME Inv, WakeInv, NEW b \in AllPipes, readpid[b] # NONE
  PROVE  /\ readpid[b] \in Live \ ready /\ readpid[b] \in Pids
         /\ in_syscall[readpid[b]][1] = "read" /\ in_syscall[readpid[b]][2] \in FDs
         /\ filedesc[readpid[b]][in_syscall[readpid[b]][2]] = ReaderOf(b)
         /\ len[b] = 0 /\ b \in writing
<1> DEFINE p == readpid[b]
           h == filedesc[p][in_syscall[p][2]]
<1>1. p \in Live \ ready /\ WaitsForData(p)
  BY DEF WakeInv, NoStaleWaiter
<1>2. p \in Pids /\ in_syscall[p][1] = "read" /\ in_syscall[p][2] \in FDs
  BY <1>1, LiveFacts DEF WaitsForData, WakeInv, ResumedInv
<1>3. h.type = "reader" /\ readpid[h.p] = p /\ len[h.p] = 0 /\ h.p \in writing
  BY <1>1 DEF WaitsForData
<1>4. h \in Handles \cup {NullHandle}
  BY <1>2 DEF Inv, TypeInv, TypeOK
<1>5. h \in Handles
  BY <1>3, <1>4 DEF NullHandle
<1>6. h.p \in AllPipes
  BY <1>3, <1>5, HandleFacts
<1> HIDE DEF h
<1>7. h.p = b
  BY <1>3, <1>6 DEF Inv, SchedulerInv, WaitersInv
<1>8. ReaderOf(b) = h
  BY <1>3, <1>5, <1>7, WhichEnd
<1> QED
  BY <1>1, <1>2, <1>3, <1>7, <1>8 DEF h

(* A process suspended in a read is registered with its pipe.              *)
LEMMA RegisteredReader ==
  ASSUME Inv, WakeInv, NEW p \in Live \ ready, WaitsForData(p)
  PROVE  \E b \in AllPipes :
           readpid[b] = p /\ filedesc[p][in_syscall[p][2]] = ReaderOf(b) /\ len[b] = 0 /\ b \in writing
<1> DEFINE h == filedesc[p][in_syscall[p][2]]
<1>1. p \in Pids /\ in_syscall[p][2] \in FDs
  BY LiveFacts DEF WaitsForData, WakeInv, ResumedInv
<1>2. h.type = "reader" /\ readpid[h.p] = p /\ len[h.p] = 0 /\ h.p \in writing
  BY DEF WaitsForData
<1>3. h \in Handles \cup {NullHandle}
  BY <1>1 DEF Inv, TypeInv, TypeOK
<1>4. h \in Handles
  BY <1>2, <1>3 DEF NullHandle
<1>5. h.p \in AllPipes
  BY <1>2, <1>4, HandleFacts
<1> HIDE DEF h
<1>6. ReaderOf(h.p) = h
  BY <1>2, <1>4, <1>5, WhichEnd
<1> QED
  BY <1>2, <1>5, <1>6 DEF h

-----------------------------------------------------------------------------
(* What a step may do to those who wait. N are the processes it suspends.  *)

(* A process that stays suspended keeps its call and what the call is      *)
(* about.                                                                  *)
StaysSuspended(p) ==
  /\ p \in Live \ ready
  /\ in_syscall'[p] = in_syscall[p] /\ filedesc'[p] = filedesc[p]
  /\ waiting_on'[p] = waiting_on[p]
  /\ p \in receive_blocked => p \in receive_blocked' /\ mailbox_size'[p] = mailbox_size[p]
  /\ WaitsForChild(p) => /\ waiting_on[p] \in exists' \ exited'
                         /\ parent_pid'[waiting_on[p]] = p

(* A registered reader stays registered with an empty pipe that can still  *)
(* be written to, unless it is resumed.                                    *)
StaysRegistered(b) ==
  /\ readpid[b] # NONE /\ readpid[b] \in Live' \ ready' => readpid'[b] = readpid[b]
  /\ readpid'[b] # NONE =>
       /\ readpid'[b] = readpid[b] /\ readpid[b] \in Live' \ ready'
       /\ len'[b] = len[b] /\ (b \in writing => b \in writing')

LEMMA StillWaits ==
  ASSUME Inv, WakeInv, NEW p \in Live' \ ready', StaysSuspended(p),
         \A b \in AllPipes : readpid[b] = p => StaysRegistered(b)
  PROVE  /\ WaitsForData(p) => WaitsForData(p)'
         /\ WaitsForMessage(p) => WaitsForMessage(p)'
         /\ WaitsForChild(p) => WaitsForChild(p)'
<1>0. p \in Live \ ready /\ p \in Pids /\ p # NONE
  BY LiveFacts, ConstantFacts DEF StaysSuspended
<1>1. ASSUME WaitsForData(p) PROVE WaitsForData(p)'
  <2>1. PICK b \in AllPipes : /\ readpid[b] = p /\ filedesc[p][in_syscall[p][2]] = ReaderOf(b)
                              /\ len[b] = 0 /\ b \in writing
    BY <1>0, <1>1, RegisteredReader
  <2>2. readpid'[b] = p /\ len'[b] = 0 /\ b \in writing'
    BY <1>0, <2>1 DEF StaysRegistered
  <2>3. filedesc'[p][in_syscall'[p][2]] = ReaderOf(b) /\ in_syscall'[p][1] = "read"
    BY <1>1, <2>1 DEF StaysSuspended, WaitsForData
  <2>4. ReaderOf(b).type = "reader" /\ ReaderOf(b).p = b
    BY DEF ReaderOf
  <2> QED
    BY <2>2, <2>3, <2>4 DEF WaitsForData
<1>2. ASSUME WaitsForMessage(p) PROVE WaitsForMessage(p)'
  BY <1>2 DEF StaysSuspended, WaitsForMessage
<1>3. ASSUME WaitsForChild(p) PROVE WaitsForChild(p)'
  BY <1>3 DEF StaysSuspended, WaitsForChild
<1> QED
  BY <1>1, <1>2, <1>3

LEMMA WakeFrame ==
  ASSUME Inv, WakeInv, NEW N \in SUBSET (Live' \ ready'),
         \A p \in (Live' \ ready') \ N : StaysSuspended(p),
         \A p \in N : Waits(p)' /\ (in_syscall'[p][1] = "read" => in_syscall'[p][2] \in FDs),
         \A b \in AllPipes : \/ StaysRegistered(b)
                             \/ readpid[b] = NONE /\ readpid'[b] \in N /\ WaitsForData(readpid[b])',
         \A p \in Live' \cap receive_blocked' :
           p \notin ready' /\ (p \in receive_blocked \/ (p \in N /\ WaitsForMessage(p)')),
         \A p \in Live' \cap ready' : in_syscall'[p][1] = "waitpid" => waiting_on'[p] = NONE,
         \A p \in N : p \notin receive_blocked /\ \A b \in AllPipes : readpid[b] # p
  PROVE  WakeInv'
<1>1. \A p \in (Live' \ ready') \ N : p # NONE
  BY LiveFacts, ConstantFacts DEF StaysSuspended
<1>2. ASSUME NEW p \in (Live' \ ready') \ N
      PROVE  /\ WaitsForData(p) => WaitsForData(p)'
             /\ WaitsForMessage(p) => WaitsForMessage(p)'
             /\ WaitsForChild(p) => WaitsForChild(p)'
  BY <1>1, StillWaits
<1>3. NoLostWakeup'
  <2>1. ASSUME NEW p \in Live' \ ready' PROVE Waits(p)'
    <3>1. CASE p \in N
      BY <3>1
    <3>2. CASE p \notin N
      <4>1. Waits(p)
        BY <3>2 DEF StaysSuspended, WakeInv, NoLostWakeup, Waits
      <4> QED
        BY <1>2, <3>2, <4>1 DEF Waits
    <3> QED
      BY <3>1, <3>2
  <2> QED
    BY <2>1 DEF NoLostWakeup, Waits
<1>4. ASSUME NEW b \in AllPipes, readpid'[b] # NONE
      PROVE  readpid'[b] \in Live' \ ready' /\ WaitsForData(readpid[b])'
  <2>1. CASE StaysRegistered(b)
    <3>1. readpid'[b] = readpid[b] /\ readpid[b] \in Live' \ ready' /\ readpid[b] # NONE
      BY <1>4, <2>1 DEF StaysRegistered
    <3>2. readpid[b] \notin N
      OBVIOUS
    <3>3. WaitsForData(readpid[b])
      BY <3>1 DEF WakeInv, NoStaleWaiter
    <3>4. ASSUME NEW p, p = readpid[b] PROVE WaitsForData(p)'
      BY <1>2, <3>1, <3>2, <3>3, <3>4
    <3> QED
      BY <3>1, <3>4 DEF WaitsForData
  <2>2. CASE ~ StaysRegistered(b)
    BY <2>2
  <2> QED
    BY <2>1, <2>2
<1>5. ASSUME NEW p \in Live' \cap receive_blocked'
      PROVE  p \notin ready' /\ WaitsForMessage(p)'
  <2>1. CASE p \in N
    BY <2>1
  <2>2. CASE p \notin N
    <3>1. WaitsForMessage(p)
      BY <2>2 DEF WakeInv, NoStaleWaiter, StaysSuspended
    <3> QED
      BY <1>2, <2>2, <3>1
  <2> QED
    BY <2>1, <2>2
<1>6. NoStaleWaiter'
  BY <1>4, <1>5 DEF NoStaleWaiter
<1>7. ResumedInv'
  BY DEF ResumedInv, StaysSuspended, WakeInv
<1> QED
  BY <1>3, <1>6, <1>7 DEF WakeInv
(* The same for a step that suspends nobody.                               *)
LEMMA NobodySuspended ==
  ASSUME Inv, WakeInv,
         \A p \in Live' \ ready' : StaysSuspended(p),
         \A b \in AllPipes : StaysRegistered(b),
         \A p \in Live' \cap receive_blocked' : p \notin ready' /\ p \in receive_blocked,
         \A p \in Live' \cap ready' : in_syscall'[p][1] = "waitpid" => waiting_on'[p] = NONE
  PROVE  WakeInv'
<1> DEFINE N == {}
<1>1. N \in SUBSET (Live' \ ready') /\ \A p : p \notin N
  OBVIOUS
<1> HIDE DEF N
<1> QED
  BY <1>1, WakeFrame

-----------------------------------------------------------------------------
(* Who is resumed when a pipe gets data or loses its last writer.          *)
OnlyReadersWake ==
  /\ \A b \in AllPipes : StaysRegistered(b)
  /\ ready \subseteq ready'
  /\ \A p \in Live \cap ready' : p \in ready \/ in_syscall[p][1] = "read"

LEMMA NobodyWakes ==
  ASSUME Inv, WakeInv, Live' = Live, UNCHANGED <<ready, readpid>>,
         \A x \in AllPipes : readpid[x] # NONE => len'[x] = len[x] /\ (x \in writing => x \in writing')
  PROVE  OnlyReadersWake
BY DEF OnlyReadersWake, StaysRegistered, WakeInv, NoStaleWaiter

LEMMA WakeReader ==
  ASSUME Inv, WakeInv, NEW b \in AllPipes, wake_up_reader(b), Live' = Live,
         \A x \in AllPipes : x # b => len'[x] = len[x] /\ (x \in writing => x \in writing')
  PROVE  OnlyReadersWake
<1>1. CASE readpid[b] = NONE
  BY <1>1, NobodyWakes DEF wake_up_reader
<1>2. CASE readpid[b] # NONE
  <2>1. /\ ready' = ready \cup {readpid[b]}
        /\ readpid' = [readpid EXCEPT ![b] = NONE]
    BY <1>2 DEF wake_up_reader, resume_process
  <2>2. \A x \in AllPipes : readpid'[x] = IF x = b THEN NONE ELSE readpid[x]
    BY <2>1 DEF Inv, TypeInv, TypeOK
  <2>3. in_syscall[readpid[b]][1] = "read"
    BY <1>2, ReadsOnePipe
  <2>4. \A x \in AllPipes : readpid[x] # NONE /\ x # b => readpid[x] # readpid[b]
    BY DEF Inv, SchedulerInv, WaitersInv
  <2>5. ASSUME NEW x \in AllPipes PROVE StaysRegistered(x)
    <3>1. CASE x = b
      BY <1>2, <2>1, <2>2, <3>1 DEF StaysRegistered
    <3>2. CASE x # b
      BY <1>2, <2>1, <2>2, <2>4, <3>2, ReadsOnePipe DEF StaysRegistered
    <3> QED
      BY <3>1, <3>2
  <2> QED
    BY <2>1, <2>3, <2>5 DEF OnlyReadersWake
<1> QED
  BY <1>1, <1>2

LEMMA CloseWakes ==
  ASSUME Inv, WakeInv, NEW h \in Handles, close_filehandle(h), Live' = Live
  PROVE  OnlyReadersWake
<1>1. CASE refcount[h] = 1 /\ h.type = "writer"
  <2>1. /\ h.p \in AllPipes /\ wake_up_reader(h.p)
        /\ writing' = writing \ {h.p} /\ UNCHANGED len
    BY <1>1, HandleFacts DEF close_filehandle
  <2> QED
    BY <2>1, WakeReader
<1>2. CASE ~ (refcount[h] = 1 /\ h.type = "writer")
  <2>1. UNCHANGED <<ready, readpid, len, writing>>
    BY <1>2 DEF close_filehandle
  <2> QED
    BY <2>1, NobodyWakes
<1> QED
  BY <1>1, <1>2

-----------------------------------------------------------------------------
(* A call that returns to its caller, which was not suspended.             *)
LEMMA ReturnWakes ==
  ASSUME Inv, WakeInv, NEW c \in Calls, Entering(c), Return,
         (exists \ exited)' = exists \ exited, UNCHANGED <<parent_pid, victim>>,
         \A p \in Pids \ {current_process} :
           filedesc'[p] = filedesc[p] /\ waiting_on'[p] = waiting_on[p],
         \A b \in AllPipes : StaysRegistered(b),
         ready \subseteq ready',
         \A p \in Live \cap ready' : p \in ready \/ in_syscall[p][1] # "waitpid",
         receive_blocked' \subseteq receive_blocked,
         \A p \in Live \cap receive_blocked : p \in receive_blocked' <=> p \notin ready',
         \A p \in (Live \cap receive_blocked) \ ready' : mailbox_size'[p] = mailbox_size[p]
  PROVE  WakeInv'
<1>1. Live' = Live /\ Live \subseteq Pids
  BY LiveFacts DEF Live
<1>2. current_process \in Live \cap ready
  BY EnteringInv
<1>3. \A p \in Pids : in_syscall'[p] = IF p = current_process THEN NoCall ELSE in_syscall[p]
  BY DEF Return, Inv, TypeInv, TypeOK
<1>4. NoCall[1] = "none"
  BY DEF NoCall
<1>5. ASSUME NEW p \in Live' \ ready' PROVE StaysSuspended(p)
  <2>1. p \in Live \ ready /\ p \in Pids /\ p # current_process
    BY <1>1, <1>2
  <2>2. WaitsForChild(p) => /\ waiting_on[p] \in exists' \ exited'
                            /\ parent_pid'[waiting_on[p]] = p
    BY DEF WaitsForChild
  <2> QED
    BY <1>1, <1>3, <2>1, <2>2 DEF StaysSuspended
<1>6. ASSUME NEW p \in Live' \cap ready', in_syscall'[p][1] = "waitpid"
      PROVE  waiting_on'[p] = NONE
  <2>1. p \in Live /\ p # current_process /\ p \in Pids /\ in_syscall[p][1] = "waitpid"
    BY <1>1, <1>3, <1>4, <1>6
  <2>2. p \in ready
    BY <1>6, <2>1
  <2> QED
    BY <2>1, <2>2 DEF WakeInv, ResumedInv
<1>7. \A p \in Live' \cap receive_blocked' : p \notin ready' /\ p \in receive_blocked
  BY <1>1
<1> QED
  BY <1>5, <1>6, <1>7, NobodySuspended

(* A call that returns and changes no process but its caller.              *)
LEMMA CallerWakes ==
  ASSUME Inv, WakeInv, NEW c \in Calls, Entering(c), Return,
         UNCHANGED <<exists, exited, parent_pid, waiting_on, victim, receive_blocked>>,
         \A p \in Pids \ {current_process} :
           filedesc'[p] = filedesc[p] /\ mailbox_size'[p] = mailbox_size[p],
         OnlyReadersWake
  PROVE  WakeInv'
<1>1. current_process \in Live \cap ready
  BY EnteringInv
<1>2. \A p \in Live \cap receive_blocked :
        p \notin ready /\ in_syscall[p][1] = "receive" /\ p \in Pids
  BY LiveFacts DEF Inv, SchedulerInv, WaitersInv
<1>3. \A p \in Live \cap receive_blocked : p \notin ready' /\ p # current_process
  BY <1>1, <1>2 DEF OnlyReadersWake
<1>4. \A p \in (Live \cap receive_blocked) \ ready' : mailbox_size'[p] = mailbox_size[p]
  BY <1>2, <1>3
<1> QED
  BY <1>3, <1>4, ReturnWakes DEF OnlyReadersWake

LEMMA ReturnOnlyWakes ==
  ASSUME Inv, WakeInv, NEW c \in Calls, Entering(c), ReturnOnly
  PROVE  WakeInv'
<1>1. /\ Return
      /\ UNCHANGED <<exists, exited, parent_pid, waiting_on, ready, readpid, len, writing, filedesc,
                     receive_blocked, mailbox_size, victim>>
  BY DEF ReturnOnly, procVars, schedVars, fdVars, pipeVars, mailVars, killVars
<1>2. OnlyReadersWake
  BY <1>1, NobodyWakes DEF Live
<1> QED
  BY <1>1, <1>2, CallerWakes

(* A step that leaves everyone as they were.                               *)
LEMMA CalmStep ==
  ASSUME Inv, WakeInv,
         UNCHANGED <<exists, exited, parent_pid, waiting_on, ready, readpid, len, writing, filedesc,
                     receive_blocked, mailbox_size, victim, in_syscall>>
  PROVE  WakeInv'
<1>1. NoLostWakeup'
  BY DEF WakeInv, NoLostWakeup, WaitsForData, WaitsForMessage, WaitsForChild, Live
<1>2. NoStaleWaiter'
  BY DEF WakeInv, NoStaleWaiter, WaitsForData, WaitsForMessage, WaitsForChild, Live
<1>3. ResumedInv'
  BY DEF WakeInv, ResumedInv, WaitsForData, WaitsForMessage, WaitsForChild, Live
<1> QED
  BY <1>1, <1>2, <1>3 DEF WakeInv

LEMMA StopWakes ==
  ASSUME Inv, WakeInv,
         UNCHANGED <<procVars, schedVars, fdVars, pipeVars, mailVars, killVars, in_syscall>>
  PROVE  WakeInv'
BY CalmStep DEF procVars, schedVars, fdVars, pipeVars, mailVars, killVars

LEMMA PanicWakes == ASSUME Inv, WakeInv, Panic PROVE WakeInv'
BY StopWakes DEF Panic

LEMMA SwitchWakes == ASSUME Inv, WakeInv, context_switch PROVE WakeInv'
BY CalmStep DEF context_switch, procVars, fdVars, pipeVars, mailVars, killVars

-----------------------------------------------------------------------------
(* The calls and interrupts that resume readers.                           *)

LEMMA KeyboardWakes == ASSUME Inv, WakeInv, keyboard_handler PROVE WakeInv'
<1>1. CASE Panic
  BY <1>1, PanicWakes
<1>2. CASE ~ Panic
  <2>1. /\ wake_up_reader(StdinPipe) /\ StdinPipe \in AllPipes
        /\ len' = [len EXCEPT ![StdinPipe] = @ + 1]
        /\ UNCHANGED <<exists, exited, parent_pid, waiting_on, filedesc, in_syscall, victim,
                       writing, receive_blocked, mailbox_size>>
    BY <1>2 DEF keyboard_handler, write_to_pipe, procVars, fdVars, mailVars, killVars, AllPipes
  <2>2. Live' = Live
    BY <2>1 DEF Live
  <2>3. \A x \in AllPipes : x # StdinPipe => len'[x] = len[x]
    BY <2>1 DEF Inv, TypeInv, TypeOK
  <2>4. OnlyReadersWake
    BY <2>1, <2>2, <2>3, WakeReader
  <2>5. ASSUME NEW p \in Live' \ ready' PROVE StaysSuspended(p)
    BY <2>1, <2>2, <2>4 DEF OnlyReadersWake, StaysSuspended, WaitsForChild
  <2>6. \A p \in Live' \cap receive_blocked' : p \notin ready' /\ p \in receive_blocked
    BY <2>1, <2>2, <2>4 DEF OnlyReadersWake, Inv, SchedulerInv, WaitersInv
  <2>7. \A p \in Live' \cap ready' : in_syscall'[p][1] = "waitpid" => waiting_on'[p] = NONE
    BY <2>1, <2>2, <2>4 DEF OnlyReadersWake, WakeInv, ResumedInv
  <2> QED
    BY <2>4, <2>5, <2>6, <2>7, NobodySuspended DEF OnlyReadersWake
<1> QED
  BY <1>1, <1>2

LEMMA WriteWakes == ASSUME Inv, WakeInv, NEW c \in Calls, syscall_write(c) PROVE WakeInv'
<1> DEFINE h == HandleAt(c[2])
<1>0. Entering(c)
  BY DEF syscall_write
<1>1. CASE Panic \/ ReturnOnly
  BY <1>0, <1>1, PanicWakes, ReturnOnlyWakes
<1>2. CASE ~ (Panic \/ ReturnOnly)
  <2>1. /\ h.type = "writer" /\ wake_up_reader(h.p) /\ Return
        /\ len' = [len EXCEPT ![h.p] = @ + c[3]]
        /\ UNCHANGED <<exists, exited, parent_pid, waiting_on, filedesc, victim,
                       writing, receive_blocked, mailbox_size>>
    BY <1>2 DEF syscall_write, write_to_pipe, procVars, fdVars, mailVars, killVars
  <2>2. h.p \in AllPipes
    BY <1>0, <2>1, EnteringType, PipeEndType DEF Inv, TypeInv
  <2>3. \A x \in AllPipes : x # h.p => len'[x] = len[x]
    BY <2>1 DEF Inv, TypeInv, TypeOK
  <2>4. OnlyReadersWake
    BY <2>1, <2>2, <2>3, WakeReader DEF Live
  <2> QED
    BY <1>0, <2>1, <2>4, CallerWakes
<1> QED
  BY <1>1, <1>2

LEMMA CloseCallWakes == ASSUME Inv, WakeInv, NEW c \in Calls, syscall_close(c) PROVE WakeInv'
<1> DEFINE h == HandleAt(c[2])
<1>0. Entering(c)
  BY DEF syscall_close
<1>1. CASE Panic \/ ReturnOnly
  BY <1>0, <1>1, PanicWakes, ReturnOnlyWakes
<1>2. CASE ~ (Panic \/ ReturnOnly)
  <2>1. /\ h # NullHandle /\ close_filehandle(h) /\ Return
        /\ filedesc' = [filedesc EXCEPT ![current_process][c[2]] = NullHandle]
        /\ UNCHANGED <<exists, exited, parent_pid, waiting_on, victim, receive_blocked, mailbox_size>>
    BY <1>2 DEF syscall_close, procVars, mailVars, killVars
  <2>2. h \in Handles
    BY <1>0, <2>1, EnteringType, HandleAtType DEF Inv, TypeInv
  <2>3. OnlyReadersWake
    BY <2>1, <2>2, CloseWakes DEF Live
  <2>4. \A p \in Pids \ {current_process} : filedesc'[p] = filedesc[p]
    BY <2>1 DEF Inv, TypeInv, TypeOK
  <2> QED
    BY <1>0, <2>1, <2>3, <2>4, CallerWakes
<1> QED
  BY <1>1, <1>2

LEMMA Dup2Wakes == ASSUME Inv, WakeInv, NEW c \in Calls, syscall_dup2(c) PROVE WakeInv'
<1> DEFINE h == HandleAt(c[2])
           old == HandleAt(c[3])
<1>0. Entering(c)
  BY DEF syscall_dup2
<1>1. CASE Panic \/ ReturnOnly
  BY <1>0, <1>1, PanicWakes, ReturnOnlyWakes
<1>2. CASE ~ (Panic \/ ReturnOnly)
  <2>1. /\ Return
        /\ filedesc' = [filedesc EXCEPT ![current_process][c[3]] = h]
        /\ UNCHANGED <<exists, exited, parent_pid, waiting_on, victim, receive_blocked, mailbox_size>>
        /\ \/ UNCHANGED <<ready, readpid, len, writing>>
           \/ old # NullHandle /\ close_filehandle(old)
    BY <1>2 DEF syscall_dup2, procVars, schedVars, pipeVars, mailVars, killVars
  <2>2. old # NullHandle => old \in Handles
    BY <1>0, EnteringType, HandleAtType DEF Inv, TypeInv
  <2>3. OnlyReadersWake
    BY <2>1, <2>2, CloseWakes, NobodyWakes DEF Live
  <2>4. \A p \in Pids \ {current_process} : filedesc'[p] = filedesc[p]
    BY <2>1 DEF Inv, TypeInv, TypeOK
  <2> QED
    BY <1>0, <2>1, <2>3, <2>4, CallerWakes
<1> QED
  BY <1>1, <1>2

(* A pipe that is handed out has no writer, so nobody waits for its data.  *)
LEMMA PipeWakes == ASSUME Inv, WakeInv, NEW c \in Calls, syscall_pipe(c) PROVE WakeInv'
<1>0. Entering(c)
  BY DEF syscall_pipe
<1>1. CASE Panic \/ ReturnOnly
  BY <1>0, <1>1, PanicWakes, ReturnOnlyWakes
<1>2. CASE ~ (Panic \/ ReturnOnly)
  <2>1. PICK r \in FDs, w \in FDs, b \in Pipes \ (reading \cup writing) :
          /\ new_pipe(b, r, w) /\ Return
          /\ UNCHANGED <<exists, exited, parent_pid, waiting_on, victim, ready, receive_blocked,
                         mailbox_size>>
    BY <1>2 DEF syscall_pipe, procVars, schedVars, mailVars, killVars
  <2>2. b \in AllPipes /\ readpid[b] = NONE
    BY ReadsOnePipe DEF AllPipes
  <2>3. /\ readpid' = readpid /\ writing \subseteq writing'
        /\ \A x \in AllPipes : x # b => len'[x] = len[x]
    BY <2>1, <2>2 DEF new_pipe, Inv, TypeInv, TypeOK
  <2>4. OnlyReadersWake
    BY <2>1, <2>2, <2>3, NobodyWakes DEF Live
  <2>5. \A p \in Pids \ {current_process} : filedesc'[p] = filedesc[p]
    BY <2>1 DEF new_pipe, Inv, TypeInv, TypeOK
  <2> QED
    BY <1>0, <2>1, <2>4, <2>5, CallerWakes
<1> QED
  BY <1>1, <1>2

(* The destination of a message is resumed if it waits for one.            *)
LEMMA SendWakes ==
  ASSUME DisciplinedPrograms, Inv, WakeInv, NEW c \in Calls, syscall_send(c),
         kpc = "user" => Workload(c)
  PROVE  WakeInv'
<1> DEFINE dest == c[2]
<1>0. Entering(c) /\ c[1] = "send"
  BY DEF syscall_send
<1>1. CASE Panic \/ ReturnOnly
  BY <1>0, <1>1, PanicWakes, ReturnOnlyWakes
<1>2. CASE ~ (Panic \/ ReturnOnly)
  <2>1. /\ dest \in exists /\ Return
        /\ receive_blocked' = receive_blocked \ {dest}
        /\ ready' = IF dest \in receive_blocked THEN ready \cup {dest} ELSE ready
        /\ mailbox_size' = [mailbox_size EXCEPT ![dest] =
                              IF mailbox[dest] = "null" THEN 1 ELSE @ + 1]
        /\ UNCHANGED <<exists, exited, parent_pid, waiting_on, victim, filedesc, readpid, len,
                       writing>>
    BY <1>2 DEF syscall_send, BlockedAfter, resume_process, procVars, fdVars, pipeVars
  <2>2. dest \in Live
    BY <1>0, <2>1, SendTarget
  <2>3. \A p \in Live \cap receive_blocked :
          p \notin ready /\ in_syscall[p][1] = "receive" /\ p \in Pids
    BY LiveFacts DEF Inv, SchedulerInv, WaitersInv
  <2>4. \A p \in Pids : p # dest => mailbox_size'[p] = mailbox_size[p]
    BY <2>1 DEF Inv, TypeInv, TypeOK
  <2>5. ASSUME NEW b \in AllPipes PROVE StaysRegistered(b)
    <3>1. readpid[b] # NONE => readpid[b] \in Live \ ready /\ in_syscall[readpid[b]][1] = "read"
      BY DEF Inv, SchedulerInv, WaitersInv
    <3> QED
      BY <2>1, <2>2, <2>3, <3>1 DEF StaysRegistered, Live
  <2>6. (exists \ exited)' = exists \ exited /\ ready \subseteq ready'
    BY <2>1
  <2>7. \A p \in Live \cap ready' : p \in ready \/ in_syscall[p][1] # "waitpid"
    BY <2>1, <2>2, <2>3
  <2>8. \A p \in Live \cap receive_blocked : p \in receive_blocked' <=> p \notin ready'
    BY <2>1, <2>3
  <2>9. \A p \in (Live \cap receive_blocked) \ ready' : mailbox_size'[p] = mailbox_size[p]
    BY <2>1, <2>3, <2>4
  <2>10. receive_blocked' \subseteq receive_blocked
    BY <2>1
  <2> QED
    BY <1>0, <2>1, <2>5, <2>6, <2>7, <2>8, <2>9, <2>10, ReturnWakes
<1> QED
  BY <1>1, <1>2

-----------------------------------------------------------------------------
(* The calls that suspend their caller.                                    *)

(* The caller was ready, so it was registered nowhere; it is the only one  *)
(* that is suspended, in call c, and nobody else is touched.               *)
LEMMA SuspendWakes ==
  ASSUME Inv, WakeInv, NEW c \in Calls, Entering(c), SuspendIn(c),
         UNCHANGED <<exists, exited, parent_pid, victim, filedesc, len, writing, mailbox_size>>,
         \A p \in Pids \ {current_process} : waiting_on'[p] = waiting_on[p],
         \A b \in AllPipes :
           \/ readpid'[b] = readpid[b]
           \/ readpid[b] = NONE /\ readpid'[b] = current_process /\ WaitsForData(current_process)',
         UNCHANGED current_process,
         \/ UNCHANGED receive_blocked
         \/ /\ receive_blocked' = receive_blocked \cup {current_process}
            /\ WaitsForMessage(current_process)',
         Waits(current_process)',
         c[1] = "read" => c[2] \in FDs
  PROVE  WakeInv'
<1> DEFINE p == current_process
           N == {p}
<1>1. p \in Live \cap ready /\ p \in Pids /\ Live' = Live /\ ready' = ready \ {p}
  BY EnteringInv DEF Live, SuspendIn, suspend_process
<1>2. \A q \in Pids : in_syscall'[q] = IF q = p THEN c ELSE in_syscall[q]
  BY DEF SuspendIn, Inv, TypeInv, TypeOK
<1>3. p \notin receive_blocked /\ \A b \in AllPipes : readpid[b] # p
  BY <1>1, ConstantFacts DEF Inv, SchedulerInv, WaitersInv
<1>4. N \in SUBSET (Live' \ ready') /\ \A q : q \in N <=> q = p
  BY <1>1
<1>5. ASSUME NEW q \in (Live' \ ready') \ N PROVE StaysSuspended(q)
  <2>1. q \in Live \ ready /\ q \in Pids /\ q # p
    BY <1>1, <1>5, LiveFacts
  <2> QED
    BY <1>2, <2>1 DEF StaysSuspended, WaitsForChild
<1>6. ASSUME NEW b \in AllPipes
      PROVE  \/ StaysRegistered(b)
             \/ readpid[b] = NONE /\ readpid'[b] \in N /\ WaitsForData(readpid[b])'
  <2>1. CASE readpid'[b] = readpid[b]
    <3>1. readpid[b] # NONE => readpid[b] \in Live' \ ready'
      BY <1>1 DEF Inv, SchedulerInv, WaitersInv
    <3> QED
      BY <2>1, <3>1 DEF StaysRegistered
  <2>2. CASE readpid'[b] # readpid[b]
    <3>1. readpid[b] = NONE /\ readpid'[b] = p /\ WaitsForData(p)'
      BY <2>2
    <3>2. WaitsForData(readpid[b])'
      BY <3>1 DEF WaitsForData
    <3> QED
      BY <1>4, <3>1, <3>2
  <2> QED
    BY <2>1, <2>2
<1>7. ASSUME NEW q \in Live' \cap receive_blocked'
      PROVE  q \notin ready' /\ (q \in receive_blocked \/ (q \in N /\ WaitsForMessage(q)'))
  <2>1. CASE q \in receive_blocked
    BY <1>1, <2>1 DEF Inv, SchedulerInv, WaitersInv
  <2>2. CASE q \notin receive_blocked
    <3>1. q = p /\ WaitsForMessage(p)'
      BY <2>2
    <3> QED
      BY <1>1, <1>4, <3>1 DEF WaitsForMessage
  <2> QED
    BY <2>1, <2>2
<1>8. \A q \in Live' \cap ready' : in_syscall'[q][1] = "waitpid" => waiting_on'[q] = NONE
  BY <1>1, <1>2, LiveFacts DEF WakeInv, ResumedInv
<1>9. ASSUME NEW q \in N
      PROVE  Waits(q)' /\ (in_syscall'[q][1] = "read" => in_syscall'[q][2] \in FDs)
  <2>1. q = p
    BY <1>4
  <2> QED
    BY <1>1, <1>2, <2>1 DEF Waits, WaitsForData, WaitsForMessage, WaitsForChild
<1> HIDE DEF N
<1> QED
  BY <1>3, <1>4, <1>5, <1>6, <1>7, <1>8, <1>9, WakeFrame

LEMMA ReadWakes == ASSUME Inv, WakeInv, NEW c \in Calls, syscall_read(c) PROVE WakeInv'
<1> DEFINE h == HandleAt(c[2])
           p == current_process
<1>0. Entering(c) /\ c[1] = "read"
  BY DEF syscall_read
<1>a. p \in Live \cap ready /\ p \in Pids
  BY <1>0, EnteringInv
<1>1. CASE Panic \/ ReturnOnly
  BY <1>0, <1>1, PanicWakes, ReturnOnlyWakes
<1>2. CASE ~ (Panic \/ ReturnOnly)
  <2>1. h.type = "reader" /\ pipe_reader_read(c, h.p)
    BY <1>2 DEF syscall_read
  <2>2. h.p \in AllPipes /\ c[2] \in FDs /\ filedesc[p][c[2]] = h
    <3>1. h # NullHandle
      BY <2>1 DEF NullHandle
    <3> QED
      BY <1>0, <2>1, <3>1, EnteringType, PipeEndType, HandleAtType DEF Inv, TypeInv, HandleAt
  <2>3. CASE /\ readpid[h.p] = NONE /\ len' = [len EXCEPT ![h.p] = @ - CopySize(c[3], h.p)]
             /\ Return
             /\ UNCHANGED <<procVars, schedVars, fdVars, reading, writing, readpid, mailVars,
                            killVars>>
    <3>1. UNCHANGED <<exists, exited, parent_pid, waiting_on, ready, readpid, writing, filedesc,
                      receive_blocked, mailbox_size, victim>>
      BY <2>3 DEF procVars, schedVars, fdVars, mailVars, killVars
    <3>2. \A x \in AllPipes : readpid[x] # NONE => len'[x] = len[x]
      BY <2>3 DEF Inv, TypeInv, TypeOK
    <3>3. OnlyReadersWake
      BY <3>1, <3>2, NobodyWakes DEF Live
    <3> QED
      BY <1>0, <2>3, <3>1, <3>3, CallerWakes
  <2>4. CASE /\ readpid[h.p] = NONE /\ len[h.p] = 0 /\ h.p \in writing
             /\ readpid' = [readpid EXCEPT ![h.p] = p]
             /\ SuspendIn(c)
             /\ UNCHANGED <<procVars, current_process, fdVars, reading, writing, len, mailVars,
                            killVars>>
    <3>1. UNCHANGED <<exists, exited, parent_pid, waiting_on, current_process, len, writing, filedesc,
                      receive_blocked, mailbox_size, victim>>
      BY <2>4 DEF procVars, fdVars, mailVars, killVars
    <3>2. \A x \in AllPipes : readpid'[x] = IF x = h.p THEN p ELSE readpid[x]
      BY <2>4 DEF Inv, TypeInv, TypeOK
    <3>3. in_syscall'[p] = c
      BY <1>a, <2>4 DEF SuspendIn, Inv, TypeInv, TypeOK
    <3>4. WaitsForData(p)'
      BY <1>0, <2>1, <2>2, <2>4, <3>1, <3>2, <3>3 DEF WaitsForData
    <3>5. Waits(p)'
      BY <3>4 DEF Waits
    <3>6. \A b \in AllPipes :
            \/ readpid'[b] = readpid[b]
            \/ readpid[b] = NONE /\ readpid'[b] = p /\ WaitsForData(p)'
      BY <2>4, <3>2, <3>4
    <3> QED
      BY <1>0, <2>2, <2>4, <3>1, <3>5, <3>6, SuspendWakes
  <2> QED
    BY <1>2, <2>1, <2>3, <2>4 DEF pipe_reader_read
<1> QED
  BY <1>1, <1>2

LEMMA ReceiveWakes == ASSUME Inv, WakeInv, NEW c \in Calls, syscall_receive(c) PROVE WakeInv'
<1> DEFINE p == current_process
<1>0. Entering(c) /\ c[1] = "receive"
  BY DEF syscall_receive
<1>a. p \in Live \cap ready /\ p \in Pids
  BY <1>0, EnteringInv
<1>1. CASE Panic \/ ReturnOnly
  BY <1>0, <1>1, PanicWakes, ReturnOnlyWakes
<1>2. CASE /\ mailbox_size' = [mailbox_size EXCEPT ![p] = @ - 1]
           /\ Return
           /\ UNCHANGED <<procVars, schedVars, fdVars, pipeVars, mailbox, receive_blocked,
                          victim, kfd>>
  <2>1. UNCHANGED <<exists, exited, parent_pid, waiting_on, ready, readpid, len, writing, filedesc,
                    receive_blocked, victim>>
    BY <1>2 DEF procVars, schedVars, fdVars, pipeVars
  <2>2. \A q \in Pids \ {p} : mailbox_size'[q] = mailbox_size[q]
    BY <1>2 DEF Inv, TypeInv, TypeOK
  <2>3. OnlyReadersWake
    BY <2>1, NobodyWakes DEF Live
  <2> QED
    BY <1>0, <1>2, <2>1, <2>2, <2>3, CallerWakes
<1>3. CASE /\ mailbox_size[p] = 0
           /\ receive_blocked' = receive_blocked \cup {p}
           /\ SuspendIn(c)
           /\ UNCHANGED <<procVars, current_process, fdVars, pipeVars, mailbox, mailbox_size,
                          killVars>>
  <2>1. UNCHANGED <<exists, exited, parent_pid, waiting_on, current_process, readpid, len, writing,
                    filedesc, mailbox_size, victim>>
    BY <1>3 DEF procVars, fdVars, pipeVars, killVars
  <2>2. in_syscall'[p] = c
    BY <1>a, <1>3 DEF SuspendIn, Inv, TypeInv, TypeOK
  <2>3. WaitsForMessage(p)'
    BY <1>0, <1>3, <2>1, <2>2 DEF WaitsForMessage
  <2>4. Waits(p)'
    BY <2>3 DEF Waits
  <2> QED
    BY <1>0, <1>3, <2>1, <2>3, <2>4, SuspendWakes
<1> QED
  BY <1>1, <1>2, <1>3 DEF syscall_receive

LEMMA WaitpidWakes == ASSUME Inv, WakeInv, NEW c \in Calls, syscall_waitpid(c) PROVE WakeInv'
<1> DEFINE p == current_process
           pid == c[2]
<1>0. Entering(c) /\ c[1] = "waitpid"
  BY DEF syscall_waitpid
<1>a. p \in Live \cap ready /\ p \in Pids
  BY <1>0, EnteringInv
<1>1. CASE Panic \/ ReturnOnly
  BY <1>0, <1>1, PanicWakes, ReturnOnlyWakes
<1>2. CASE /\ exists' = exists \/ \E q \in exited : exists' = exists \ {q}
           /\ waiting_on' = [waiting_on EXCEPT ![p] = NONE]
           /\ Return
           /\ UNCHANGED <<exited, parent_pid, schedVars, fdVars, pipeVars, mailVars, killVars>>
  <2>1. UNCHANGED <<exited, parent_pid, ready, readpid, len, writing, filedesc,
                    receive_blocked, mailbox_size, victim>>
    BY <1>2 DEF schedVars, fdVars, pipeVars, mailVars, killVars
  <2>2. (exists \ exited)' = exists \ exited
    BY <1>2, <2>1
  <2>3. Live' = Live
    BY <2>1, <2>2 DEF Live
  <2>4. \A q \in Pids \ {p} : waiting_on'[q] = waiting_on[q]
    BY <1>2 DEF Inv, TypeInv, TypeOK
  <2>5. OnlyReadersWake
    BY <2>1, <2>3, NobodyWakes
  <2>6. \A q \in Live \cap receive_blocked : q \notin ready
    BY DEF Inv, SchedulerInv, WaitersInv
  <2> QED
    BY <1>0, <1>2, <2>1, <2>2, <2>4, <2>5, <2>6, ReturnWakes DEF OnlyReadersWake
<1>3. CASE /\ OwnChild(pid) /\ pid \notin exited
           /\ waiting_on' = [waiting_on EXCEPT ![p] = pid]
           /\ SuspendIn(c)
           /\ UNCHANGED <<exists, exited, parent_pid, current_process, fdVars, pipeVars,
                          mailVars, killVars>>
  <2>1. UNCHANGED <<exists, exited, parent_pid, current_process, readpid, len, writing,
                    filedesc, mailbox_size, receive_blocked, victim>>
    BY <1>3 DEF fdVars, pipeVars, mailVars, killVars
  <2>2. in_syscall'[p] = c
    BY <1>a, <1>3 DEF SuspendIn, Inv, TypeInv, TypeOK
  <2>3. \A q \in Pids : waiting_on'[q] = IF q = p THEN pid ELSE waiting_on[q]
    BY <1>3 DEF Inv, TypeInv, TypeOK
  <2>4. WaitsForChild(p)'
    BY <1>0, <1>a, <1>3, <2>1, <2>2, <2>3 DEF WaitsForChild, OwnChild
  <2>5. Waits(p)'
    BY <2>4 DEF Waits
  <2> QED
    BY <1>0, <1>3, <2>1, <2>3, <2>5, SuspendWakes
<1> QED
  BY <1>1, <1>2, <1>3 DEF syscall_waitpid

-----------------------------------------------------------------------------
(* Birth and death.                                                        *)

LEMMA ForkWakes == ASSUME Inv, WakeInv, NEW c \in Calls, syscall_fork(c) PROVE WakeInv'
<1> DEFINE p == current_process
<1>0. Entering(c)
  BY DEF syscall_fork
<1>1. CASE Panic \/ ReturnOnly
  BY <1>0, <1>1, PanicWakes, ReturnOnlyWakes
<1>2. CASE ~ (Panic \/ ReturnOnly)
  <2>1. PICK ch \in Pids :
          /\ ch \notin exists /\ fork_child(c, ch)
          /\ UNCHANGED <<readpid, len, writing, victim>>
    BY <1>2 DEF syscall_fork, IsFreePid, pipeVars, killVars
  <2>2. p \in Live \cap ready /\ p \in Pids /\ Live = exists \ exited
    BY <1>0, EnteringInv
  <2>3. /\ exists' = exists \cup {ch} /\ exited' = exited \ {ch}
        /\ ready' = ready \cup {ch} /\ receive_blocked' = receive_blocked \ {ch}
    BY <2>1 DEF fork_child
  <2>4. Live' = Live \cup {ch} /\ ch \notin Live /\ (exists \ exited)' = (exists \ exited) \cup {ch}
    BY <2>1, <2>2, <2>3, EnteringInv, ConstantFacts, <1>0 DEF Live
  <2>5. \A q \in Pids \ {ch, p} :
          /\ filedesc'[q] = filedesc[q] /\ waiting_on'[q] = waiting_on[q]
          /\ in_syscall'[q] = in_syscall[q] /\ mailbox_size'[q] = mailbox_size[q]
    BY <2>1 DEF fork_child, Inv, TypeInv, TypeOK
  <2>6. \A q \in Pids : q # ch => parent_pid'[q] = parent_pid[q]
    BY <2>1 DEF fork_child, Inv, TypeInv, TypeOK
  <2>7. in_syscall'[ch] = NoCall /\ in_syscall'[p] = NoCall /\ NoCall[1] = "none"
    BY <2>1, <2>2 DEF fork_child, NoCall, Inv, TypeInv, TypeOK
  <2>8. ASSUME NEW q \in Live' \ ready' PROVE StaysSuspended(q)
    <3>1. q \in Live \ ready /\ q \in Pids \ {ch, p}
      BY <2>2, <2>3, <2>4, LiveFacts
    <3>2. WaitsForChild(q) => /\ waiting_on[q] \in exists' \ exited'
                              /\ parent_pid'[waiting_on[q]] = q
      <4>1. exists \subseteq Pids
        BY DEF Inv, TypeInv, TypeOK
      <4> QED
        BY <2>1, <2>4, <2>6, <4>1 DEF WaitsForChild
    <3> QED
      BY <2>3, <2>5, <3>1, <3>2 DEF StaysSuspended
  <2>9. ASSUME NEW b \in AllPipes PROVE StaysRegistered(b)
    <3>1. readpid[b] # NONE => readpid[b] \in Live \ ready
      BY DEF Inv, SchedulerInv, WaitersInv
    <3> QED
      BY <2>1, <2>3, <2>4, <3>1 DEF StaysRegistered
  <2>10. \A q \in Live' \cap receive_blocked' : q \notin ready' /\ q \in receive_blocked
    BY <2>3, <2>4 DEF Inv, SchedulerInv, WaitersInv
  <2>11. \A q \in Live' \cap ready' : in_syscall'[q][1] = "waitpid" => waiting_on'[q] = NONE
    BY <2>3, <2>4, <2>5, <2>7, LiveFacts DEF WakeInv, ResumedInv
  <2> QED
    BY <2>8, <2>9, <2>10, <2>11, NobodySuspended
<1> QED
  BY <1>1, <1>2

(* No pipe is left naming the victim as its reader.                        *)
LEMMA KillBeginWakes ==
  ASSUME Inv, WakeInv, NEW p \in Live, victim = NULL, KillBegin(p), kpc \in {"user", "restart"},
         p \in ready \/ in_syscall[p][1] # "read",
         \A q \in Pids : q # current_process => in_syscall'[q] = in_syscall[q],
         current_process \in Pids, in_syscall'[current_process][1] # "waitpid" \/ current_process = p,
         UNCHANGED <<exists, exited, parent_pid, waiting_on, ready, filedesc, readpid, len, writing,
                     receive_blocked, mailbox_size>>
  PROVE  WakeInv'
<1>1. victim' = p /\ Live' = Live \ {p}
  <2>1. victim' = p
    BY DEF KillBegin
  <2>2. NULL \notin exists
    BY ConstantFacts DEF Inv, TypeInv, TypeOK
  <2> QED
    BY <2>1, <2>2 DEF Live
<1>2. current_process \in Live \cap ready
  BY ConstantFacts DEF Inv, SchedulerInv, RunsLiveProcess
<1>3. ASSUME NEW q \in Live' \ ready' PROVE StaysSuspended(q)
  BY <1>1, <1>2, LiveFacts DEF StaysSuspended, WaitsForChild
<1>4. ASSUME NEW b \in AllPipes PROVE StaysRegistered(b)
  <2>1. readpid[b] # NONE => readpid[b] \in Live' \ ready'
    BY <1>1 DEF Inv, SchedulerInv, WaitersInv
  <2> QED
    BY <2>1 DEF StaysRegistered
<1>5. \A q \in Live' \cap receive_blocked' : q \notin ready' /\ q \in receive_blocked
  BY <1>1 DEF Inv, SchedulerInv, WaitersInv
<1>6. \A q \in Live' \cap ready' : in_syscall'[q][1] = "waitpid" => waiting_on'[q] = NONE
  BY <1>1, LiveFacts DEF WakeInv, ResumedInv
<1> QED
  BY <1>3, <1>4, <1>5, <1>6, NobodySuspended

LEMMA ExitWakes == ASSUME Inv, WakeInv, NEW c \in Calls, syscall_exit(c) PROVE WakeInv'
<1>1. /\ current_process \in Live \cap ready /\ current_process \in Pids /\ victim = NULL
      /\ kpc \in {"user", "restart"}
  BY EnteringInv DEF syscall_exit, Entering
<1>2. /\ KillBegin(current_process)
      /\ \A q \in Pids : q # current_process => in_syscall'[q] = in_syscall[q]
      /\ UNCHANGED <<exists, exited, parent_pid, waiting_on, ready, filedesc, readpid, len, writing,
                     receive_blocked, mailbox_size>>
  BY DEF syscall_exit, procVars, fdVars, pipeVars, mailVars, Inv, TypeInv, TypeOK
<1> QED
  BY <1>1, <1>2, KillBeginWakes

LEMMA FaultWakes == ASSUME Inv, WakeInv, page_fault PROVE WakeInv'
<1>1. /\ current_process \in Live \cap ready /\ current_process \in Pids /\ victim = NULL
      /\ kpc \in {"user", "restart"}
  BY LiveFacts DEF page_fault, Inv, SchedulerInv, RunsLiveProcess, VictimInv
<1>2. /\ KillBegin(current_process)
      /\ \A q \in Pids : q # current_process => in_syscall'[q] = in_syscall[q]
      /\ UNCHANGED <<exists, exited, parent_pid, waiting_on, ready, filedesc, readpid, len, writing,
                     receive_blocked, mailbox_size>>
  BY DEF page_fault, procVars, fdVars, pipeVars, mailVars
<1> QED
  BY <1>1, <1>2, KillBeginWakes

LEMMA KillWakes ==
  ASSUME DisciplinedPrograms, Inv, WakeInv, NEW c \in Calls, syscall_kill(c),
         kpc = "user" => Workload(c)
  PROVE  WakeInv'
<1>0. Entering(c) /\ c[1] = "kill"
  BY DEF syscall_kill
<1>1. CASE Panic \/ ReturnOnly
  BY <1>0, <1>1, PanicWakes, ReturnOnlyWakes
<1>2. CASE ~ (Panic \/ ReturnOnly)
  <2>1. /\ c[2] \in exists /\ KillBegin(c[2])
        /\ in_syscall' = [in_syscall EXCEPT ![current_process] = c]
        /\ UNCHANGED <<exists, exited, parent_pid, waiting_on, ready, filedesc, readpid, len, writing,
                       receive_blocked, mailbox_size>>
    BY <1>2 DEF syscall_kill, procVars, fdVars, pipeVars, mailVars
  <2>2. c[2] \in Live /\ (c[2] \in ready \/ in_syscall[c[2]][1] # "read")
    BY <1>0, <2>1, KillTarget
  <2>3. current_process \in Pids /\ victim = NULL /\ kpc \in {"user", "restart"}
    BY <1>0, EnteringInv DEF Entering
  <2>4. /\ \A q \in Pids : q # current_process => in_syscall'[q] = in_syscall[q]
        /\ in_syscall'[current_process] = c
    BY <2>1, <2>3 DEF Inv, TypeInv, TypeOK
  <2> QED
    BY <1>0, <2>1, <2>2, <2>3, <2>4, KillBeginWakes
<1> QED
  BY <1>1, <1>2

LEMMA KillCloseWakes == ASSUME Inv, WakeInv, KillClose PROVE WakeInv'
<1> DEFINE h == filedesc[victim][kfd]
<1>1. CASE Panic
  BY <1>1, PanicWakes
<1>2. CASE ~ Panic
  <2>0. h \in Handles \cup {NullHandle}
    BY DEF KillClose, Inv, TypeInv, TypeOK, ControlOK
  <2>1. /\ IF h = NullHandle THEN UNCHANGED <<ready, readpid, len, writing>> ELSE close_filehandle(h)
        /\ UNCHANGED <<exists, exited, parent_pid, waiting_on, filedesc, in_syscall, victim,
                       receive_blocked, mailbox_size>>
    BY <1>2 DEF KillClose, procVars, pipeVars, mailVars
  <2>2. Live' = Live
    BY <2>1 DEF Live
  <2>3. OnlyReadersWake
    BY <2>0, <2>1, <2>2, CloseWakes, NobodyWakes
  <2>4. ASSUME NEW p \in Live' \ ready' PROVE StaysSuspended(p)
    BY <2>1, <2>2, <2>3 DEF OnlyReadersWake, StaysSuspended, WaitsForChild
  <2>5. \A p \in Live' \cap receive_blocked' : p \notin ready' /\ p \in receive_blocked
    BY <2>1, <2>2, <2>3 DEF OnlyReadersWake, Inv, SchedulerInv, WaitersInv
  <2>6. \A p \in Live' \cap ready' : in_syscall'[p][1] = "waitpid" => waiting_on'[p] = NONE
    BY <2>1, <2>2, <2>3 DEF OnlyReadersWake, WakeInv, ResumedInv
  <2> QED
    BY <2>3, <2>4, <2>5, <2>6, NobodySuspended DEF OnlyReadersWake
<1> QED
  BY <1>1, <1>2

(* The only process that can wait for the victim is its parent, which is   *)
(* resumed.                                                                *)
LEMMA KillReapWakes == ASSUME Inv, WakeInv, KillReap PROVE WakeInv'
<1> DEFINE parent == parent_pid[victim]
<1>0. /\ kpc = "reap" /\ victim \in exists \ exited /\ victim \in Pids /\ exists \subseteq Pids
      /\ current_process # NULL => current_process \in Live \cap ready
  BY DEF KillReap, Inv, SchedulerInv, VictimInv, RunsLiveProcess, TypeInv, TypeOK
<1>1. CASE Panic
  BY <1>1, PanicWakes
<1>2. CASE ~ Panic
  <2>1. /\ ParentWaits => /\ resume_asserts(parent) /\ resume_process(parent)
                          /\ waiting_on' = [waiting_on EXCEPT ![parent] = NONE]
        /\ ~ ParentWaits => UNCHANGED <<ready, waiting_on>>
        /\ parent_pid' = ParentsAfter
        /\ exists' \in {exists, exists \ {victim}}
        /\ exited' = exited \cup {victim} /\ victim' = NULL
        /\ IF current_process = NULL THEN UNCHANGED in_syscall ELSE Return
        /\ UNCHANGED <<readpid, len, writing, filedesc, receive_blocked, mailbox_size>>
    BY <1>2 DEF KillReap, fdVars, pipeVars
  <2>2. Live' = Live /\ (exists \ exited)' = Live
    <3>1. (exists \ exited)' = Live
      BY <2>1 DEF Live
    <3>2. NULL \notin Live
      BY LiveFacts, ConstantFacts
    <3>3. Live' = (exists \ exited)' \ {NULL}
      BY <2>1 DEF Live
    <3> QED
      BY <3>1, <3>2, <3>3
  <2>3. ParentWaits => parent \in Live \ ready /\ in_syscall[parent][1] = "waitpid" /\ parent \in Pids
    <3>1. parent \in ((exists \ exited) \ {victim}) \cup {NONE}
      BY <1>0 DEF ParentsInv, Inv, SchedulerInv
    <3> QED
      BY <1>0, <2>1, <3>1 DEF ParentWaits, resume_asserts, Live
  <2>4. ready' = IF ParentWaits THEN ready \cup {parent} ELSE ready
    BY <2>1 DEF resume_process
  <2>5. \A q \in Pids : in_syscall'[q] = IF q = current_process THEN NoCall ELSE in_syscall[q]
    BY <2>1, ConstantFacts DEF Return, Inv, TypeInv, TypeOK
  <2>6. \A q \in Pids : waiting_on'[q] = IF ParentWaits /\ q = parent THEN NONE ELSE waiting_on[q]
    BY <2>1, <2>3 DEF Inv, TypeInv, TypeOK
  <2>7. ASSUME NEW q \in Live' \ ready' PROVE StaysSuspended(q)
    <3>1. q \in Live \ ready /\ q \in Pids /\ q # current_process /\ ~ (ParentWaits /\ q = parent)
      BY <1>0, <2>2, <2>4, LiveFacts, ConstantFacts
    <3>2. ASSUME WaitsForChild(q)
          PROVE  waiting_on[q] \in exists' \ exited' /\ parent_pid'[waiting_on[q]] = q
      <4> DEFINE ch == waiting_on[q]
      <4>1. in_syscall[q][1] = "waitpid" /\ ch \in exists \ exited /\ parent_pid[ch] = q
        BY <3>2 DEF WaitsForChild
      <4>2. q # NONE /\ q # victim
        BY <3>1, ConstantFacts DEF Live
      <4>3. ch # victim
        <5>1. ASSUME ch = victim PROVE FALSE
          <6>1. parent = q /\ ParentWaits
            BY <4>1, <4>2, <5>1 DEF ParentWaits
          <6> QED
            BY <3>1, <6>1
        <5> QED
          BY <5>1
      <4>4. ch \in Live /\ ch \in Pids
        BY <1>0, <4>1, <4>3 DEF Live
      <4> QED
        BY <2>1, <2>2, <4>1, <4>2, <4>4 DEF ParentsAfter
    <3> QED
      BY <2>1, <2>5, <2>6, <3>1, <3>2 DEF StaysSuspended
  <2>8. ASSUME NEW b \in AllPipes PROVE StaysRegistered(b)
    <3>1. readpid[b] # NONE => readpid[b] \in Live \ ready /\ in_syscall[readpid[b]][1] = "read"
      BY DEF Inv, SchedulerInv, WaitersInv
    <3>2. readpid[b] # NONE => readpid[b] \in Live' \ ready'
      BY <2>2, <2>3, <2>4, <3>1
    <3> QED
      BY <2>1, <3>2 DEF StaysRegistered
  <2>9. \A q \in Live' \cap receive_blocked' : q \notin ready' /\ q \in receive_blocked
    <3>1. \A q \in Live \cap receive_blocked : q \notin ready /\ in_syscall[q][1] = "receive"
      BY DEF Inv, SchedulerInv, WaitersInv
    <3> QED
      BY <2>1, <2>2, <2>3, <2>4, <3>1
  <2>10. \A q \in Live' \cap ready' : in_syscall'[q][1] = "waitpid" => waiting_on'[q] = NONE
    <3>1. NoCall[1] = "none"
      BY DEF NoCall
    <3> QED
      BY <2>2, <2>4, <2>5, <2>6, <3>1, LiveFacts DEF WakeInv, ResumedInv
  <2> QED
    BY <2>7, <2>8, <2>9, <2>10, NobodySuspended
<1> QED
  BY <1>1, <1>2

-----------------------------------------------------------------------------
LEMMA InitWakes == Init => WakeInv
<1> SUFFICES ASSUME Init PROVE WakeInv
  OBVIOUS
<1>1. Live \ ready = {}
  BY DEF Init, Live
<1>2. \A p \in Live : in_syscall[p][1] = "none"
  BY ConstantFacts DEF Init, Live, NoCall
<1> QED
  BY <1>1, <1>2 DEF Init, WakeInv, NoLostWakeup, NoStaleWaiter, ResumedInv

LEMMA SyscallWakes ==
  ASSUME DisciplinedPrograms, Inv, WakeInv, NEW c \in Calls, syscall(c),
         kpc = "user" => Workload(c)
  PROVE  WakeInv'
<1>1. CASE syscall_getpid(c) \/ InvalidArgument(c)
  BY <1>1, ReturnOnlyWakes DEF syscall_getpid, InvalidArgument
<1>2. CASE syscall_halt(c)
  BY <1>2, StopWakes DEF syscall_halt
<1> QED
  BY <1>1, <1>2, ExitWakes, WriteWakes, ReadWakes, SendWakes, ReceiveWakes, CloseCallWakes,
     PipeWakes, Dup2Wakes, ForkWakes, WaitpidWakes, KillWakes DEF syscall

LEMMA NextWakes ==
  ASSUME DisciplinedPrograms, Inv, WakeInv, [Next]_vars
  PROVE  WakeInv'
<1>1. CASE timer_handler \/ SwitchAway
  BY <1>1, SwitchWakes DEF timer_handler, SwitchAway
<1>2. CASE UserCall \/ RestartCall
  BY <1>2, SyscallWakes DEF UserCall, RestartCall
<1>3. CASE other_exception
  BY <1>3, StopWakes DEF other_exception
<1>4. CASE UNCHANGED vars
  BY <1>4, StopWakes DEF vars
<1> QED
  BY <1>1, <1>2, <1>3, <1>4, KeyboardWakes, FaultWakes, KillCloseWakes, KillReapWakes
  DEF Next, Stopped

-----------------------------------------------------------------------------
(* Why the asserts hold.                                                   *)

(* wake_up_reader finds a suspended process.                               *)
LEMMA WakeAsserts ==
  ASSUME Inv, NEW b \in AllPipes
  PROVE  wake_asserts(b)
BY DEF Inv, SchedulerInv, WaitersInv, wake_asserts, resume_asserts, Live

(* A handle that is still held is counted, its end of the pipe is open,    *)
(* and when the other end is closed too nobody waits.                      *)
LEMMA CloseAsserts ==
  ASSUME Inv, RefInv, WakeInv, NEW p \in Pids, NEW fd \in FDs, Held(Live, victim, kfd, p, fd),
         NEW h \in Handles, filedesc[p][fd] = h
  PROVE  close_asserts(h)
<1>1. refcount[h] >= 1
  BY HeldCounts
<1>2. ASSUME refcount[h] = 1, h.type = "writer" PROVE h.p \in writing /\ wake_asserts(h.p)
  <2>1. h.p \in AllPipes
    BY <1>2, HandleFacts
  <2>2. WriterOf(h.p) = h
    BY <1>2, <2>1, WhichEnd
  <2>3. h.p \in writing
    BY <1>2, <2>1, <2>2 DEF RefInv, RefcountsExact, ResourcesInv, AllPipes
  <2> QED
    BY <2>1, <2>3, WakeAsserts
<1>3. ASSUME refcount[h] = 1, h.type = "reader"
      PROVE  h.p \in reading /\ (h.p \notin writing => readpid[h.p] = NONE)
  <2>1. h.p \in AllPipes
    BY <1>3, HandleFacts
  <2>2. ReaderOf(h.p) = h
    BY <1>3, <2>1, WhichEnd
  <2>3. h.p \in reading
    BY <1>3, <2>1, <2>2 DEF RefInv, RefcountsExact
  <2> QED
    BY <2>1, <2>3, ReadsOnePipe
<1> QED
  BY <1>1, <1>2, <1>3 DEF close_asserts

(* The handle in a descriptor of the caller.                               *)
LEMMA CallerCloses ==
  ASSUME Inv, RefInv, WakeInv, NEW c \in Calls, Entering(c), NEW fd, HandleAt(fd) # NullHandle
  PROVE  close_asserts(HandleAt(fd))
<1>1. current_process \in Live /\ current_process \in Pids
  BY EnteringInv
<1>2. fd \in FDs /\ HandleAt(fd) \in Handles
  BY <1>1, HandleAtType DEF Inv, TypeInv
<1>3. filedesc[current_process][fd] = HandleAt(fd)
  BY <1>2 DEF HandleAt
<1> QED
  BY <1>1, <1>2, <1>3, CloseAsserts DEF Held

(* The parent that waits for the victim is suspended.                      *)
LEMMA ReapAsserts ==
  ASSUME Inv, WakeInv, kpc = "reap", ParentWaits
  PROVE  resume_asserts(parent_pid[victim])
<1> DEFINE parent == parent_pid[victim]
<1>1. victim \in exists \ exited /\ victim \in Pids
  BY DEF Inv, SchedulerInv, VictimInv, TypeInv, TypeOK
<1>2. parent \in ((exists \ exited) \ {victim}) \cup {NONE}
  BY <1>1 DEF ParentsInv, Inv, SchedulerInv
<1>3. parent \in Live /\ in_syscall[parent][1] = "waitpid" /\ waiting_on[parent] # NONE
  BY <1>1, <1>2, ConstantFacts DEF ParentWaits, Live
<1> QED
  BY <1>3 DEF WakeInv, ResumedInv, resume_asserts, Live

LEMMA SyscallAsserts ==
  ASSUME DisciplinedPrograms, Inv, RefInv, WakeInv, NEW c \in Calls, syscall(c),
         kpc = "user" => Workload(c)
  PROVE  kpc' # "panic"
<1>1. CASE \/ syscall_getpid(c) \/ InvalidArgument(c) \/ syscall_halt(c) \/ syscall_exit(c)
           \/ syscall_kill(c) \/ syscall_pipe(c) \/ syscall_fork(c)
  BY <1>1 DEF syscall_getpid, InvalidArgument, syscall_halt, syscall_exit, syscall_kill, syscall_pipe,
              syscall_fork, ReturnOnly, Return, KillBegin
<1>2. CASE syscall_write(c)
  <2>1. HandleAt(c[2]).type = "writer" => HandleAt(c[2]).p \in AllPipes
    BY <1>2, EnteringType, PipeEndType DEF syscall_write, Inv, TypeInv
  <2> QED
    BY <1>2, <2>1, WakeAsserts DEF syscall_write, ReturnOnly, Return
<1>3. CASE syscall_close(c)
  BY <1>3, CallerCloses DEF syscall_close, ReturnOnly, Return
<1>4. CASE syscall_dup2(c)
  BY <1>4, CallerCloses DEF syscall_dup2, ReturnOnly, Return
<1>5. CASE syscall_read(c) \/ syscall_receive(c) \/ syscall_waitpid(c)
  <2>1. suspend_asserts(current_process)
    BY <1>5, EnteringInv DEF syscall_read, syscall_receive, syscall_waitpid, suspend_asserts, Live
  <2> QED
    BY <1>5, <2>1 DEF syscall_read, pipe_reader_read, syscall_receive, syscall_waitpid, ReturnOnly,
                      Return, SuspendIn
<1>6. CASE syscall_send(c)
  <2>1. c[2] \in exists /\ c[2] \in receive_blocked => resume_asserts(c[2])
    <3>1. c[2] \in exists => c[2] \in Live
      BY <1>6, SendTarget DEF syscall_send
    <3> QED
      BY <3>1 DEF resume_asserts, Inv, SchedulerInv, WaitersInv
  <2> QED
    BY <1>6, <2>1 DEF syscall_send, ReturnOnly, Return
<1> QED
  BY <1>1, <1>2, <1>3, <1>4, <1>5, <1>6 DEF syscall

LEMMA NextAsserts ==
  ASSUME DisciplinedPrograms, Inv, RefInv, WakeInv, NoPanic, [Next]_vars
  PROVE  NoPanic'
<1> USE DEF NoPanic
<1>1. CASE timer_handler \/ SwitchAway \/ other_exception \/ page_fault
  BY <1>1 DEF timer_handler, SwitchAway, context_switch, other_exception, page_fault, KillBegin
<1>2. CASE UserCall \/ RestartCall
  BY <1>2, SyscallAsserts DEF UserCall, RestartCall
<1>3. CASE keyboard_handler
  BY <1>3, WakeAsserts DEF keyboard_handler, AllPipes
<1>4. CASE KillClose
  <2>1. victim \in Pids /\ kfd \in FDs /\ filedesc[victim][kfd] \in Handles \cup {NullHandle}
    BY <1>4 DEF KillClose, Inv, TypeInv, TypeOK, ControlOK
  <2>2. Held(Live, victim, kfd, victim, kfd)
    BY <2>1, ConstantFacts DEF Held
  <2>3. filedesc[victim][kfd] # NullHandle => close_asserts(filedesc[victim][kfd])
    BY <2>1, <2>2, CloseAsserts
  <2> QED
    BY <1>4, <2>3 DEF KillClose
<1>5. CASE KillReap
  BY <1>5, ReapAsserts DEF KillReap, Return
<1>6. CASE UNCHANGED vars
  BY <1>6 DEF vars
<1> QED
  BY <1>1, <1>2, <1>3, <1>4, <1>5, <1>6 DEF Next, Stopped

-----------------------------------------------------------------------------
(* The whole invariant is inductive.                                       *)

LEMMA KernelInvSplit == TypeInv /\ KernelInv <=> Inv /\ RefInv /\ WakeInv /\ NoPanic /\ NoHeapFault
BY DEF KernelInv, Inv, RefInv, WakeInv

LEMMA InitKernel == Init => TypeInv /\ KernelInv
<1>1. Init => NoPanic /\ NoHeapFault
  BY DEF Init, NoPanic, NoHeapFault
<1> QED
  BY <1>1, InitType, InitInv, InitRefs, InitWakes, KernelInvSplit DEF Inv

LEMMA NextKernel ==
  ASSUME DisciplinedPrograms, TypeInv, KernelInv, [Next]_vars
  PROVE  (TypeInv /\ KernelInv)'
<1>1. Inv /\ RefInv /\ WakeInv /\ NoPanic /\ NoHeapFault
  BY KernelInvSplit
<1>2. TypeInv' /\ SchedulerInv'
  BY <1>1, NextType, NextInv DEF Inv
<1>3. RefInv' /\ WakeInv' /\ NoPanic' /\ NoHeapFault'
  BY <1>1, NextRefs, NextWakes, NextAsserts, NextHeap
<1> QED
  BY <1>2, <1>3 DEF KernelInv, RefInv, WakeInv

(* Whatever programs within the discipline do, and whenever timer,         *)
(* keyboard and faults interrupt them, the lists, reference counts,        *)
(* mailboxes and registrations of the kernel stay consistent, no wakeup is *)
(* lost or goes astray and no assert fails.                                *)
THEOREM KernelCorrect ==
  ASSUME DisciplinedPrograms
  PROVE  Spec => []KernelInv
<1>1. Init => TypeInv /\ KernelInv
  BY InitKernel
<1>2. TypeInv /\ KernelInv /\ [Next]_vars => (TypeInv /\ KernelInv)'
  BY NextKernel
<1> QED
  BY <1>1, <1>2, PTL DEF Spec

(* A process suspended in read, receive or waitpid is always waiting for   *)
(* something that has not happened and whose happening will resume it:     *)
(* neither a write, a close, a send, an exit nor a kill slips between the  *)
(* check and the suspension, or finds the wrong process.                   *)
THEOREM WakeupsAreNotLost ==
  ASSUME DisciplinedPrograms
  PROVE  Spec => []NoLostWakeup
<1>1. KernelInv => NoLostWakeup
  BY DEF KernelInv
<1> QED
  BY <1>1, KernelCorrect, PTL

(* wake_up_reader and syscall_send only ever resume a process that is      *)
(* suspended in the read or receive that registered it.                    *)
THEOREM WakeupsDoNotGoAstray ==
  ASSUME DisciplinedPrograms
  PROVE  Spec => []NoStaleWaiter
<1>1. KernelInv => NoStaleWaiter
  BY DEF KernelInv
<1> QED
  BY <1>1, KernelCorrect, PTL

(* None of the asserts in suspend_process, resume_process,                 *)
(* close_filehandle, the pipe destructors and check_buffer_free can fail.  *)
THEOREM AssertsHold ==
  ASSUME DisciplinedPrograms
  PROVE  Spec => []NoPanic
<1>1. KernelInv => NoPanic
  BY DEF KernelInv
<1> QED
  BY <1>1, KernelCorrect, PTL

-----------------------------------------------------------------------------
(***************************************************************************)
(* The kernel implements Lifecycle: lists, descriptors, pipes, mailboxes   *)
(* and the loop of kill_process hidden, a process is created by a ready    *)
(* parent, blocks and wakes, dies once, and is released by its parent or   *)
(* by nobody.                                                              *)
(***************************************************************************)
(* The values that the refinement mapping gives to status and parent.      *)
StatusMap == [p \in Pids |-> StatusOf(p)]
ParentMap == [p \in Pids |-> IF p \in exists THEN parent_pid[p] ELSE NONE]

(* A step of the kernel as Lifecycle sees it.                              *)
AbstractStep == Abstract!LNext \/ (StatusMap' = StatusMap /\ ParentMap' = ParentMap)

LEMMA AbstractVars ==
  ASSUME AbstractStep
  PROVE  [Abstract!LNext]_(Abstract!lvars)
BY DEF AbstractStep, Abstract!lvars, StatusMap, ParentMap

-----------------------------------------------------------------------------
(* The status of a process in terms of the kernel's sets.                  *)
LEMMA StatusFacts ==
  ASSUME NEW p \in Pids
  PROVE  /\ p \notin exists => StatusMap[p] = "free"
         /\ p \in exists \cap exited => StatusMap[p] = "zombie"
         /\ p \in (exists \ exited) \cap ready => StatusMap[p] = "ready"
         /\ p \in (exists \ exited) \ ready => StatusMap[p] = "blocked"
BY DEF StatusMap, StatusOf

LEMMA SameStatus ==
  ASSUME (exists \cap exited)' = exists \cap exited, exists' = exists,
         ((exists \ exited) \cap ready)' = (exists \ exited) \cap ready,
         \A p \in exists : parent_pid'[p] = parent_pid[p]
  PROVE  AbstractStep
<1>1. ASSUME NEW p \in Pids PROVE StatusOf(p)' = StatusOf(p)
  BY DEF StatusOf
<1>2. StatusMap' = StatusMap
  BY <1>1 DEF StatusMap
<1>3. ParentMap' = ParentMap
  BY DEF ParentMap
<1> QED
  BY <1>2, <1>3 DEF AbstractStep

(* One process is resumed, or none.                                        *)
LEMMA ResumeStep ==
  ASSUME NEW p \in Pids, p \in (exists \ exited) \ ready, ready' = ready \cup {p},
         UNCHANGED <<exists, exited, parent_pid>>
  PROVE  AbstractStep
<1>1. ASSUME NEW q \in Pids PROVE StatusOf(q)' = IF q = p THEN "ready" ELSE StatusOf(q)
  BY DEF StatusOf
<1>2. StatusMap' = [StatusMap EXCEPT ![p] = "ready"]
  BY <1>1 DEF StatusMap
<1>3. StatusMap[p] = "blocked" /\ ParentMap' = ParentMap
  BY StatusFacts DEF ParentMap
<1>4. Abstract!Wake(p)
  BY <1>2, <1>3 DEF Abstract!Wake, StatusMap, ParentMap
<1> QED
  BY <1>4 DEF AbstractStep, Abstract!LNext

LEMMA SuspendStep ==
  ASSUME NEW p \in Pids, p \in (exists \ exited) \cap ready, ready' = ready \ {p},
         UNCHANGED <<exists, exited, parent_pid>>
  PROVE  AbstractStep
<1>1. ASSUME NEW q \in Pids PROVE StatusOf(q)' = IF q = p THEN "blocked" ELSE StatusOf(q)
  BY DEF StatusOf
<1>2. StatusMap' = [StatusMap EXCEPT ![p] = "blocked"]
  BY <1>1 DEF StatusMap
<1>3. StatusMap[p] = "ready" /\ ParentMap' = ParentMap
  BY StatusFacts DEF ParentMap
<1>4. Abstract!Block(p)
  BY <1>2, <1>3 DEF Abstract!Block, StatusMap, ParentMap
<1> QED
  BY <1>4 DEF AbstractStep, Abstract!LNext

LEMMA WakeStep ==
  ASSUME Inv, NEW b \in AllPipes, wake_up_reader(b), UNCHANGED <<exists, exited, parent_pid>>
  PROVE  AbstractStep
<1>1. CASE readpid[b] = NONE
  BY <1>1, SameStatus DEF wake_up_reader
<1>2. CASE readpid[b] # NONE
  <2>1. readpid[b] \in Live \ ready /\ ready' = ready \cup {readpid[b]}
    BY <1>2 DEF wake_up_reader, resume_process, Inv, SchedulerInv, WaitersInv
  <2> QED
    BY <2>1, ResumeStep, LiveFacts DEF Live
<1> QED
  BY <1>1, <1>2

LEMMA CloseStep ==
  ASSUME Inv, NEW h \in Handles, close_filehandle(h), UNCHANGED <<exists, exited, parent_pid>>
  PROVE  AbstractStep
<1>1. CASE refcount[h] = 1 /\ h.type = "writer"
  BY <1>1, HandleFacts, WakeStep DEF close_filehandle
<1>2. CASE ~ (refcount[h] = 1 /\ h.type = "writer")
  BY <1>2, SameStatus DEF close_filehandle
<1> QED
  BY <1>1, <1>2

-----------------------------------------------------------------------------
(* The system calls.                                                       *)

LEMMA CallerSuspends ==
  ASSUME Inv, NEW c \in Calls, Entering(c), SuspendIn(c), UNCHANGED <<exists, exited, parent_pid>>
  PROVE  AbstractStep
<1>1. current_process \in (exists \ exited) \cap ready /\ current_process \in Pids
  BY EnteringInv DEF Live
<1>2. ready' = ready \ {current_process}
  BY DEF SuspendIn, suspend_process
<1> QED
  BY <1>1, <1>2, SuspendStep

LEMMA ForkStep ==
  ASSUME Inv, NEW c \in Calls, syscall_fork(c)
  PROVE  AbstractStep
<1> DEFINE p == current_process
<1>1. CASE ReturnOnly
  BY <1>1, SameStatus DEF ReturnOnly, procVars, schedVars
<1>2. CASE ~ ReturnOnly
  <2>1. PICK ch \in Pids : ch \notin exists /\ fork_child(c, ch)
    BY <1>2 DEF syscall_fork, IsFreePid
  <2>2. p \in (exists \ exited) \cap ready /\ p \in Pids /\ p # ch
    BY <2>1, EnteringInv DEF syscall_fork, Live
  <2>3. /\ exists' = exists \cup {ch} /\ exited' = exited \ {ch} /\ ready' = ready \cup {ch}
        /\ \A q \in Pids : parent_pid'[q] = IF q = ch THEN p ELSE parent_pid[q]
    BY <2>1 DEF fork_child, Inv, TypeInv, TypeOK
  <2>4. ASSUME NEW q \in Pids PROVE StatusOf(q)' = IF q = ch THEN "ready" ELSE StatusOf(q)
    BY <2>3 DEF StatusOf
  <2>5. StatusMap' = [StatusMap EXCEPT ![ch] = "ready"]
    BY <2>4 DEF StatusMap
  <2>6. ParentMap' = [ParentMap EXCEPT ![ch] = p]
    BY <2>1, <2>3 DEF ParentMap
  <2>7. StatusMap[p] = "ready" /\ StatusMap[ch] = "free"
    BY <2>1, <2>2, StatusFacts
  <2>8. Abstract!Create(p, ch)
    BY <2>5, <2>6, <2>7 DEF Abstract!Create, StatusMap, ParentMap
  <2> QED
    BY <2>2, <2>8 DEF AbstractStep, Abstract!LNext
<1> QED
  BY <1>1, <1>2

LEMMA WaitpidStep ==
  ASSUME Inv, NEW c \in Calls, syscall_waitpid(c)
  PROVE  AbstractStep
<1> DEFINE p == current_process
           pid == c[2]
<1>0. Entering(c)
  BY DEF syscall_waitpid
<1>1. CASE ReturnOnly \/ Panic
  BY <1>1, SameStatus DEF ReturnOnly, Panic, procVars, schedVars
<1>2. CASE /\ ~ (OwnChild(pid) /\ pid \notin exited)
           /\ exists' = IF OwnChild(pid) THEN exists \ {pid} ELSE exists
           /\ UNCHANGED <<exited, parent_pid, schedVars>>
  <2>0. UNCHANGED <<exited, parent_pid, ready>>
    BY <1>2 DEF schedVars
  <2>1. CASE ~ OwnChild(pid)
    BY <1>2, <2>0, <2>1, SameStatus
  <2>2. CASE OwnChild(pid)
    <3>1. /\ exists' = exists \ {pid} /\ pid \in exists \cap exited /\ parent_pid[pid] = p
          /\ pid \in Pids
      BY <1>2, <2>2 DEF OwnChild, Inv, TypeInv, TypeOK
    <3>2. p \in (exists \ exited) \cap ready /\ p \in Pids
      BY <1>0, EnteringInv DEF Live
    <3>3. ASSUME NEW q \in Pids PROVE StatusOf(q)' = IF q = pid THEN "free" ELSE StatusOf(q)
      BY <2>0, <3>1 DEF StatusOf
    <3>4. StatusMap' = [StatusMap EXCEPT ![pid] = "free"]
      BY <3>3 DEF StatusMap
    <3>5. ParentMap' = [ParentMap EXCEPT ![pid] = -1]
      BY <2>0, <3>1 DEF ParentMap, NONE
    <3>6. StatusMap[p] = "ready" /\ StatusMap[pid] = "zombie" /\ ParentMap[pid] = p
      BY <3>1, <3>2, StatusFacts DEF ParentMap
    <3>7. Abstract!Reap(p, pid)
      BY <3>4, <3>5, <3>6 DEF Abstract!Reap, StatusMap, ParentMap
    <3> QED
      BY <3>1, <3>2, <3>7 DEF AbstractStep, Abstract!LNext
  <2> QED
    BY <2>1, <2>2
<1>3. CASE SuspendIn(c) /\ UNCHANGED <<exists, exited, parent_pid>>
  BY <1>0, <1>3, CallerSuspends
<1> QED
  BY <1>1, <1>2, <1>3 DEF syscall_waitpid

LEMMA SyscallStep ==
  ASSUME DisciplinedPrograms, Inv, NEW c \in Calls, syscall(c), kpc = "user" => Workload(c)
  PROVE  AbstractStep
<1>1. CASE ReturnOnly \/ Panic
  BY <1>1, SameStatus DEF ReturnOnly, Panic, procVars, schedVars
<1>2. CASE syscall_getpid(c) \/ InvalidArgument(c) \/ syscall_halt(c) \/ syscall_pipe(c)
  BY <1>2, SameStatus DEF syscall_getpid, InvalidArgument, syscall_halt, syscall_pipe, ReturnOnly,
                          procVars, schedVars
<1>3. CASE syscall_exit(c) \/ syscall_kill(c)
  BY <1>1, <1>3, SameStatus DEF syscall_exit, syscall_kill, procVars
<1>4. CASE syscall_write(c) /\ ~ (ReturnOnly \/ Panic)
  <2>1. /\ HandleAt(c[2]).type = "writer" /\ wake_up_reader(HandleAt(c[2]).p)
        /\ UNCHANGED <<exists, exited, parent_pid>>
    BY <1>4 DEF syscall_write, write_to_pipe, procVars
  <2>2. HandleAt(c[2]).p \in AllPipes
    BY <1>4, <2>1, EnteringType, PipeEndType DEF syscall_write, Inv, TypeInv
  <2> QED
    BY <2>1, <2>2, WakeStep
<1>5. CASE syscall_read(c) /\ ~ (ReturnOnly \/ Panic)
  <2>1. /\ Entering(c) /\ UNCHANGED <<exists, exited, parent_pid>>
        /\ SuspendIn(c) \/ UNCHANGED ready
    BY <1>5 DEF syscall_read, pipe_reader_read, procVars, schedVars
  <2> QED
    BY <2>1, CallerSuspends, SameStatus
<1>6. CASE syscall_receive(c) /\ ~ (ReturnOnly \/ Panic)
  <2>1. /\ Entering(c) /\ UNCHANGED <<exists, exited, parent_pid>>
        /\ SuspendIn(c) \/ UNCHANGED ready
    BY <1>6 DEF syscall_receive, procVars, schedVars
  <2> QED
    BY <2>1, CallerSuspends, SameStatus
<1>7. CASE syscall_send(c) /\ ~ (ReturnOnly \/ Panic)
  <2>1. /\ c[2] \in exists /\ UNCHANGED <<exists, exited, parent_pid>>
        /\ ready' = IF c[2] \in receive_blocked THEN ready \cup {c[2]} ELSE ready
    BY <1>7 DEF syscall_send, resume_process, procVars
  <2>2. c[2] \in Live
    BY <1>7, <2>1, SendTarget DEF syscall_send
  <2>3. c[2] \in receive_blocked => c[2] \notin ready
    BY <2>2 DEF Inv, SchedulerInv, WaitersInv
  <2> QED
    BY <2>1, <2>2, <2>3, ResumeStep, SameStatus, LiveFacts DEF Live
<1>8. CASE syscall_close(c) /\ ~ (ReturnOnly \/ Panic)
  <2>1. /\ HandleAt(c[2]) # NullHandle /\ close_filehandle(HandleAt(c[2]))
        /\ UNCHANGED <<exists, exited, parent_pid>>
    BY <1>8 DEF syscall_close, procVars
  <2>2. HandleAt(c[2]) \in Handles
    BY <1>8, <2>1, EnteringType, HandleAtType DEF syscall_close, Inv, TypeInv
  <2> QED
    BY <2>1, <2>2, CloseStep
<1>9. CASE syscall_dup2(c) /\ ~ (ReturnOnly \/ Panic)
  <2>1. /\ UNCHANGED <<exists, exited, parent_pid>>
        /\ \/ UNCHANGED ready
           \/ HandleAt(c[3]) # NullHandle /\ close_filehandle(HandleAt(c[3]))
    BY <1>9 DEF syscall_dup2, procVars, schedVars
  <2>2. HandleAt(c[3]) # NullHandle => HandleAt(c[3]) \in Handles
    BY <1>9, EnteringType, HandleAtType DEF syscall_dup2, Inv, TypeInv
  <2> QED
    BY <2>1, <2>2, CloseStep, SameStatus
<1> QED
  BY <1>1, <1>2, <1>3, <1>4, <1>5, <1>6, <1>7, <1>8, <1>9, ForkStep, WaitpidStep DEF syscall

-----------------------------------------------------------------------------
(* The last step of kill_process is the death of the victim.               *)
LEMMA KillReapStep ==
  ASSUME Inv, KillReap
  PROVE  AbstractStep
<1>a. victim \in Pids
  BY DEF KillReap, Inv, SchedulerInv, VictimInv, TypeInv, TypeOK
<1>b. PICK v \in Pids : v = victim
  BY <1>a
<1> DEFINE parent == parent_pid[victim]
<1>0. v = victim /\ kpc = "reap" /\ v \in exists \ exited /\ v \in Pids /\ exists \subseteq Pids
  BY <1>b DEF KillReap, Inv, SchedulerInv, VictimInv, TypeInv, TypeOK
<1>1. CASE Panic
  BY <1>1, SameStatus DEF Panic, procVars, schedVars
<1>2. CASE ~ Panic
  <2>1. /\ ParentWaits => resume_asserts(parent) /\ ready' = ready \cup {parent}
        /\ ~ ParentWaits => UNCHANGED ready
        /\ parent_pid' = ParentsAfter
        /\ exists' = IF parent = NONE THEN exists \ {v} ELSE exists
        /\ exited' = exited \cup {v}
    BY <1>0, <1>2 DEF KillReap, resume_process
  <2>2. parent \in ((exists \ exited) \ {v}) \cup {NONE}
    BY <1>0 DEF ParentsInv, Inv, SchedulerInv
  <2>3. \A q \in Pids : parent_pid'[q] = IF parent_pid[q] = v THEN NONE ELSE parent_pid[q]
    BY <1>0, <2>1 DEF ParentsAfter
  <2>4. ParentMap' = [q \in Pids |-> IF ParentMap[q] = v \/ (q = v /\ ParentMap[v] = -1)
                                     THEN -1 ELSE ParentMap[q]]
    <3>1. ASSUME NEW q \in Pids
          PROVE  (IF q \in exists THEN parent_pid[q] ELSE NONE)'
                   = IF ParentMap[q] = v \/ (q = v /\ ParentMap[v] = -1) THEN -1 ELSE ParentMap[q]
      <4>1. ParentMap[q] = IF q \in exists THEN parent_pid[q] ELSE -1
        BY DEF ParentMap, NONE
      <4>2. ParentMap[v] = parent
        BY <1>0 DEF ParentMap
      <4>3. v # -1
        BY <1>0, ConstantFacts
      <4> QED
        BY <1>0, <2>1, <2>2, <2>3, <4>1, <4>2, <4>3 DEF NONE
    <3> QED
      BY <3>1 DEF ParentMap
  <2>5. Abstract!Alive(v)
    BY <1>0, StatusFacts DEF Abstract!Alive, StatusMap
  <2>6. ParentMap[v] = parent
    BY <1>0 DEF ParentMap
  <2>7. CASE parent = NONE
    <3>1. ~ ParentWaits
      BY <2>7 DEF ParentWaits
    <3>2. ASSUME NEW q \in Pids PROVE StatusOf(q)' = IF q = v THEN "free" ELSE StatusOf(q)
      BY <2>1, <2>7, <3>1 DEF StatusOf
    <3>3. StatusMap' = [StatusMap EXCEPT ![v] = "free"]
      BY <3>2 DEF StatusMap
    <3>4. Abstract!Die(v)
      BY <2>4, <2>5, <2>6, <2>7, <3>3 DEF Abstract!Die, StatusMap, ParentMap, NONE
    <3> QED
      BY <1>0, <3>4 DEF AbstractStep, Abstract!LNext
  <2>8. CASE parent # NONE /\ ~ ParentWaits
    <3>1. ASSUME NEW q \in Pids PROVE StatusOf(q)' = IF q = v THEN "zombie" ELSE StatusOf(q)
      BY <1>0, <2>1, <2>8 DEF StatusOf
    <3>2. StatusMap' = [StatusMap EXCEPT ![v] = "zombie"]
      BY <3>1 DEF StatusMap
    <3>3. Abstract!Die(v)
      BY <2>4, <2>5, <2>6, <2>8, <3>2 DEF Abstract!Die, StatusMap, ParentMap, NONE
    <3> QED
      BY <1>0, <3>3 DEF AbstractStep, Abstract!LNext
  <2>9. CASE parent # NONE /\ ParentWaits
    <3>1. parent \in (exists \ exited) \ ready /\ parent # v /\ parent \in Pids
      BY <1>0, <2>1, <2>2, <2>9 DEF resume_asserts
    <3>2. ASSUME NEW q \in Pids
          PROVE  StatusOf(q)' = IF q = parent THEN "ready" ELSE IF q = v THEN "zombie" ELSE StatusOf(q)
      BY <1>0, <2>1, <2>9, <3>1 DEF StatusOf
    <3>3. StatusMap' = [StatusMap EXCEPT ![v] = "zombie", ![parent] = "ready"]
      BY <1>0, <3>1, <3>2 DEF StatusMap
    <3>4. StatusMap[parent] = "blocked"
      BY <3>1, StatusFacts
    <3>5. Abstract!Die(v)
      BY <2>4, <2>5, <2>6, <2>9, <3>3, <3>4 DEF Abstract!Die, StatusMap, ParentMap, NONE
    <3> QED
      BY <1>0, <3>5 DEF AbstractStep, Abstract!LNext
  <2> QED
    BY <2>7, <2>8, <2>9
<1> QED
  BY <1>1, <1>2

LEMMA NextStep ==
  ASSUME DisciplinedPrograms, Inv, [Next]_vars
  PROVE  AbstractStep
<1>1. CASE timer_handler \/ SwitchAway \/ other_exception \/ page_fault \/ UNCHANGED vars
  BY <1>1, SameStatus DEF timer_handler, SwitchAway, context_switch, other_exception, page_fault,
                          vars, procVars, schedVars
<1>2. CASE UserCall \/ RestartCall
  BY <1>2, SyscallStep DEF UserCall, RestartCall
<1>3. CASE Panic
  BY <1>3, SameStatus DEF Panic, procVars, schedVars
<1>4. CASE keyboard_handler /\ ~ Panic
  BY <1>4, WakeStep DEF keyboard_handler, write_to_pipe, procVars, AllPipes
<1>5. CASE KillClose /\ ~ Panic
  <2>1. filedesc[victim][kfd] \in Handles \cup {NullHandle}
    BY <1>5 DEF KillClose, Inv, TypeInv, TypeOK, ControlOK
  <2>2. /\ UNCHANGED <<exists, exited, parent_pid>>
        /\ IF filedesc[victim][kfd] = NullHandle THEN UNCHANGED ready
           ELSE close_filehandle(filedesc[victim][kfd])
    BY <1>5 DEF KillClose, procVars
  <2> QED
    BY <2>1, <2>2, CloseStep, SameStatus
<1> QED
  BY <1>1, <1>2, <1>3, <1>4, <1>5, KillReapStep DEF Next, Stopped

LEMMA InitStep == Init => Abstract!LInit
<1> SUFFICES ASSUME Init PROVE Abstract!LInit
  OBVIOUS
<1>1. StatusMap = [p \in Pids |-> IF p = 1 THEN "ready" ELSE "free"]
  BY DEF StatusMap, StatusOf, Init
<1>2. ParentMap = [p \in Pids |-> -1]
  BY ConstantFacts DEF ParentMap, Init, NONE
<1> QED
  BY <1>1, <1>2 DEF Abstract!LInit, StatusMap, ParentMap

(* The kernel implements Lifecycle: the many steps of fork, waitpid, exit  *)
(* and kill, interleaved with wakeups, faults and interrupts, amount to    *)
(* creations, blockings, wakeups, deaths and releases of the abstract      *)
(* process table, each taken only when it is allowed there.                *)
THEOREM LifecycleImplemented ==
  ASSUME DisciplinedPrograms
  PROVE  Spec => ImplementsLifecycle
<1>1. Init => Inv /\ Abstract!LInit
  BY InitType, InitInv, InitStep DEF Inv
<1>2. Inv /\ [Next]_vars => Inv' /\ [Abstract!LNext]_(Abstract!lvars)
  BY NextType, NextInv, NextStep, AbstractVars DEF Inv
<1> QED
  BY <1>1, <1>2, PTL DEF Spec, ImplementsLifecycle, Abstract!LSpec
=============================================================================

--------------------------- MODULE IpamFileProofs ---------------------------
(***************************************************************************)
(* Theorems about IpamFile, for any number of processes and of crashes and *)
(* any interleaving of their steps.                                        *)
(***************************************************************************)
EXTENDS IpamFile, IpamBitmapProofs, FiniteSetTheorems

\* The inductive invariant: every map on disk or in the memory of a process
\* is well-formed, and a lock file has an owner to remove it or a dead one.
IInv ==
  /\ TypeOK
  /\ WellFormed(disk.map)
  /\ \A p \in Procs : WellFormed(mem[p])
  /\ NoStaleLock

\* At the start there is no file, no lock and no call.
LEMMA InitInvariant == Init => IInv
<1> SUFFICES ASSUME Init PROVE IInv
  OBVIOUS
<1>1. reply \in Answers
  BY AnswerTypes DEF Init
<1>2. WellFormed(disk.map) /\ \A p \in Procs : WellFormed(mem[p])
  BY NoSubnetsWellFormed DEF Init
<1>3. pc \in [Procs -> Labels] /\ attempt \in [Procs -> 1 .. LockTries]
  BY DEF Init, Labels, LockTries
<1>4. op \in [Procs -> Requests \cup {NoRequest}] /\ DOMAIN mem = Procs
  BY DEF Init
<1>5. lockFile = FALSE /\ disk.text \in Texts
  BY DEF Init, Texts
<1>6. crashes \in 0 .. MaxCrashes
  BY BoundsAssumption DEF Init
<1> QED
  BY <1>1, <1>2, <1>3, <1>4, <1>5, <1>6
     DEF IInv, TypeOK, NoStaleLock, WellFormed

-----------------------------------------------------------------------------
(* What a call decides. *)

\* A process that has read a well-formed map keeps a well-formed map in
\* memory, returns an answer, and goes on to dump or to unlock.
LEMMA Decision ==
  ASSUME IInv, NEW p \in Procs, NEW m, WellFormed(m),
         DecideCreate(p, m) \/ DecideAllocate(p, m) \/ DecideRelease(p, m)
  PROVE  /\ reply' \in Answers
         /\ pc' = [pc EXCEPT ![p] = "truncate"] \/ pc' = [pc EXCEPT ![p] = "unlock"]
         /\ DOMAIN mem' = Procs
         /\ \A q \in Procs : WellFormed(mem'[q])
<1> DEFINE s == op[p].subnet
<1>1. op[p] \in Requests \cup {NoRequest}
  BY DEF IInv, TypeOK
<1>2. \A o \in {"ok", "error", "panic"} : Answer(op[p], o, NilIP) \in Answers
  BY <1>1, AnswerTypes
<1>3. ASSUME NEW r \in Answers, Returns(p, r) PROVE /\ reply' \in Answers
         /\ pc' = [pc EXCEPT ![p] = "unlock"]
         /\ DOMAIN mem' = Procs
         /\ \A q \in Procs : WellFormed(mem'[q])
  BY <1>3 DEF Returns, Goto, IInv, TypeOK
<1>4. ASSUME NEW r \in Answers, NEW n, WellFormed(n), Dumps(p, n, r)
      PROVE  /\ reply' \in Answers
             /\ pc' = [pc EXCEPT ![p] = "truncate"]
             /\ DOMAIN mem' = Procs
             /\ \A q \in Procs : WellFormed(mem'[q])
  BY <1>4 DEF Dumps, Goto, IInv, TypeOK
<1>5. CASE DecideCreate(p, m)
  <2>1. s \in Subnets
    BY <1>1, <1>5, RequestParts DEF DecideCreate
  <2>2. CanCreate(m, s) => WellFormed(WithSubnet(m, s))
    BY <2>1, CreateWellFormed
  <2> QED
    BY <1>2, <1>3, <1>4, <1>5, <2>2 DEF DecideCreate
<1>6. CASE DecideAllocate(p, m)
  <2> DEFINE o == FirstFree(m, s)
  <2>1. ASSUME s \in DOMAIN m, FreeBits(m, s) # {}
        PROVE  /\ WellFormed(WithBit(m, s, o))
               /\ Answer(op[p], "ok", AddrOf(s, o)) \in Answers
    <3>1. s \in Small /\ o \in Offsets(s)
      BY <2>1, FirstFreeIsFree DEF WellFormed, FreeBits
    <3>2. AddrOf(s, o) \in Addresses
      BY <3>1, OffsetOfAddrOf
    <3>3. WellFormed(WithBit(m, s, o))
      BY <2>1, AllocateWellFormed
    <3> QED
      BY <1>1, <3>2, <3>3, AnswerTypes
  <2> QED
    BY <1>2, <1>3, <1>4, <1>6, <2>1 DEF DecideAllocate
<1>7. CASE DecideRelease(p, m)
  <2>1. ~ReleasePanics(m, s, op[p].ip) => WellFormed(Released(m, s, op[p].ip))
    BY ReleaseWellFormed
  <2> QED
    BY <1>2, <1>3, <1>4, <1>7, <2>1 DEF DecideRelease
<1> QED
  BY <1>5, <1>6, <1>7

-----------------------------------------------------------------------------
(* Every step preserves the invariant. *)

\* Every step of a call, and a crash, keeps the invariant.
LEMMA StepInvariant == IInv /\ [Next]_vars => IInv'
<1> SUFFICES ASSUME IInv, [Next]_vars PROVE IInv'
  OBVIOUS
<1> USE DEF Labels, Section
<1>1. CASE UNCHANGED vars
  BY <1>1 DEF vars, IInv, TypeOK, NoStaleLock
<1>2. ASSUME NEW p \in Procs, NEW r \in Requests, Call(p, r) PROVE IInv'
  BY <1>2 DEF Call, Goto, IInv, TypeOK, NoStaleLock
<1>3. ASSUME NEW p \in Procs,
             LockFound(p) \/ LockGivenUp(p) \/ LockAbsent(p) \/ LockCreated(p)
      PROVE  IInv'
  <2>1. CASE LockFound(p)
    BY <2>1 DEF LockFound, LockTries, IInv, TypeOK, NoStaleLock
  <2>2. CASE LockGivenUp(p)
    BY <2>2 DEF LockGivenUp, Goto, IInv, TypeOK, NoStaleLock
  <2>3. CASE LockAbsent(p)
    BY <2>3 DEF LockAbsent, Goto, IInv, TypeOK, NoStaleLock
  <2>4. CASE LockCreated(p)
    BY <2>4 DEF LockCreated, Goto, IInv, TypeOK, NoStaleLock
  <2> QED
    BY <1>3, <2>1, <2>2, <2>3, <2>4
<1>4. ASSUME NEW p \in Procs, Load(p) PROVE IInv'
  <2>1. WellFormed(disk.map)
    BY DEF IInv
  <2>2. /\ reply' \in Answers
        /\ pc' = [pc EXCEPT ![p] = "truncate"] \/ pc' = [pc EXCEPT ![p] = "unlock"]
        /\ DOMAIN mem' = Procs
        /\ \A q \in Procs : WellFormed(mem'[q])
    BY <1>4, <2>1, Decision DEF Load
  <2> QED
    BY <1>4, <2>2 DEF Load, IInv, TypeOK, NoStaleLock, WellFormed
<1>5. ASSUME NEW p \in Procs, LoadFails(p) PROVE IInv'
  <2>1. /\ reply' \in Answers
        /\ pc' = [pc EXCEPT ![p] = "truncate"] \/ pc' = [pc EXCEPT ![p] = "unlock"]
        /\ DOMAIN mem' = Procs
        /\ \A q \in Procs : WellFormed(mem'[q])
    <3>1. CASE DecideRelease(p, NoSubnets)
      BY <3>1, NoSubnetsWellFormed, Decision
    <3>2. CASE Returns(p, Answer(op[p], "error", NilIP))
      <4>1. Answer(op[p], "error", NilIP) \in Answers
        BY AnswerTypes DEF IInv, TypeOK
      <4> QED
        BY <3>2, <4>1 DEF Returns, Goto, IInv, TypeOK
    <3> QED
      BY <1>5, <3>1, <3>2 DEF LoadFails
  <2> QED
    BY <1>5, <2>1 DEF LoadFails, IInv, TypeOK, NoStaleLock, WellFormed
<1>6. ASSUME NEW p \in Procs, Truncate(p) PROVE IInv'
  <2>1. disk'.text \in Texts /\ WellFormed(disk'.map)
    BY <1>6, NoSubnetsWellFormed DEF Truncate, Texts
  <2> QED
    BY <1>6, <2>1 DEF Truncate, Goto, IInv, TypeOK, NoStaleLock, WellFormed
<1>7. ASSUME NEW p \in Procs, Write(p) PROVE IInv'
  <2>1. disk' \in { [text |-> "json", map |-> mem[p]],
                    [text |-> "broken", map |-> NoSubnets] }
    BY <1>7 DEF Write, Written, IInv, TypeOK, Texts
  <2>2. disk'.text \in Texts /\ WellFormed(disk'.map)
    BY <2>1, NoSubnetsWellFormed DEF IInv, Texts
  <2> QED
    BY <1>7, <2>2 DEF Write, Goto, IInv, TypeOK, NoStaleLock, WellFormed
<1>8. ASSUME NEW p \in Procs, Forget(p)
      PROVE  /\ pc' = [pc EXCEPT ![p] = "idle"]
             /\ op' \in [Procs -> Requests \cup {NoRequest}]
             /\ attempt' \in [Procs -> 1 .. LockTries]
             /\ DOMAIN mem' = Procs
             /\ \A q \in Procs : WellFormed(mem'[q])
  BY <1>8, NoSubnetsWellFormed DEF Forget, Goto, IInv, TypeOK, LockTries
<1>9. ASSUME NEW p \in Procs, Unlock(p) PROVE IInv'
  BY <1>8, <1>9 DEF Unlock, IInv, TypeOK, NoStaleLock, WellFormed
<1>10. ASSUME NEW p \in Procs, Crash(p) PROVE IInv'
  <2>1. crashes' \in 0 .. MaxCrashes /\ crashes' > 0
    BY <1>10, BoundsAssumption DEF Crash, IInv, TypeOK
  <2> QED
    BY <1>8, <1>10, <2>1 DEF Crash, IInv, TypeOK, NoStaleLock, WellFormed
<1> QED
  BY <1>1, <1>2, <1>3, <1>4, <1>5, <1>6, <1>7, <1>9, <1>10 DEF Next, Step

\* The invariant holds in every reachable state.
LEMMA Invariant == Spec => []IInv
<1>1. Init => IInv
  BY InitInvariant
<1>2. IInv /\ [Next]_vars => IInv'
  BY StepInvariant
<1> QED
  BY <1>1, <1>2, PTL DEF Spec

-----------------------------------------------------------------------------
(* Safety. *)

\* Every variable keeps its type under any interleaving and any crash.
THEOREM FileTypeCorrect == Spec => []TypeOK
<1>1. IInv => TypeOK
  BY DEF IInv
<1> QED
  BY <1>1, Invariant, PTL

\* However many processes race without exclusion, and wherever they are
\* killed, subnet.json never holds a map with overlapping subnets or with a
\* gateway that could be handed out.
THEOREM FileWellFormed == Spec => []DiskWellFormed
<1>1. IInv => DiskWellFormed
  BY WellFormedDisjoint DEF IInv, DiskWellFormed, WellFormed
<1> QED
  BY <1>1, Invariant, PTL

\* Every return path of the three calls, panics included, removes the lock.
THEOREM NoLockLeftBehind == Spec => []NoStaleLock
<1>1. IInv => NoStaleLock
  BY DEF IInv
<1> QED
  BY <1>1, Invariant, PTL

\* A file that does not parse makes every call fail but the release of a
\* gateway, which rewrites it without any subnet.
THEOREM UnreadableFileLosesAll == Spec => TornLosesAll
<1> DEFINE Loses ==
      \A p \in Procs :
        LoadFails(p) /\ pc'[p] = "truncate" =>
          /\ op[p].kind = "release"
          /\ op[p].ip = Gateway(op[p].subnet)
          /\ mem'[p] = NoSubnets
<1>1. ASSUME IInv, NEW p \in Procs, LoadFails(p), pc'[p] = "truncate"
      PROVE  /\ op[p].kind = "release"
             /\ op[p].ip = Gateway(op[p].subnet)
             /\ mem'[p] = NoSubnets
  <2> DEFINE s == op[p].subnet
             a == op[p].ip
  <2>1. pc' # [pc EXCEPT ![p] = "unlock"]
    BY <1>1 DEF IInv, TypeOK
  <2>2. /\ op[p].kind = "release"
        /\ ~ReleasePanics(NoSubnets, s, a)
        /\ mem' = [mem EXCEPT ![p] = Released(NoSubnets, s, a)]
    BY <1>1, <2>1 DEF LoadFails, DecideRelease, Returns, Dumps, Goto
  <2>3. s \in Small /\ a \in Block(s) \cup {NilIP}
    BY <1>1, <2>2, RequestParts DEF IInv, TypeOK
  <2>4. a # NilIP /\ OffsetOf(s, a) = GatewayBit
    BY <2>2 DEF ReleasePanics, NoSubnets
  <2>5. a = Gateway(s)
    BY <2>3, <2>4, BlockFacts
  <2>6. Released(NoSubnets, s, a) = NoSubnets
    BY <2>4 DEF Released, WithoutSubnet, NoSubnets
  <2> QED
    BY <1>1, <2>2, <2>5, <2>6 DEF IInv, TypeOK
<1>2. IInv /\ [Next]_vars => [Loses]_vars
  BY <1>1
<1>3. Spec => [][Loses]_vars
  BY <1>2, Invariant, PTL DEF Spec
<1> QED
  BY <1>3 DEF TornLosesAll

-----------------------------------------------------------------------------
(* Calls that come one at a time. *)

Alone == \A p, q \in Procs : pc[p] # "idle" /\ pc[q] # "idle" => p = q

\* A call that is about to write has just truncated the file, and nobody else
\* has touched it.
SerialInv ==
  /\ IInv /\ Alone
  /\ \A p \in Procs : pc[p] = "write" => disk.text = "empty"
  /\ TornByCrash

LEMMA SerialInit == Init => SerialInv
<1>1. Init => IInv
  BY InitInvariant
<1> QED
  BY <1>1 DEF Init, SerialInv, Alone, TornByCrash

LEMMA NobodyInside ==
  ASSUME Alone, Cardinality(Active) < 1
  PROVE  \A p \in Procs : pc[p] = "idle"
<1> SUFFICES ASSUME NEW p \in Procs, pc[p] # "idle" PROVE FALSE
  OBVIOUS
<1>1. Active = {p}
  BY DEF Active, Alone
<1>2. Cardinality(Active) = 1
  BY <1>1, FS_Singleton
<1> QED
  BY <1>2

\* A step of the call that is under way leaves it the only one.
LEMMA OneGoesOn ==
  ASSUME IInv, Alone, NEW p \in Procs, pc[p] # "idle", NEW l, pc' = [pc EXCEPT ![p] = l]
  PROVE  /\ Alone' /\ pc'[p] = l
         /\ \A q \in Procs : q # p => pc[q] = "idle" /\ pc'[q] = "idle"
  BY DEF Alone, IInv, TypeOK

\* What a call decides, it dumps or not.
LEMMA DecidesPc ==
  ASSUME NEW p \in Procs, NEW m,
         DecideCreate(p, m) \/ DecideAllocate(p, m) \/ DecideRelease(p, m)
  PROVE  \E l \in {"truncate", "unlock"} : pc' = [pc EXCEPT ![p] = l]
<1>1. ASSUME NEW n, NEW r, Dumps(p, n, r)
      PROVE  \E l \in {"truncate", "unlock"} : pc' = [pc EXCEPT ![p] = l]
  BY <1>1 DEF Dumps, Goto
<1>2. ASSUME NEW r, Returns(p, r)
      PROVE  \E l \in {"truncate", "unlock"} : pc' = [pc EXCEPT ![p] = l]
  BY <1>2 DEF Returns, Goto
<1> QED
  BY <1>1, <1>2 DEF DecideCreate, DecideAllocate, DecideRelease

\* What a step does to the places of the processes, and to the file.
LEMMA StepEffect ==
  ASSUME IInv, NEW p \in Procs, Step(p)
  PROVE  /\ pc[p] # "idle" /\ crashes' = crashes
         /\ \E l \in Labels : pc' = [pc EXCEPT ![p] = l]
         /\ \/ disk' = disk /\ pc'[p] # "write" /\ pc[p] # "write"
            \/ Truncate(p) /\ disk'.text = "empty" /\ pc'[p] = "write"
            \/ Write(p) /\ pc'[p] = "unlock"
<1> USE DEF Labels, Section
<1>0. pc \in [Procs -> Labels]
  BY DEF IInv, TypeOK
<1>1. CASE LockFound(p)
  <2>1. pc' = pc /\ pc = [pc EXCEPT ![p] = "lock"]
    BY <1>0, <1>1 DEF LockFound
  <2> QED
    BY <1>0, <1>1, <2>1 DEF LockFound
<1>2. CASE LockGivenUp(p) \/ LockAbsent(p) \/ LockCreated(p)
  BY <1>0, <1>2 DEF LockGivenUp, LockAbsent, LockCreated, Goto
<1>3. CASE Load(p)
  <2>1. PICK l \in {"truncate", "unlock"} : pc' = [pc EXCEPT ![p] = l]
    BY <1>3, DecidesPc DEF Load
  <2> QED
    BY <1>0, <1>3, <2>1 DEF Load
<1>4. CASE LoadFails(p)
  <2>1. PICK l \in {"truncate", "unlock"} : pc' = [pc EXCEPT ![p] = l]
    BY <1>4, DecidesPc DEF LoadFails, Returns, Goto
  <2> QED
    BY <1>0, <1>4, <2>1 DEF LoadFails
<1>5. CASE Truncate(p)
  BY <1>0, <1>5 DEF Truncate, Goto
<1>6. CASE Write(p)
  BY <1>0, <1>6 DEF Write, Goto
<1>7. CASE Unlock(p)
  BY <1>0, <1>7 DEF Unlock, Forget, Goto
<1> QED
  BY <1>1, <1>2, <1>3, <1>4, <1>5, <1>6, <1>7 DEF Step

LEMMA SerialStep ==
  ASSUME MaxActive = 1, SerialInv, [Next]_vars
  PROVE  SerialInv'
<1>1. IInv'
  BY StepInvariant DEF SerialInv
<1>2. IInv /\ Alone /\ TornByCrash /\ pc \in [Procs -> Labels] /\ crashes \in Nat
  BY BoundsAssumption DEF SerialInv, IInv, TypeOK
<1>3. CASE UNCHANGED vars
  BY <1>1, <1>2, <1>3 DEF vars, SerialInv, Alone, TornByCrash
<1>4. ASSUME NEW p \in Procs, NEW r \in Requests, Call(p, r) PROVE SerialInv'
  <2>1. \A q \in Procs : pc[q] = "idle"
    BY <1>2, <1>4, NobodyInside DEF Call
  <2>2. \A q \in Procs : pc'[q] = IF q = p THEN "lock" ELSE "idle"
    BY <1>2, <1>4, <2>1 DEF Call, Goto
  <2>3. disk' = disk /\ crashes' = crashes
    BY <1>4 DEF Call
  <2> QED
    BY <1>1, <1>2, <2>1, <2>2, <2>3 DEF SerialInv, Alone, TornByCrash
<1>5. ASSUME NEW p \in Procs, Step(p) PROVE SerialInv'
  <2>1. PICK l \in Labels : pc' = [pc EXCEPT ![p] = l]
    BY <1>2, <1>5, StepEffect
  <2>2. pc[p] # "idle" /\ crashes' = crashes
    BY <1>2, <1>5, StepEffect
  <2>3. /\ Alone' /\ pc'[p] = l
        /\ \A q \in Procs : q # p => pc[q] = "idle" /\ pc'[q] = "idle"
    BY <1>2, <2>1, <2>2, OneGoesOn
  <2>4. CASE disk' = disk /\ pc'[p] # "write" /\ pc[p] # "write"
    <3>1. \A q \in Procs : pc[q] # "write" /\ pc'[q] # "write"
      BY <2>3, <2>4
    <3>2. TornByCrash'
      BY <1>2, <2>2, <2>4, <3>1 DEF TornByCrash
    <3> QED
      BY <1>1, <2>3, <3>1, <3>2 DEF SerialInv
  <2>5. CASE disk'.text = "empty" /\ pc'[p] = "write"
    BY <1>1, <2>3, <2>5 DEF SerialInv, TornByCrash
  <2>6. CASE Write(p) /\ pc'[p] = "unlock"
    <3>1. disk.text = "empty"
      BY <2>6 DEF SerialInv, Write
    <3>2. disk'.text = "json"
      BY <2>6, <3>1 DEF Write, Written
    <3>3. \A q \in Procs : pc'[q] # "write"
      BY <2>3, <2>6
    <3> QED
      BY <1>1, <2>3, <3>2, <3>3 DEF SerialInv, TornByCrash
  <2> QED
    BY <1>2, <1>5, <2>4, <2>5, <2>6, StepEffect
<1>6. ASSUME NEW p \in Procs, Crash(p) PROVE SerialInv'
  <2>1. pc[p] # "idle" /\ pc' = [pc EXCEPT ![p] = "idle"] /\ crashes' > 0
    BY <1>2, <1>6 DEF Crash, Forget, Goto
  <2>2. /\ Alone' /\ pc'[p] = "idle"
        /\ \A q \in Procs : q # p => pc[q] = "idle" /\ pc'[q] = "idle"
    BY <1>2, <2>1, OneGoesOn
  <2>3. \A q \in Procs : pc'[q] # "write"
    BY <2>2
  <2> QED
    BY <1>1, <2>1, <2>2, <2>3 DEF SerialInv, TornByCrash
<1> QED
  BY <1>3, <1>4, <1>5, <1>6 DEF Next

LEMMA SerialInvariant ==
  ASSUME MaxActive = 1
  PROVE  Spec => []SerialInv
<1>1. SerialInv /\ [Next]_vars => SerialInv'
  BY SerialStep
<1> QED
  BY <1>1, SerialInit, PTL DEF Spec

\* When calls come one at a time, a file that does not parse is a crash's.
THEOREM OnlyCrashesTear ==
  ASSUME MaxActive = 1
  PROVE  Spec => []TornByCrash
<1>1. SerialInv => TornByCrash
  BY DEF SerialInv
<1> QED
  BY <1>1, SerialInvariant, PTL

-----------------------------------------------------------------------------
(* Refinement: calls that come one at a time are those of Ipam. *)

LEMMA CurrentOf ==
  ASSUME Alone
  PROVE  /\ \A p \in Procs : pc[p] \in {"truncate", "write"} => Current = mem[p]
         /\ (\A p \in Procs : pc[p] \notin {"truncate", "write"}) => Current = disk.map
<1>1. ASSUME NEW p \in Procs, pc[p] \in {"truncate", "write"} PROVE Current = mem[p]
  <2>1. Decided = {p}
    BY <1>1 DEF Decided, Alone
  <2>2. (CHOOSE q \in Decided : TRUE) = p
    BY <2>1
  <2> QED
    BY <2>1, <2>2 DEF Current
<1>2. ASSUME \A p \in Procs : pc[p] \notin {"truncate", "write"} PROVE Current = disk.map
  <2>1. Decided = {}
    BY <1>2 DEF Decided
  <2> QED
    BY <2>1 DEF Current
<1> QED
  BY <1>1, <1>2

LEMMA NextCurrentOf ==
  ASSUME Alone'
  PROVE  /\ \A p \in Procs : pc'[p] \in {"truncate", "write"} => Current' = mem'[p]
         /\ (\A p \in Procs : pc'[p] \notin {"truncate", "write"}) => Current' = disk'.map
<1>1. ASSUME NEW p \in Procs, pc'[p] \in {"truncate", "write"} PROVE Current' = mem'[p]
  <2>1. Decided' = {p}
    BY <1>1 DEF Decided, Alone
  <2>2. (CHOOSE q \in Decided' : TRUE) = p
    BY <2>1
  <2> QED
    BY <2>1, <2>2 DEF Current
<1>2. ASSUME \A p \in Procs : pc'[p] \notin {"truncate", "write"} PROVE Current' = disk'.map
  <2>1. Decided' = {}
    BY <1>2 DEF Decided
  <2> QED
    BY <2>1 DEF Current
<1> QED
  BY <1>1, <1>2

\* Ipam computes what a call computes.
LEMMA SameData ==
  /\ Calls!Octet = Octet
  /\ \A k, s, a : Calls!Request(k, s, a) = Request(k, s, a)
  /\ \A q, o, a : Calls!Answer(q, o, a) = Answer(q, o, a)
  /\ \A s, o : Calls!AddrOf(s, o) = AddrOf(s, o)
  /\ \A s : Calls!Block(s) = Block(s)
  /\ \A m, s : Calls!CanCreate(m, s) <=> CanCreate(m, s)
  /\ \A m, s : Calls!WithSubnet(m, s) = WithSubnet(m, s)
  /\ \A m, s : Calls!FreeBits(m, s) = FreeBits(m, s)
  /\ \A m, s : Calls!FirstFree(m, s) = FirstFree(m, s)
  /\ \A m, s, o : Calls!WithBit(m, s, o) = WithBit(m, s, o)
  /\ \A m, s, a : Calls!ReleasePanics(m, s, a) <=> ReleasePanics(m, s, a)
  /\ \A m, s, a : Calls!Released(m, s, a) = Released(m, s, a)
<1>1. Calls!Octet = Octet /\ Calls!GatewayBit = GatewayBit
  BY DEF Calls!Octet, Octet, Calls!GatewayBit, GatewayBit
<1>2. \A k, s, a : Calls!Request(k, s, a) = Request(k, s, a)
  BY DEF Calls!Request, Request
<1>3. \A q, o, a : Calls!Answer(q, o, a) = Answer(q, o, a)
  BY DEF Calls!Answer, Answer
<1>4. \A s, o : Calls!AddrOf(s, o) = AddrOf(s, o)
  BY <1>1 DEF Calls!AddrOf, AddrOf
<1>5. \A s : Calls!Offsets(s) = Offsets(s)
  BY DEF Calls!Offsets, Offsets
<1>6. \A s : Calls!Block(s) = Block(s)
  BY <1>4, <1>5 DEF Calls!Block, Block
<1>7. \A m, s : Calls!CanCreate(m, s) <=> CanCreate(m, s)
  BY <1>1
     DEF Calls!CanCreate, CanCreate, Calls!Conflicts, Conflicts, Calls!Covers, Covers
<1>8. \A m, s : Calls!WithSubnet(m, s) = WithSubnet(m, s)
  BY DEF Calls!WithSubnet, WithSubnet
<1>9. \A m, s : Calls!FreeBits(m, s) = FreeBits(m, s)
  BY <1>5 DEF Calls!FreeBits, FreeBits
<1>10. \A m, s : Calls!FirstFree(m, s) = FirstFree(m, s)
  BY DEF Calls!FirstFree, FirstFree, Calls!FreeBits, FreeBits, Calls!Offsets, Offsets
<1>11. \A m, s, o : Calls!WithBit(m, s, o) = WithBit(m, s, o)
  BY DEF Calls!WithBit, WithBit
<1>12. \A s, a : Calls!OffsetOf(s, a) = OffsetOf(s, a)
  BY <1>1 DEF Calls!OffsetOf, OffsetOf
<1>13. \A m, s, a : Calls!ReleasePanics(m, s, a) <=> ReleasePanics(m, s, a)
  BY <1>1, <1>12 DEF Calls!ReleasePanics, ReleasePanics
<1>14. \A m, s, a : Calls!Released(m, s, a) = Released(m, s, a)
  BY <1>1, <1>12
     DEF Calls!Released, Released, Calls!WithoutSubnet, WithoutSubnet,
         Calls!WithoutBit, WithoutBit
<1> QED
  BY <1>1, <1>2, <1>3, <1>4, <1>6, <1>7, <1>8, <1>9, <1>10, <1>11, <1>13, <1>14

\* What a call decides from the file is a step of Ipam.
LEMMA DecisionIsCall ==
  ASSUME IInv, NEW p \in Procs, pc[p] = "load", Current = disk.map,
         NEW next, Current' = next,
         \/ pc'[p] = "truncate" /\ next = mem'[p]
         \/ pc'[p] = "unlock" /\ next = disk.map,
         DecideCreate(p, disk.map) \/ DecideAllocate(p, disk.map) \/ DecideRelease(p, disk.map)
  PROVE  Calls!Next
<1> DEFINE s == op[p].subnet
           a == op[p].ip
           m == disk.map
<1>1. op[p] \in Requests \cup {NoRequest} /\ pc \in [Procs -> Labels] /\ DOMAIN mem = Procs
  BY DEF IInv, TypeOK
<1>2. ASSUME NEW n, NEW r, Dumps(p, n, r)
      PROVE  pc'[p] = "truncate" /\ reply' = r /\ Current' = n
  BY <1>1, <1>2 DEF Dumps, Goto
<1>3. ASSUME NEW r, Returns(p, r)
      PROVE  pc'[p] = "unlock" /\ reply' = r /\ Current' = m
  BY <1>1, <1>3 DEF Returns, Goto
<1>4. CASE DecideCreate(p, m)
  <2>1. s \in Subnets /\ op[p] = Request("create", s, NilIP)
    BY <1>1, <1>4 DEF DecideCreate, Requests, Request, NoRequest
  <2>2. CASE CanCreate(m, s) /\ Dumps(p, WithSubnet(m, s), Answer(op[p], "ok", NilIP))
    BY <1>2, <2>1, <2>2, SameData DEF Calls!Next, Calls!CallOn, Calls!Create
  <2>3. CASE ~CanCreate(m, s) /\ Returns(p, Answer(op[p], "error", NilIP))
    BY <1>3, <2>1, <2>3, SameData DEF Calls!Next, Calls!CallOn, Calls!CreateRefused
  <2> QED
    BY <1>4, <2>2, <2>3 DEF DecideCreate
<1>5. CASE DecideAllocate(p, m)
  <2>1. s \in Subnets /\ op[p] = Request("allocate", s, NilIP)
    BY <1>1, <1>5 DEF DecideAllocate, Requests, Request, NoRequest
  <2>2. CASE s \notin DOMAIN m /\ Returns(p, Answer(op[p], "error", NilIP))
    BY <1>3, <2>1, <2>2, SameData DEF Calls!Next, Calls!CallOn, Calls!AllocateRefused
  <2>3. CASE s \in DOMAIN m /\ FreeBits(m, s) = {} /\ Dumps(p, m, Answer(op[p], "ok", NilIP))
    BY <1>2, <2>1, <2>3, SameData DEF Calls!Next, Calls!CallOn, Calls!AllocateExhausted
  <2>4. CASE /\ s \in DOMAIN m /\ FreeBits(m, s) # {}
             /\ Dumps(p, WithBit(m, s, FirstFree(m, s)),
                      Answer(op[p], "ok", AddrOf(s, FirstFree(m, s))))
    BY <1>2, <2>1, <2>4, SameData DEF Calls!Next, Calls!CallOn, Calls!Allocate
  <2> QED
    BY <1>5, <2>2, <2>3, <2>4 DEF DecideAllocate
<1>6. CASE DecideRelease(p, m)
  <2>1. /\ s \in Subnets /\ s.size <= Octet /\ a \in Block(s) \cup {NilIP}
        /\ op[p] = Request("release", s, a)
    BY <1>1, <1>6 DEF DecideRelease, Requests, Request, NoRequest
  <2>2. CASE ReleasePanics(m, s, a) /\ Returns(p, Answer(op[p], "panic", NilIP))
    BY <1>3, <2>1, <2>2, SameData DEF Calls!Next, Calls!CallOn, Calls!ReleaseRefused
  <2>3. CASE ~ReleasePanics(m, s, a) /\ Dumps(p, Released(m, s, a), Answer(op[p], "ok", NilIP))
    BY <1>2, <2>1, <2>3, SameData DEF Calls!Next, Calls!CallOn, Calls!Release
  <2> QED
    BY <1>6, <2>2, <2>3 DEF DecideRelease
<1> QED
  BY <1>4, <1>5, <1>6

\* All that a call does before and after it decides is hidden.
LEMMA CallsStep ==
  ASSUME MaxActive = 1, SerialInv, [Next]_vars
  PROVE  [crashes' = 0 => Calls!Next]_(Calls!vars)
<1> SUFFICES ASSUME crashes' = 0
             PROVE  (Current' = Current /\ reply' = reply) \/ Calls!Next
  BY DEF Calls!vars
<1> USE DEF Labels, Section
<1>1. /\ IInv /\ Alone /\ TornByCrash /\ Alone'
      /\ pc \in [Procs -> Labels] /\ DOMAIN mem = Procs
  BY SerialStep DEF SerialInv, IInv, TypeOK
<1>2. CASE UNCHANGED vars
  BY <1>2 DEF vars, Current, Decided
<1>3. ASSUME NEW p \in Procs, NEW r \in Requests, Call(p, r)
      PROVE  Current' = Current /\ reply' = reply
  <2>1. \A q \in Procs : pc[q] = "idle"
    BY <1>1, <1>3, NobodyInside DEF Call
  <2>2. /\ \A q \in Procs : pc'[q] = IF q = p THEN "lock" ELSE "idle"
        /\ disk' = disk /\ reply' = reply
    BY <1>1, <1>3, <2>1 DEF Call, Goto
  <2>3. Current = disk.map /\ Current' = disk'.map
    BY <1>1, <2>1, <2>2, CurrentOf, NextCurrentOf
  <2> QED
    BY <2>2, <2>3
<1>4. ASSUME NEW p \in Procs, Step(p)
      PROVE  (Current' = Current /\ reply' = reply) \/ Calls!Next
  <2>1. PICK l \in Labels : pc' = [pc EXCEPT ![p] = l]
    BY <1>1, <1>4, StepEffect
  <2>2. pc[p] # "idle" /\ crashes = 0
    BY <1>1, <1>4, StepEffect
  <2>3. pc'[p] = l /\ \A q \in Procs : q # p => pc[q] = "idle" /\ pc'[q] = "idle"
    BY <1>1, <2>1, <2>2, OneGoesOn
  <2>4. /\ pc[p] \in {"truncate", "write"} => Current = mem[p]
        /\ pc[p] \notin {"truncate", "write"} => Current = disk.map
    BY <1>1, <2>3, CurrentOf
  <2>5. /\ pc'[p] \in {"truncate", "write"} => Current' = mem'[p]
        /\ pc'[p] \notin {"truncate", "write"} => Current' = disk'.map
    BY <1>1, <2>3, NextCurrentOf
  <2>6. CASE LockFound(p) \/ LockGivenUp(p) \/ LockAbsent(p) \/ LockCreated(p)
    <3>1. /\ pc[p] \notin {"truncate", "write"} /\ pc'[p] \notin {"truncate", "write"}
          /\ disk' = disk /\ reply' = reply
      BY <1>1, <2>6 DEF LockFound, LockGivenUp, LockAbsent, LockCreated, Goto
    <3> QED
      BY <2>4, <2>5, <3>1
  <2>7. CASE Load(p)
    <3>1. pc[p] = "load" /\ disk' = disk
      BY <2>7 DEF Load
    <3>2. PICK k \in {"truncate", "unlock"} : pc' = [pc EXCEPT ![p] = k]
      BY <2>7, DecidesPc DEF Load
    <3>3. pc'[p] \in {"truncate", "unlock"}
      BY <1>1, <3>2
    <3>4. Current = disk.map
      BY <2>4, <3>1
    <3>5. \/ pc'[p] = "truncate" /\ Current' = mem'[p]
          \/ pc'[p] = "unlock" /\ Current' = disk.map
      BY <2>5, <3>1, <3>3
    <3>6. DecideCreate(p, disk.map) \/ DecideAllocate(p, disk.map) \/ DecideRelease(p, disk.map)
      BY <2>7 DEF Load
    <3> QED
      BY <1>1, <3>1, <3>4, <3>5, <3>6, DecisionIsCall
  <2>8. CASE LoadFails(p)
    <3>1. pc[p] = "load" /\ disk.text # "json"
      BY <2>8 DEF LoadFails
    <3>2. PICK q \in Procs : pc[q] = "write"
      BY <1>1, <2>2, <3>1, BoundsAssumption DEF TornByCrash
    <3> QED
      BY <2>3, <3>1, <3>2
  <2>9. CASE Truncate(p)
    <3>1. /\ pc[p] = "truncate" /\ pc'[p] = "write"
          /\ mem' = mem /\ reply' = reply
      BY <1>1, <2>9 DEF Truncate, Goto
    <3> QED
      BY <2>4, <2>5, <3>1
  <2>10. CASE Write(p)
    <3>1. pc[p] = "write" /\ pc'[p] = "unlock" /\ reply' = reply
      BY <1>1, <2>10 DEF Write, Goto
    <3>2. disk.text = "empty"
      BY <3>1 DEF SerialInv
    <3>3. disk'.map = mem[p]
      BY <2>10, <3>2 DEF Write, Written
    <3> QED
      BY <2>4, <2>5, <3>1, <3>3
  <2>11. CASE Unlock(p)
    <3>1. pc[p] = "unlock" /\ pc'[p] = "idle" /\ disk' = disk /\ reply' = reply
      BY <1>1, <2>11 DEF Unlock, Forget, Goto
    <3> QED
      BY <2>4, <2>5, <3>1
  <2> QED
    BY <1>4, <2>6, <2>7, <2>8, <2>9, <2>10, <2>11 DEF Step
<1>5. ASSUME NEW p \in Procs, Crash(p) PROVE FALSE
  <2>1. crashes \in Nat /\ crashes' = crashes + 1
    BY <1>1, <1>5, BoundsAssumption DEF Crash, IInv, TypeOK
  <2> QED
    BY <2>1
<1> QED
  BY <1>2, <1>3, <1>4, <1>5 DEF Next

\* The steps of ipam.go's calls, when these do not overlap and until the first
\* of them is killed, are the calls of Ipam, each of which takes effect at once.
THEOREM FileImplementsIpam ==
  ASSUME MaxActive = 1
  PROVE  Spec => ImplementsIpam
<1>1. Init => Calls!Init
  <2> SUFFICES ASSUME Init PROVE Calls!Init
    OBVIOUS
  <2>1. Decided = {}
    BY DEF Init, Decided
  <2>2. Current = NoSubnets
    BY <2>1 DEF Current, Init
  <2>3. /\ reply = Answer(NoRequest, "ok", NilIP)
        /\ Calls!NoSubnets = NoSubnets /\ Calls!NoRequest = NoRequest
    BY SameData
       DEF Init, Calls!NoSubnets, NoSubnets, Calls!NoRequest, NoRequest, Calls!Request, Request
  <2> QED
    BY <2>2, <2>3, SameData DEF Calls!Init
<1>2. SerialInv /\ [Next]_vars => [crashes' = 0 => Calls!Next]_(Calls!vars)
  BY CallsStep
<1>3. Spec => [][crashes' = 0 => Calls!Next]_(Calls!vars)
  BY <1>2, SerialInvariant, PTL DEF Spec
<1>4. Spec => Calls!Init
  BY <1>1 DEF Spec
<1> QED
  BY <1>3, <1>4 DEF ImplementsIpam

=============================================================================

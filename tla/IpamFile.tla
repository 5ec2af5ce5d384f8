------------------------------ MODULE IpamFile ------------------------------
(***************************************************************************)
(* The IP address manager of network/ipam.go as concurrent processes run   *)
(* it: every qsrdocker command is a process of its own, and all share      *)
(* subnet.json and its lock file.                                          *)
(*                                                                         *)
(* A call takes the lock, reads the file, decides, truncates the file,     *)
(* writes it and removes the lock.  The lock is looked for and then        *)
(* created in two steps, and a call that finds it twice goes on without    *)
(* it.  A process may be killed between any two steps; I/O errors other    *)
(* than a file that does not parse are not modelled.                       *)
(***************************************************************************)
EXTENDS IpamBitmap, FiniteSets

CONSTANTS
  Procs,       \* the processes that may call the manager
  MaxActive,   \* bound: how many are inside a call at the same time
  MaxCrashes   \* bound: how many are killed inside a call

ASSUME BoundsAssumption == MaxActive \in Nat /\ MaxCrashes \in Nat

VARIABLES
  lockFile,  \* whether the lock file exists
  disk,      \* subnet.json: what its text is, and the map when it is JSON
  pc,        \* where each process is
  op,        \* the call each process is making
  attempt,   \* which attempt at the lock a process is making
  mem,       \* ipam.Subnets of each process
  reply,     \* what the last call to decide returned
  crashes    \* how many processes have been killed

vars == <<lockFile, disk, pc, op, attempt, mem, reply, crashes>>

\* "for i := 1; i < 3; i++"
LockTries == 2

\* The steps that lock guards.
Section == {"load", "truncate", "write"}
Labels == Section \cup {"idle", "lock", "create", "unlock"}

Texts == {"json", "empty", "broken"}

TypeOK ==
  /\ lockFile \in BOOLEAN
  /\ disk.text \in Texts /\ IsMap(disk.map)
  /\ pc \in [Procs -> Labels]
  /\ op \in [Procs -> Requests \cup {NoRequest}]
  /\ DOMAIN mem = Procs /\ \A p \in Procs : IsMap(mem[p])
  /\ attempt \in [Procs -> 1 .. LockTries]
  /\ reply \in Answers
  /\ crashes \in 0 .. MaxCrashes

\* No file, and a file without subnets, are read alike.
Init ==
  /\ lockFile = FALSE
  /\ disk = [text |-> "json", map |-> NoSubnets]
  /\ pc = [p \in Procs |-> "idle"]
  /\ op = [p \in Procs |-> NoRequest]
  /\ attempt = [p \in Procs |-> 1]
  /\ mem = [p \in Procs |-> NoSubnets]
  /\ reply = Answer(NoRequest, "ok", NilIP)
  /\ crashes = 0

Active == {p \in Procs : pc[p] # "idle"}

Goto(p, label) == pc' = [pc EXCEPT ![p] = label]

-----------------------------------------------------------------------------
(* lock() *)

Call(p, r) ==
  /\ pc[p] = "idle"
  /\ Cardinality(Active) < MaxActive
  /\ op' = [op EXCEPT ![p] = r]
  /\ Goto(p, "lock")
  /\ UNCHANGED <<lockFile, disk, attempt, mem, reply, crashes>>

\* A bug: the attempts are not counted.
LockFound_Forever(p) == pc[p] = "lock" /\ lockFile /\ UNCHANGED vars

\* The lock file is there: sleep a second and look again.
LockFound(p) ==
  /\ pc[p] = "lock" /\ lockFile
  /\ attempt[p] < LockTries
  /\ attempt' = [attempt EXCEPT ![p] = @ + 1]
  /\ UNCHANGED <<lockFile, disk, pc, op, mem, reply, crashes>>

\* The lock file is still there after the last attempt: lock returns nil.
LockGivenUp(p) ==
  /\ pc[p] = "lock" /\ lockFile
  /\ attempt[p] = LockTries
  /\ Goto(p, "load")
  /\ UNCHANGED <<lockFile, disk, op, attempt, mem, reply, crashes>>

LockAbsent(p) ==
  /\ pc[p] = "lock" /\ ~lockFile
  /\ Goto(p, "create")
  /\ UNCHANGED <<lockFile, disk, op, attempt, mem, reply, crashes>>

\* os.Create opens the file whether or not it exists by now.
LockCreated(p) ==
  /\ pc[p] = "create"
  /\ lockFile' = TRUE
  /\ Goto(p, "load")
  /\ UNCHANGED <<disk, op, attempt, mem, reply, crashes>>

-----------------------------------------------------------------------------
(* load(), and what each call decides from what it read. *)

\* The call goes on to dump m, and will return r.
Dumps(p, m, r) ==
  /\ mem' = [mem EXCEPT ![p] = m]
  /\ reply' = r
  /\ Goto(p, "truncate")

\* A bug: an early return that skips the deferred unlock.
Returns_Locked(p, r) ==
  /\ reply' = r
  /\ Goto(p, "idle")
  /\ UNCHANGED mem

\* The call returns r and dumps nothing.
Returns(p, r) ==
  /\ reply' = r
  /\ Goto(p, "unlock")
  /\ UNCHANGED mem

\* A bug: Create reports success and does not dump.
DecideCreate_NotDumped(p, m) ==
  /\ op[p].kind = "create"
  /\ Returns(p, Answer(op[p], IF CanCreate(m, op[p].subnet)
                               THEN "ok" ELSE "error", NilIP))

DecideCreate(p, m) ==
  LET s == op[p].subnet IN
  /\ op[p].kind = "create"
  /\ \/ /\ CanCreate(m, s)
        /\ Dumps(p, WithSubnet(m, s), Answer(op[p], "ok", NilIP))
     \/ /\ ~CanCreate(m, s)
        /\ Returns(p, Answer(op[p], "error", NilIP))

DecideAllocate(p, m) ==
  LET s == op[p].subnet IN
  /\ op[p].kind = "allocate"
  /\ \/ /\ s \notin DOMAIN m
        /\ Returns(p, Answer(op[p], "error", NilIP))
     \/ /\ s \in DOMAIN m
        /\ FreeBits(m, s) = {}
        /\ Dumps(p, m, Answer(op[p], "ok", NilIP))
     \/ /\ s \in DOMAIN m
        /\ FreeBits(m, s) # {}
        /\ Dumps(p, WithBit(m, s, FirstFree(m, s)),
                 Answer(op[p], "ok", AddrOf(s, FirstFree(m, s))))

DecideRelease(p, m) ==
  LET s == op[p].subnet
      a == op[p].ip
  IN
  /\ op[p].kind = "release"
  /\ \/ /\ ReleasePanics(m, s, a)
        /\ Returns(p, Answer(op[p], "panic", NilIP))
     \/ /\ ~ReleasePanics(m, s, a)
        /\ Dumps(p, Released(m, s, a), Answer(op[p], "ok", NilIP))

Load(p) ==
  /\ pc[p] = "load"
  /\ disk.text = "json"
  /\ \/ DecideCreate(p, disk.map)
     \/ DecideAllocate(p, disk.map)
     \/ DecideRelease(p, disk.map)
  /\ UNCHANGED <<lockFile, disk, op, attempt, crashes>>

\* A bug: Create ignores the error of load, as Release does.
LoadFails_CreateGoesOn(p) ==
  /\ pc[p] = "load"
  /\ disk.text # "json"
  /\ lockFile' = FALSE
  /\ \/ op[p].kind = "allocate" /\ Returns(p, Answer(op[p], "error", NilIP))
     \/ DecideCreate(p, NoSubnets)
     \/ DecideRelease(p, NoSubnets)
  /\ UNCHANGED <<disk, op, attempt, crashes>>

\* The text does not parse.  load removes the lock, whoever holds it; Create
\* and Allocate return its error, Release goes on with an empty map.
LoadFails(p) ==
  /\ pc[p] = "load"
  /\ disk.text # "json"
  /\ lockFile' = FALSE
  /\ \/ op[p].kind # "release" /\ Returns(p, Answer(op[p], "error", NilIP))
     \/ DecideRelease(p, NoSubnets)
  /\ UNCHANGED <<disk, op, attempt, crashes>>

-----------------------------------------------------------------------------
(* dump() and unlock() *)

\* os.OpenFile with O_TRUNC.
Truncate(p) ==
  /\ pc[p] = "truncate"
  /\ disk' = [text |-> "empty", map |-> NoSubnets]
  /\ Goto(p, "write")
  /\ UNCHANGED <<lockFile, op, attempt, mem, reply, crashes>>

\* A bug: dump merges its map into the one it finds.
Written_Merged(m) ==
  {[text |-> "json",
    map  |-> [s \in DOMAIN m \cup DOMAIN disk.map |->
                IF s \in DOMAIN m THEN m[s] ELSE disk.map[s]]]}

\* The texts that remain when a process writes m at the start of the file.
\* After its own truncation the file may have been written by another: a
\* longer text then sticks out behind.  A map with more subnets has the
\* longer text; of two maps with different subnets either may have.
Written(m) ==
  LET whole  == [text |-> "json", map |-> m]
      broken == [text |-> "broken", map |-> NoSubnets]
      old    == DOMAIN disk.map
  IN  CASE disk.text = "empty"  -> {whole}
        [] disk.text = "broken" -> {whole, broken}
        [] disk.text = "json"   ->
             IF old \subseteq DOMAIN m THEN {whole}
             ELSE IF DOMAIN m \subseteq old THEN {broken}
             ELSE {whole, broken}

\* A bug: nothing is written when no subnet is left.
Write_NotEmpty(p) ==
  /\ pc[p] = "write"
  /\ IF mem[p] = NoSubnets THEN UNCHANGED disk ELSE disk' \in Written(mem[p])
  /\ Goto(p, "unlock")
  /\ UNCHANGED <<lockFile, op, attempt, mem, reply, crashes>>

Write(p) ==
  /\ pc[p] = "write"
  /\ disk' \in Written(mem[p])
  /\ Goto(p, "unlock")
  /\ UNCHANGED <<lockFile, op, attempt, mem, reply, crashes>>

\* The process is done with its call, or gone.
Forget(p) ==
  /\ Goto(p, "idle")
  /\ op' = [op EXCEPT ![p] = NoRequest]
  /\ attempt' = [attempt EXCEPT ![p] = 1]
  /\ mem' = [mem EXCEPT ![p] = NoSubnets]

\* The lock file is removed, whoever created it.
Unlock(p) ==
  /\ pc[p] = "unlock"
  /\ lockFile' = FALSE
  /\ Forget(p)
  /\ UNCHANGED <<disk, reply, crashes>>

\* The process is killed: what it did to the files stays.
Crash(p) ==
  /\ pc[p] # "idle"
  /\ crashes < MaxCrashes
  /\ crashes' = crashes + 1
  /\ Forget(p)
  /\ UNCHANGED <<lockFile, disk, reply>>

-----------------------------------------------------------------------------
Step(p) ==
  \/ LockFound(p) \/ LockGivenUp(p) \/ LockAbsent(p) \/ LockCreated(p)
  \/ Load(p) \/ LoadFails(p) \/ Truncate(p) \/ Write(p) \/ Unlock(p)

Next ==
  \E p \in Procs :
    \/ \E r \in Requests : Call(p, r)
    \/ Step(p)
    \/ Crash(p)

Spec == Init /\ [][Next]_vars

\* A process that is not killed is scheduled by the operating system, and
\* none of its steps waits for another process.
FairSpec == Spec /\ \A p \in Procs : WF_vars(Step(p))

-----------------------------------------------------------------------------
(* Properties. *)

\* Whatever the interleaving, and with the lock held by two or by none,
\* subnet.json either does not parse or is a map that a sequence of calls
\* could have left: subnets apart, the gateway's bit set.  Updates get lost,
\* but two of them are never mixed.
DiskWellFormed ==
  \A m \in {disk.map} \cup {mem[p] : p \in Procs} :
    DisjointIn(m) /\ GatewayMarkedIn(m)

\* Without a crash no lock file is left behind: when all calls have ended,
\* however they failed, the lock is gone.
NoStaleLock ==
  lockFile => crashes > 0 \/ \E p \in Procs : pc[p] \in Section \cup {"unlock"}

\* A file that does not parse, seen by nobody who is about to rewrite it, is
\* the work of a crash, when calls come one at a time.
TornByCrash ==
  disk.text = "json" \/ crashes > 0 \/ \E p \in Procs : pc[p] = "write"

\* After such a crash no subnet can be created and no address allocated: the
\* only call that still succeeds is the release of a gateway, from deleting a
\* network, and it replaces the file by one that has lost every subnet.
TornLosesAll ==
  [][ \A p \in Procs :
        LoadFails(p) /\ pc'[p] = "truncate" =>
          /\ op[p].kind = "release"
          /\ op[p].ip = Gateway(op[p].subnet)
          /\ mem'[p] = NoSubnets ]_vars

\* Every call ends, whoever holds the lock and whatever crashed before: the
\* stale lock of a dead process delays a call and does not block it.
CallsEnd == \A p \in Procs : pc[p] # "idle" ~> pc[p] = "idle"

\* A call takes effect when it has read the file: from then on the map it is
\* about to write is the current one.
Decided == {p \in Procs : pc[p] \in {"truncate", "write"}}

Current ==
  IF Decided = {} THEN disk.map ELSE mem[CHOOSE p \in Decided : TRUE]

Calls == INSTANCE Ipam WITH subnets <- Current, reply <- reply

\* Calls that come one at a time implement Ipam until the first of them is
\* killed: lock, load, truncate, write and unlock together are one call of
\* ipam.go as its callers see it.
ImplementsIpam ==
  Calls!Init /\ [][crashes' = 0 => Calls!Next]_(Calls!vars)

=============================================================================

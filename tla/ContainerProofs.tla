-------------------------- MODULE ContainerProofs ---------------------------
(***************************************************************************)
(* Theorems about Container, for any numbers of terminals, containers,     *)
(* names and process ids and any subnet: first those of any interleaving   *)
(* of the commands and any of the faults, then those of commands that do   *)
(* not overlap (one terminal), with all of the faults or with few; and     *)
(* about Ports, for any port mappings.                                     *)
(***************************************************************************)
EXTENDS Ports, IpamBitmapProofs, FiniteSetTheorems

(* The inductive invariant, one part for each variable. *)

\* Infos and processes whose address is not the gateway's.
SafeInfo == {r \in InfoType : r.ip # Gateway(Net)}
SafeProc == {r \in ProcType : r.ip # Gateway(Net)}

\* A command that holds an info holds a safe one, and one that is about to
\* disconnect and kill a container has found its process: stopContainer passes
\* its Running check with the pid that it later signals.
SafeCommand(c) ==
  /\ IsCommand(c)
  /\ c.info = None \/ c.info \in SafeInfo
  /\ c.pc \in HoldsInfo => c.info \in SafeInfo
  /\ c.phase = "stop" => c.cmd = "rm"
  /\ c.pc = "lookup" => c.phase # "unname"
  /\ c.pc = "disconnect" /\ (c.cmd = "stop" \/ c.phase = "stop") => c.info.pid # NoPid
  /\ c.pc = "kill" => c.info.pid # NoPid
  /\ c.pc = "wait" => c.cmd = "run"

NamesSafe   == names \in NameFiles
InfoSafe    == IsFile(info, Ids, SafeInfo)
MountsSafe  == mounted \subseteq Ids
ProcsSafe   == IsFile(procs, Pids, SafeProc)
NetworkSafe == network \in BOOLEAN
SubnetsSafe ==
  /\ WellFormed(subnets)
  /\ DOMAIN subnets \subseteq {Net}
  /\ Net \in DOMAIN subnets => GatewayBit \in subnets[Net]
TermsSafe   ==
  /\ term = [t \in Terminals |-> term[t]]
  /\ \A t \in Terminals : SafeCommand(term[t])

IInv ==
  /\ NamesSafe /\ InfoSafe /\ MountsSafe /\ ProcsSafe
  /\ SubnetsSafe /\ NetworkSafe /\ TermsSafe

-----------------------------------------------------------------------------
(* Files, infos and addresses. *)

\* A file with one more entry.
LEMMA FileWith ==
  ASSUME NEW f, NEW K, NEW V, IsFile(f, K, V), NEW x \in K, NEW y \in V
  PROVE  IsFile(With(f, x, y), K, V)
  BY DEF IsFile, With

\* A file without some of its entries.
LEMMA FileWithout ==
  ASSUME NEW f, NEW K, NEW V, IsFile(f, K, V), NEW S
  PROVE  IsFile(Without(f, S), K, V)
  BY DEF IsFile, Without

\* The absent file is a file of anything.
LEMMA NoFileIsFile == \A K, V : IsFile(NoFile, K, V)
  BY DEF IsFile, NoFile

\* The name files are the files from names and ids to ids.
LEMMA NameFilesAreFiles ==
  \A f : f \in NameFiles <=> IsFile(f, Names \cup Ids, Ids)
  BY DEF NameFiles, IsFile

\* The subnet of the network has addresses, and none is nil or repeated.
LEMMA NetFacts ==
  /\ Net \in Small
  /\ Gateway(Net) \in Block(Net)
  /\ NilIP # Gateway(Net)
<1>1. Net \in Small
  BY ContainerAssumptions DEF Small
<1>2. GatewayBit \in Offsets(Net)
  BY <1>1, SmallFields DEF GatewayBit, Offsets
<1>3. Gateway(Net) \in Block(Net)
  BY <1>2 DEF Gateway, Block
<1> QED
  BY <1>1, <1>3, BlockFacts

\* A change of status and pid keeps an info safe.
LEMMA InfoUpdate ==
  ASSUME NEW r \in SafeInfo, NEW s \in Statuses
  PROVE  /\ [r EXCEPT !.status = s] \in SafeInfo
         /\ [r EXCEPT !.status = s].status = s
         /\ [r EXCEPT !.status = s].pid = r.pid
         /\ \A p \in Pids \cup {NoPid} :
              [r EXCEPT !.status = s, !.pid = p] \in SafeInfo
  BY DEF SafeInfo, InfoType

\* So does a new endpoint, unless its address is the gateway's.
LEMMA InfoEndpoint ==
  ASSUME NEW r \in SafeInfo, NEW k \in EndpointKinds,
         NEW a \in Block(Net) \cup {NilIP}, a # Gateway(Net)
  PROVE  /\ [r EXCEPT !.kind = k] \in SafeInfo
         /\ [r EXCEPT !.kind = k, !.ip = a] \in SafeInfo
  BY DEF SafeInfo, InfoType

\* The info that run starts with.
LEMMA NewInfo ==
  ASSUME NEW i \in Ids, NEW n \in Names \cup Ids, NEW tty \in BOOLEAN
  PROVE  [NoInfo(i) EXCEPT !.name = n, !.tty = tty] \in SafeInfo
  BY NetFacts DEF NoInfo, SafeInfo, InfoType, Statuses, EndpointKinds

\* A checked info is safe, and running only under a real pid.
LEMMA StatusCheckSafe ==
  ASSUME IInv, NEW r \in SafeInfo
  PROVE  /\ StatusCheck(r) \in SafeInfo
         /\ StatusCheck(r).status = "Running" => StatusCheck(r).pid # NoPid
<1>1. CASE r.pid \in Live
  <2>1. StatusCheck(r) = [r EXCEPT !.status = "Running"]
    BY <1>1 DEF StatusCheck
  <2>2. r.pid \in Nat \ {0}
    BY <1>1, ContainerAssumptions DEF IInv, ProcsSafe, IsFile, Live
  <2>3. r.pid # NoPid
    BY <2>2 DEF NoPid
  <2>4. "Running" \in Statuses
    BY DEF Statuses
  <2> QED
    BY <2>1, <2>3, <2>4, InfoUpdate
<1>2. CASE r.pid \notin Live
  <2>1. "Dead" \in Statuses
    BY DEF Statuses
  <2>2. CASE r.status = "Paused"
    BY <1>2, <2>2 DEF StatusCheck
  <2>3. CASE r.status # "Paused"
    <3>1. StatusCheck(r) = [r EXCEPT !.status = "Dead"]
      BY <1>2, <2>3 DEF StatusCheck
    <3> QED
      BY <3>1, <2>1, InfoUpdate
  <2> QED
    BY <2>2, <2>3
<1> QED
  BY <1>1, <1>2

-----------------------------------------------------------------------------
(* The map of subnets. *)

\* Allocate takes an address of the network that is not the gateway's.
LEMMA AllocateSafe ==
  ASSUME SubnetsSafe, Net \in DOMAIN subnets, FreeBits(subnets, Net) # {},
         NEW o, o = FirstFree(subnets, Net)
  PROVE  /\ AddrOf(Net, o) \in Block(Net)
         /\ AddrOf(Net, o) # Gateway(Net)
         /\ subnets' = WithBit(subnets, Net, o) => SubnetsSafe'
<1>1. o \in FreeBits(subnets, Net)
  BY NetFacts, FirstFreeIsFree
<1>2. o \in Offsets(Net) /\ o # GatewayBit
  BY <1>1 DEF FreeBits, SubnetsSafe
<1>3. AddrOf(Net, o) \in Block(Net)
  BY <1>2 DEF Block
<1>4. OffsetOf(Net, AddrOf(Net, o)) = o
  BY <1>2, NetFacts, OffsetOfAddrOf
<1>5. AddrOf(Net, o) # Gateway(Net)
  BY <1>2, <1>3, <1>4, NetFacts, BlockFacts
<1>6. WellFormed(WithBit(subnets, Net, o))
  BY AllocateWellFormed DEF SubnetsSafe
<1>7. /\ DOMAIN WithBit(subnets, Net, o) = DOMAIN subnets
      /\ GatewayBit \in WithBit(subnets, Net, o)[Net]
  BY DEF WithBit, SubnetsSafe
<1> QED
  BY <1>3, <1>5, <1>6, <1>7 DEF SubnetsSafe

\* Releasing anything but the gateway's address leaves the gateway's bit.
LEMMA ReleaseSafe ==
  ASSUME SubnetsSafe, NEW a \in Block(Net) \cup {NilIP}, a # Gateway(Net),
         ~ReleasePanics(subnets, Net, a),
         subnets' = Released(subnets, Net, a)
  PROVE  SubnetsSafe'
<1>1. a \in Block(Net)
  BY DEF ReleasePanics
<1>2. OffsetOf(Net, a) # GatewayBit
  BY <1>1, NetFacts, BlockFacts
<1>3. subnets' = WithoutBit(subnets, Net, OffsetOf(Net, a)) /\ Net \in DOMAIN subnets
  BY <1>1, <1>2, NetFacts, BlockFacts DEF Released, ReleasePanics
<1>4. /\ DOMAIN subnets' = DOMAIN subnets
      /\ GatewayBit \in subnets'[Net]
  BY <1>2, <1>3 DEF WithoutBit, SubnetsSafe
<1>5. WellFormed(subnets')
  BY ReleaseWellFormed DEF SubnetsSafe
<1> QED
  BY <1>4, <1>5 DEF SubnetsSafe

\* The map of a network that has just been created.
LEMMA CreateSafe ==
  ASSUME NEW m, WellFormed(m), DOMAIN m \subseteq {Net}, Net \notin DOMAIN m,
         subnets' = WithBit(WithSubnet(m, Net), Net, GatewayBit)
  PROVE  SubnetsSafe'
<1> DEFINE n == WithSubnet(m, Net)
<1>1. CanCreate(m, Net)
  BY NetFacts, SmallFields DEF CanCreate
<1>2. WellFormed(n) /\ DOMAIN n = {Net} /\ n[Net] = {}
  BY <1>1, NetFacts, CreateWellFormed, SmallFields DEF WithSubnet
<1>3. FreeBits(n, Net) # {}
  <2>1. 0 \in Offsets(Net)
    BY NetFacts, SmallFields DEF Offsets
  <2> QED
    BY <1>2, <2>1 DEF FreeBits
<1>4. FirstFree(n, Net) = GatewayBit
  BY <1>2, <1>3, NetFacts, FirstFreeIsFree
<1>5. WellFormed(subnets')
  BY <1>2, <1>3, <1>4, AllocateWellFormed
<1>6. DOMAIN subnets' = {Net} /\ GatewayBit \in subnets'[Net]
  BY <1>2 DEF WithBit
<1> QED
  BY <1>5, <1>6 DEF SubnetsSafe

\* Deleting the network drops its subnet.
LEMMA DeleteSafe ==
  ASSUME SubnetsSafe, subnets' = Released(subnets, Net, Gateway(Net))
  PROVE  SubnetsSafe' /\ Net \notin DOMAIN subnets'
<1>1. OffsetOf(Net, Gateway(Net)) = GatewayBit
  BY NetFacts, BlockFacts
<1>2. ~ReleasePanics(subnets, Net, Gateway(Net))
  BY <1>1, NetFacts DEF ReleasePanics
<1>3. WellFormed(subnets')
  BY <1>2, ReleaseWellFormed DEF SubnetsSafe
<1>4. DOMAIN subnets' = {}
  BY <1>1 DEF Released, WithoutSubnet, SubnetsSafe
<1> QED
  BY <1>3, <1>4 DEF SubnetsSafe

-----------------------------------------------------------------------------
(* Commands. *)

\* A command past its lookup knows its container.
LEMMA KnowsIds ==
  ASSUME NEW c, SafeCommand(c), c.pc \notin {"rest", "lookup"}
  PROVE  c.id \in Ids /\ c.own \in Ids
  BY DEF SafeCommand, IsCommand

\* A terminal at rest is safe.
LEMMA RestSafe == SafeCommand(Rest)
<1>1. NoFile \in NameFiles
  BY NoFileIsFile, NameFilesAreFiles
<1> QED
  BY <1>1 DEF SafeCommand, IsCommand, CommandType, Rest, ControlPoints, Phases, HoldsInfo

\* A command goes on, perhaps with another info.
LEMMA CarrySafe ==
  ASSUME NEW c, SafeCommand(c), c.id \in Ids, c.own \in Ids,
         NEW pc \in ControlPoints \ {"lookup"}, NEW r \in SafeInfo,
         pc = "disconnect" /\ (c.cmd = "stop" \/ c.phase = "stop") => r.pid # NoPid,
         pc = "kill" => r.pid # NoPid,
         pc = "wait" => c.cmd = "run"
  PROVE  SafeCommand([c EXCEPT !.info = r, !.pc = pc])
<1> DEFINE d == [c EXCEPT !.info = r, !.pc = pc]
<1>1. r \in InfoType
  BY DEF SafeInfo
<1>2. d \in CommandType
  BY <1>1 DEF SafeCommand, IsCommand, CommandType
<1>3. /\ d.pc = pc /\ d.info = r /\ d.id = c.id /\ d.own = c.own
      /\ d.cmd = c.cmd /\ d.phase = c.phase
  BY DEF SafeCommand, IsCommand, CommandType
<1> HIDE DEF d
<1>4. SafeCommand(d)
  BY <1>1, <1>2, <1>3 DEF SafeCommand, IsCommand
<1> QED
  BY <1>4 DEF d

\* A command goes on with the info it has.
LEMMA MoveSafe ==
  ASSUME NEW c, SafeCommand(c), c.id \in Ids, c.own \in Ids,
         NEW pc \in ControlPoints \ {"lookup"},
         pc \in HoldsInfo => c.info \in SafeInfo,
         pc = "disconnect" /\ (c.cmd = "stop" \/ c.phase = "stop") => c.info.pid # NoPid,
         pc = "kill" => c.info.pid # NoPid,
         pc = "wait" => c.cmd = "run"
  PROVE  SafeCommand([c EXCEPT !.pc = pc])
<1> DEFINE d == [c EXCEPT !.pc = pc]
<1>2. d \in CommandType
  BY DEF SafeCommand, IsCommand, CommandType
<1>3. /\ d.pc = pc /\ d.info = c.info /\ d.id = c.id /\ d.own = c.own
      /\ d.cmd = c.cmd /\ d.phase = c.phase
  BY DEF SafeCommand, IsCommand, CommandType
<1> HIDE DEF d
<1>4. SafeCommand(d)
  BY <1>2, <1>3 DEF SafeCommand, IsCommand, SafeInfo
<1> QED
  BY <1>4 DEF d

\* A command goes on with a copy of the name file, or without one.
LEMMA CopySafe ==
  ASSUME NEW c, SafeCommand(c), c.pc \in {"nameread", "namewrite"},
         NEW pc \in {"namewrite", "record", "delete"},
         NEW f \in NameFiles
  PROVE  SafeCommand([c EXCEPT !.copy = f, !.pc = pc])
<1> DEFINE d == [c EXCEPT !.copy = f, !.pc = pc]
<1>1. pc \in ControlPoints /\ c.pc \in HoldsInfo
  BY DEF ControlPoints, HoldsInfo
<1>2. d \in CommandType
  BY <1>1 DEF SafeCommand, IsCommand, CommandType
<1>3. /\ d.pc = pc /\ d.info = c.info /\ d.id = c.id /\ d.own = c.own
      /\ d.cmd = c.cmd /\ d.phase = c.phase
  BY DEF SafeCommand, IsCommand, CommandType
<1> HIDE DEF d
<1>4. c.id \in Ids /\ c.own \in Ids /\ c.info \in SafeInfo
  BY <1>1, KnowsIds DEF SafeCommand
<1>5. SafeCommand(d)
  BY <1>2, <1>3, <1>4 DEF SafeCommand, IsCommand, SafeInfo
<1> QED
  BY <1>5 DEF d

\* A command returns to its caller: the terminal, or rm.
LEMMA UnregisterSafe ==
  ASSUME NEW c, SafeCommand(c), c.own \in Ids
  PROVE  SafeCommand(Unregister(c))
<1> DEFINE d == Unregister(c)
<1>1. "read" \in ControlPoints /\ "read" \notin HoldsInfo /\ "unname" \in Phases
  BY DEF ControlPoints, HoldsInfo, Phases
<1>2. d \in CommandType
  BY <1>1 DEF SafeCommand, IsCommand, CommandType, Unregister
<1>3. /\ d.pc = "read" /\ d.info = c.info /\ d.id = c.own /\ d.own = c.own
      /\ d.phase = "unname"
  BY DEF SafeCommand, IsCommand, CommandType, Unregister
<1> HIDE DEF d
<1>4. SafeCommand(d)
  BY <1>1, <1>2, <1>3 DEF SafeCommand, IsCommand
<1> QED
  BY <1>4 DEF d

\* stopContainer returns to the terminal or to rm.
LEMMA StopReturnedSafe ==
  ASSUME NEW c, SafeCommand(c), c.own \in Ids
  PROVE  SafeCommand(StopReturned(c))
  BY RestSafe, UnregisterSafe DEF StopReturned

\* A command whose container is not there ends, or rm goes on without it.
LEMMA NotFoundSafe ==
  ASSUME NEW c, SafeCommand(c), c.pc \in {"lookup", "read"}
  PROVE  SafeCommand(NotFound(c))
<1>1. CASE c.phase = "self"
  BY <1>1, RestSafe DEF NotFound
<1>2. CASE c.phase = "stop"
  <2>1. c.own \in Ids
    BY <1>2 DEF SafeCommand, IsCommand
  <2> QED
    BY <1>2, <2>1, UnregisterSafe DEF NotFound
<1>3. CASE c.phase = "unname"
  <2>1. c.pc = "read" /\ c.id \in Ids /\ c.own \in Ids
    BY <1>3, KnowsIds DEF SafeCommand
  <2>2. "delete" \in ControlPoints \ {"lookup"} /\ "delete" \notin HoldsInfo
    BY DEF ControlPoints, HoldsInfo
  <2>3. NotFound(c) = [c EXCEPT !.pc = "delete"]
    BY <1>3 DEF NotFound
  <2> QED
    BY <2>1, <2>2, <2>3, MoveSafe
<1>4. c.phase \in Phases
  BY DEF SafeCommand, IsCommand, CommandType
<1> QED
  BY <1>1, <1>2, <1>3, <1>4 DEF Phases

\* The terminal's new command is safe, and the others are as they were.
LEMMA BecomeSafe ==
  ASSUME TermsSafe, NEW t \in Terminals, NEW c, SafeCommand(c), Become(t, c)
  PROVE  TermsSafe'
  BY DEF TermsSafe, Become

\* The same for a command that only moves.
LEMMA GotoSafe ==
  ASSUME TermsSafe, NEW t \in Terminals, NEW pc,
         SafeCommand([term[t] EXCEPT !.pc = pc]), Goto(t, pc)
  PROVE  TermsSafe'
  BY DEF TermsSafe, Goto

\* The same for a command that ends.
LEMMA ReturnSafe ==
  ASSUME TermsSafe, NEW t \in Terminals, Return(t)
  PROVE  TermsSafe'
  BY RestSafe, BecomeSafe DEF Return

-----------------------------------------------------------------------------
(* The steps of a command that change nothing but the command. *)

\* What a terminal starts with is safe.
LEMMA InvocationSafe ==
  ASSUME NEW cmd \in CommandKinds, NEW key \in Names \cup Ids
  PROVE  /\ SafeCommand(Invocation(cmd, "lookup", key, None))
         /\ SafeCommand([Invocation(cmd, "lookup", key, None) EXCEPT !.force = TRUE])
         /\ \A i \in Ids : SafeCommand(Invocation(cmd, "read", key, i))
<1>1. NoFile \in NameFiles
  BY NoFileIsFile, NameFilesAreFiles
<1>2. {"lookup", "read"} \subseteq ControlPoints \ HoldsInfo
  BY DEF ControlPoints, HoldsInfo
<1> QED
  BY <1>1, <1>2 DEF Invocation, Rest, SafeCommand, IsCommand, CommandType, Phases

\* What a run starts with is safe.
LEMMA RunSafe ==
  ASSUME NEW i \in Ids, NEW n \in Names \cup Ids, NEW nt \in {"host", "bridge"},
         NEW r \in SafeInfo
  PROVE  SafeCommand([Invocation("run", "name", n, i) EXCEPT !.net = nt, !.info = r])
<1>1. NoFile \in NameFiles
  BY NoFileIsFile, NameFilesAreFiles
<1>2. "name" \in HoldsInfo /\ "name" \in ControlPoints
  BY DEF ControlPoints, HoldsInfo
<1>3. r \in InfoType
  BY DEF SafeInfo
<1> QED
  BY <1>1, <1>2, <1>3
     DEF Invocation, Rest, SafeCommand, IsCommand, CommandType, Phases, CommandKinds

\* Typing a command keeps the invariant.
LEMMA TypeKeeps ==
  ASSUME IInv, NEW t \in Terminals, Type(t)
  PROVE  IInv'
<1>1. ASSUME Run(t) PROVE TermsSafe'
  <2>1. PICK i \in FreshIds, nt \in {"host", "bridge"}, tty \in BOOLEAN :
          \E n \in Names \cup {i} :
            Become(t, [Invocation("run", "name", n, i) EXCEPT
                         !.net = nt, !.info = [NoInfo(i) EXCEPT !.name = n, !.tty = tty]])
    BY <1>1 DEF Run
  <2>2. PICK n \in Names \cup {i} :
          Become(t, [Invocation("run", "name", n, i) EXCEPT
                       !.net = nt, !.info = [NoInfo(i) EXCEPT !.name = n, !.tty = tty]])
    BY <2>1
  <2>3. i \in Ids /\ n \in Names \cup Ids
    BY DEF FreshIds
  <2>4. [NoInfo(i) EXCEPT !.name = n, !.tty = tty] \in SafeInfo
    BY <2>3, NewInfo
  <2>5. SafeCommand([Invocation("run", "name", n, i) EXCEPT
                       !.net = nt, !.info = [NoInfo(i) EXCEPT !.name = n, !.tty = tty]])
    BY <2>3, <2>4, RunSafe
  <2> QED
    BY <2>2, <2>5, BecomeSafe DEF IInv
<1>2. DOMAIN names \subseteq Names \cup Ids /\ DOMAIN info \subseteq Ids
  BY NameFilesAreFiles DEF IInv, NamesSafe, InfoSafe, IsFile
<1>3. ASSUME NEW cmd \in CommandKinds, OnContainer(t, cmd) PROVE TermsSafe'
  <2>1. PICK key \in DOMAIN names : Become(t, Invocation(cmd, "lookup", key, None))
    BY <1>3 DEF OnContainer
  <2> QED
    BY <1>2, <2>1, InvocationSafe, BecomeSafe DEF IInv
<1>4. ASSUME RemoveForced(t) PROVE TermsSafe'
  <2>1. PICK key \in DOMAIN names :
          Become(t, [Invocation("rm", "lookup", key, None) EXCEPT !.force = TRUE])
    BY <1>4 DEF RemoveForced
  <2>2. "rm" \in CommandKinds
    BY DEF CommandKinds
  <2> QED
    BY <1>2, <2>1, <2>2, InvocationSafe, BecomeSafe DEF IInv
<1>5. ASSUME List(t) PROVE TermsSafe'
  <2>1. PICK i \in DOMAIN info : Become(t, Invocation("ps", "read", i, i))
    BY <1>5 DEF List
  <2>2. "ps" \in CommandKinds
    BY DEF CommandKinds
  <2> QED
    BY <1>2, <2>1, <2>2, InvocationSafe, BecomeSafe DEF IInv
<1>6. TermsSafe'
  <2>1. Commands \subseteq CommandKinds
    BY ContainerAssumptions
  <2> QED
    BY <1>1, <1>3, <1>4, <1>5, <2>1 DEF Type
<1> QED
  BY <1>6 DEF Type, IInv, NamesSafe, InfoSafe, MountsSafe, ProcsSafe, SubnetsSafe, NetworkSafe

\* An entry of the name file is the id of a container.
LEMMA LookupKeeps ==
  ASSUME IInv, NEW t \in Terminals, Lookup(t)
  PROVE  IInv'
<1> DEFINE c == term[t]
<1>1. SafeCommand(c) /\ c.pc = "lookup"
  BY DEF IInv, TermsSafe, Lookup
<1>2. ASSUME c.key \in DOMAIN names PROVE TermsSafe'
  <2> DEFINE i == names[c.key]
             o == IF c.phase = "self" THEN i ELSE c.own
             d == [c EXCEPT !.id = i, !.pc = "read", !.own = o]
  <2>1. i \in Ids
    BY <1>2, NameFilesAreFiles DEF IInv, NamesSafe, IsFile
  <2>2. o \in Ids
    BY <1>1, <2>1 DEF SafeCommand, IsCommand
  <2>3. Become(t, d)
    BY <1>2 DEF Lookup
  <2> HIDE DEF i, o
  <2>4. "read" \in ControlPoints /\ "read" \notin HoldsInfo
    BY DEF ControlPoints, HoldsInfo
  <2>5. d \in CommandType
    BY <1>1, <2>1, <2>2, <2>4 DEF SafeCommand, IsCommand, CommandType
  <2>6. /\ d.pc = "read" /\ d.id = i /\ d.own = o
        /\ d.info = c.info /\ d.cmd = c.cmd /\ d.phase = c.phase
    BY <1>1 DEF SafeCommand, IsCommand, CommandType
  <2> HIDE DEF d
  <2>7. SafeCommand(d)
    BY <1>1, <2>1, <2>2, <2>4, <2>5, <2>6 DEF SafeCommand, IsCommand
  <2> QED
    BY <2>3, <2>7, BecomeSafe DEF IInv
<1>3. ASSUME c.key \notin DOMAIN names PROVE TermsSafe'
  BY <1>1, <1>3, NotFoundSafe, BecomeSafe DEF Lookup, IInv
<1>4. TermsSafe'
  BY <1>2, <1>3
<1> QED
  BY <1>4 DEF Lookup, IInv, NamesSafe, InfoSafe, MountsSafe, ProcsSafe, SubnetsSafe, NetworkSafe

\* What a command reads from config.json is a safe info.
LEMMA ReadKeeps ==
  ASSUME IInv, NEW t \in Terminals, Read(t)
  PROVE  IInv'
<1> DEFINE c == term[t]
<1>1. SafeCommand(c) /\ c.pc = "read"
  BY DEF IInv, TermsSafe, Read
<1>2. ASSUME Become(t, NotFound(c)) PROVE TermsSafe'
  BY <1>1, <1>2, NotFoundSafe, BecomeSafe DEF IInv
<1>3. ASSUME c.id \in DOMAIN info /\ Become(t, [c EXCEPT !.info = info[c.id], !.pc = "check"]) PROVE TermsSafe'
  <2>1. info[c.id] \in SafeInfo
    BY <1>3 DEF IInv, InfoSafe, IsFile
  <2>2. "check" \in ControlPoints \ {"lookup"}
    BY DEF ControlPoints
  <2> QED
    BY <1>1, <1>3, <2>1, <2>2, KnowsIds, CarrySafe, BecomeSafe DEF IInv
<1>4. TermsSafe'
  BY <1>2, <1>3 DEF Read
<1> QED
  BY <1>4 DEF Read, IInv, NamesSafe, InfoSafe, MountsSafe, ProcsSafe, SubnetsSafe, NetworkSafe

\* The simple steps: a move to a point where no more is known of the command.
Plain == {"name", "workspace", "health", "spawn", "allocate", "attach", "record",
          "nameread", "paused"}

\* Moves to those points, with the same or another safe info, are safe.
LEMMA PlainSafe ==
  ASSUME IInv, NEW t \in Terminals, term[t].pc \in HoldsInfo, NEW pc \in Plain
  PROVE  /\ SafeCommand([term[t] EXCEPT !.pc = pc])
         /\ \A r \in SafeInfo : SafeCommand([term[t] EXCEPT !.info = r, !.pc = pc])
<1>1. SafeCommand(term[t]) /\ term[t].info \in SafeInfo
  BY DEF IInv, TermsSafe, SafeCommand
<1>2. term[t].id \in Ids /\ term[t].own \in Ids
  BY <1>1, KnowsIds DEF HoldsInfo
<1>3. pc \in ControlPoints \ {"lookup"} /\ pc \notin {"disconnect", "kill", "wait"}
  BY DEF Plain, ControlPoints
<1> QED
  BY <1>1, <1>2, <1>3, CarrySafe, MoveSafe

-----------------------------------------------------------------------------
(* Check, Disconnect and stopContainer. *)

\* Whatever a command does next once its container's info is checked, it will
\* only stop a container that it found running.
LEMMA CheckedSafe ==
  ASSUME NEW c, SafeCommand(c), c.pc = "check", NEW r \in SafeInfo,
         r.status = "Running" => r.pid # NoPid
  PROVE  SafeCommand(Checked(c, r))
<1> DEFINE d == [c EXCEPT !.info = r]
           At(pc) == [d EXCEPT !.pc = pc]
<1>1. c.id \in Ids /\ c.own \in Ids
  BY KnowsIds
<1>2. At("nameread") = [c EXCEPT !.info = r, !.pc = "nameread"]
      /\ At("disconnect") = [c EXCEPT !.info = r, !.pc = "disconnect"]
      /\ At("health") = [c EXCEPT !.info = r, !.pc = "health"]
  OBVIOUS
<1>3. {"nameread", "disconnect", "health", "check"} \subseteq ControlPoints \ {"lookup"}
  BY DEF ControlPoints
<1>4. SafeCommand(At("nameread")) /\ SafeCommand(At("health"))
  BY <1>1, <1>2, <1>3, CarrySafe
<1>5. ASSUME r.pid # NoPid \/ ~(c.cmd = "stop" \/ c.phase = "stop")
      PROVE SafeCommand(At("disconnect"))
  BY <1>1, <1>2, <1>3, <1>5, CarrySafe
<1>6. SafeCommand(d) /\ d.own = c.own /\ d.cmd = c.cmd
  <2>1. d = [c EXCEPT !.info = r, !.pc = "check"] /\ d.own = c.own /\ d.cmd = c.cmd
    BY DEF SafeCommand, IsCommand, CommandType
  <2> QED
    BY <1>1, <1>3, <2>1, CarrySafe
<1>7. SafeCommand(StopReturned(d)) /\ SafeCommand(Unregister(d))
  BY <1>1, <1>6, StopReturnedSafe, UnregisterSafe
<1>8. ASSUME c.cmd = "rm", c.phase = "self"
      PROVE SafeCommand([At("lookup") EXCEPT !.phase = "stop"])
  <2> DEFINE e == [At("lookup") EXCEPT !.phase = "stop"]
  <2>1. "lookup" \in ControlPoints /\ "lookup" \notin HoldsInfo /\ "stop" \in Phases
    BY DEF ControlPoints, HoldsInfo, Phases
  <2>2. e \in CommandType
    BY <2>1 DEF SafeCommand, IsCommand, CommandType, SafeInfo
  <2>3. /\ e.pc = "lookup" /\ e.phase = "stop" /\ e.info = r /\ e.cmd = c.cmd
        /\ e.id = c.id /\ e.own = c.own
    BY DEF SafeCommand, IsCommand, CommandType
  <2> HIDE DEF e
  <2>4. SafeCommand(e)
    BY <1>1, <1>8, <2>1, <2>2, <2>3 DEF SafeCommand, IsCommand
  <2> QED
    BY <2>4 DEF e
<1>9. CASE c.phase = "unname"
  BY <1>4, <1>9 DEF Checked
<1>10. CASE c.phase = "stop" \/ (c.phase = "self" /\ c.cmd = "stop")
  BY <1>5, <1>7, <1>10 DEF Checked
<1>11. CASE c.phase = "self" /\ c.cmd = "rm"
  BY <1>5, <1>7, <1>8, <1>11, RestSafe DEF Checked
<1>12. CASE c.phase = "self" /\ c.cmd = "start"
  BY <1>4, <1>5, <1>12, RestSafe DEF Checked
<1>13. CASE c.phase = "self" /\ c.cmd \notin {"stop", "rm", "start"}
  BY <1>13, RestSafe DEF Checked
<1>14. c.phase \in {"self", "stop", "unname"}
  BY DEF SafeCommand, IsCommand, CommandType, Phases
<1> QED
  BY <1>9, <1>10, <1>11, <1>12, <1>13, <1>14

\* The status check writes a safe info back, whatever is in the file by then.
LEMMA CheckKeeps ==
  ASSUME IInv, NEW t \in Terminals, Check(t)
  PROVE  IInv'
<1> DEFINE c == term[t]
           r == StatusCheck(c.info)
<1>1. SafeCommand(c) /\ c.pc = "check"
  BY DEF IInv, TermsSafe, Check
<1>2. c.info \in SafeInfo
  BY <1>1 DEF SafeCommand, HoldsInfo, ControlPoints
<1>3. r \in SafeInfo /\ (r.status = "Running" => r.pid # NoPid)
  BY <1>2, StatusCheckSafe
<1>4. c.id \in Ids
  BY <1>1, KnowsIds
<1>5. InfoSafe'
  <2>1. info' = With(info, c.id, r)
    BY DEF Check
  <2> QED
    BY <1>3, <1>4, <2>1, FileWith DEF IInv, InfoSafe
<1>6. TermsSafe'
  <2>1. Become(t, Checked(c, r))
    BY DEF Check
  <2> QED
    BY <1>1, <1>3, <2>1, CheckedSafe, BecomeSafe DEF IInv
<1> QED
  BY <1>5, <1>6 DEF Check, IInv, NamesSafe, MountsSafe, ProcsSafe, SubnetsSafe, NetworkSafe

\* After Disconnect only a command that found its container running goes on to
\* kill it.
LEMMA DisconnectedSafe ==
  ASSUME NEW c, SafeCommand(c), c.pc = "disconnect"
  PROVE  SafeCommand(Disconnected(c))
<1>1. c.id \in Ids /\ c.own \in Ids /\ c.info \in SafeInfo
  BY KnowsIds DEF SafeCommand, HoldsInfo, ControlPoints
<1>2. {"kill", "health"} \subseteq ControlPoints \ {"lookup"}
  BY DEF ControlPoints
<1>3. CASE c.cmd = "stop" \/ c.phase = "stop"
  <2>1. c.info.pid # NoPid /\ c.cmd # "start"
    BY <1>3 DEF SafeCommand
  <2>2. Disconnected(c) = [c EXCEPT !.pc = "kill"]
    BY <1>3, <2>1 DEF Disconnected
  <2> QED
    BY <1>1, <1>2, <2>1, <2>2, MoveSafe
<1>4. CASE ~(c.cmd = "stop" \/ c.phase = "stop") /\ c.cmd = "start"
  BY <1>1, <1>2, <1>4, MoveSafe DEF Disconnected
<1>5. CASE ~(c.cmd = "stop" \/ c.phase = "stop") /\ c.cmd # "start"
  BY <1>1, <1>5, UnregisterSafe DEF Disconnected
<1> QED
  BY <1>3, <1>4, <1>5

\* Disconnect on a network without addresses, or without an endpoint.
LEMMA DisconnectHostKeeps ==
  ASSUME IInv, NEW t \in Terminals, DisconnectHost(t) \/ DisconnectNil(t)
  PROVE  IInv'
<1>1. SafeCommand(term[t]) /\ term[t].pc = "disconnect"
  BY DEF IInv, TermsSafe, DisconnectHost, DisconnectNil
<1>2. Become(t, Disconnected(term[t])) \/ Return(t)
  BY DEF DisconnectHost, DisconnectNil
<1>3. TermsSafe'
  BY <1>1, <1>2, DisconnectedSafe, BecomeSafe, ReturnSafe DEF IInv
<1> QED
  BY <1>3 DEF DisconnectHost, DisconnectNil, IInv, NamesSafe, InfoSafe, MountsSafe,
              ProcsSafe, SubnetsSafe, NetworkSafe

\* Disconnect on the bridge: the link loses its address, and the address that is
\* released is not the gateway's.
LEMMA DisconnectBridgeKeeps ==
  ASSUME IInv, NEW t \in Terminals, DisconnectBridge(t)
  PROVE  IInv'
<1> DEFINE c == term[t]
<1>1. SafeCommand(c) /\ c.pc = "disconnect"
  BY DEF IInv, TermsSafe, DisconnectBridge
<1>2. c.info \in SafeInfo
  BY <1>1 DEF SafeCommand, HoldsInfo, ControlPoints
<1>3. c.info.ip \in Block(Net) \cup {NilIP} /\ c.info.ip # Gateway(Net)
  BY <1>2 DEF SafeInfo, InfoType
<1>4. ProcsSafe'
  <2>1. procs' = Unlinked(c.id, c.info)
    BY DEF DisconnectBridge
  <2>2. \A p \in Live : procs[p] \in SafeProc /\ [procs[p] EXCEPT !.ip = NilIP] \in SafeProc
    BY NetFacts DEF IInv, ProcsSafe, IsFile, Live, SafeProc, ProcType
  <2> QED
    BY <2>1, <2>2 DEF Unlinked, IInv, ProcsSafe, IsFile, Live
<1>5. SubnetsSafe'
  <2>1. CASE ReleasePanics(subnets, Net, c.info.ip)
    BY <2>1 DEF DisconnectBridge, IInv, SubnetsSafe
  <2>2. CASE ~ReleasePanics(subnets, Net, c.info.ip)
    BY <1>3, <2>2, ReleaseSafe DEF DisconnectBridge, IInv
  <2> QED
    BY <2>1, <2>2
<1>6. TermsSafe'
  <2>1. Become(t, Disconnected(c)) \/ Return(t)
    BY DEF DisconnectBridge
  <2> QED
    BY <1>1, <2>1, DisconnectedSafe, BecomeSafe, ReturnSafe DEF IInv
<1> QED
  BY <1>4, <1>5, <1>6 DEF DisconnectBridge, IInv, NamesSafe, InfoSafe, MountsSafe, NetworkSafe

\* A signal can only take a process away.
LEMMA KillKeeps ==
  ASSUME IInv, NEW t \in Terminals, Kill(t)
  PROVE  IInv'
<1>1. SafeCommand(term[t]) /\ term[t].pc = "kill"
  BY DEF IInv, TermsSafe, Kill
<1>2. term[t].pc \in HoldsInfo /\ "paused" \in Plain /\ term[t].own \in Ids
  BY <1>1, KnowsIds DEF HoldsInfo, ControlPoints, Plain
<1>3. ProcsSafe'
  BY FileWithout DEF Kill, IInv, ProcsSafe
<1>4. Goto(t, "paused") \/ Become(t, StopReturned(term[t]))
  BY DEF Kill
<1>5. TermsSafe'
  BY <1>1, <1>2, <1>4, PlainSafe, GotoSafe, StopReturnedSafe, BecomeSafe DEF IInv
<1> QED
  BY <1>3, <1>5 DEF Kill, IInv, NamesSafe, InfoSafe, MountsSafe, SubnetsSafe, NetworkSafe

\* stopContainer records a safe info.
LEMMA RecordPausedKeeps ==
  ASSUME IInv, NEW t \in Terminals, RecordPaused(t)
  PROVE  IInv'
<1> DEFINE c == term[t]
<1>1. SafeCommand(c) /\ c.pc = "paused"
  BY DEF IInv, TermsSafe, RecordPaused
<1>2. c.info \in SafeInfo /\ c.id \in Ids /\ c.own \in Ids
  BY <1>1, KnowsIds DEF SafeCommand, HoldsInfo, ControlPoints
<1>3. [c.info EXCEPT !.status = "Paused", !.pid = NoPid] \in SafeInfo
  BY <1>2, InfoUpdate DEF Statuses
<1>4. InfoSafe'
  BY <1>2, <1>3, FileWith DEF RecordPaused, IInv, InfoSafe
<1>5. TermsSafe'
  BY <1>1, <1>2, StopReturnedSafe, BecomeSafe DEF RecordPaused, IInv
<1> QED
  BY <1>4, <1>5 DEF RecordPaused, IInv, NamesSafe, MountsSafe, ProcsSafe, SubnetsSafe, NetworkSafe

-----------------------------------------------------------------------------
(* run and start. *)

\* The checks before a process is started, a failed allocation and the end of a
\* tty run's wait change at most the mounts.
LEMMA PrepareKeeps ==
  ASSUME IInv, NEW t \in Terminals,
         CheckName(t) \/ MakeWorkSpace(t) \/ Health(t) \/ AllocateFails(t) \/ Waited(t)
  PROVE  IInv'
<1>1. SafeCommand(term[t])
  BY DEF IInv, TermsSafe
<1>2. term[t].pc \in HoldsInfo
  BY DEF CheckName, MakeWorkSpace, Health, AllocateFails, Waited, HoldsInfo, ControlPoints
<1>3. MountsSafe'
  <2>1. term[t].id \in Ids
    BY <1>1, <1>2, KnowsIds DEF HoldsInfo
  <2> QED
    BY <2>1 DEF CheckName, MakeWorkSpace, Health, AllocateFails, Waited, IInv, MountsSafe
<1>4. ASSUME CheckName(t) \/ MakeWorkSpace(t) \/ Health(t) \/ AllocateFails(t)
      PROVE TermsSafe'
  <2>1. \/ Return(t) \/ Goto(t, "workspace") \/ Goto(t, "spawn")
        \/ Goto(t, "nameread") \/ Goto(t, "record")
    BY <1>4 DEF CheckName, MakeWorkSpace, Health, AllocateFails, AfterConnect
  <2>2. {"workspace", "spawn", "nameread", "record"} \subseteq Plain
    BY DEF Plain
  <2> QED
    BY <1>2, <2>1, <2>2, PlainSafe, GotoSafe, ReturnSafe DEF IInv
<1>5. ASSUME Waited(t) PROVE TermsSafe'
  <2>1. term[t].id \in Ids /\ term[t].own \in Ids /\ term[t].info \in SafeInfo
    BY <1>1, <1>2, KnowsIds DEF HoldsInfo, SafeCommand
  <2>2. term[t].cmd = "run" /\ term[t].phase # "stop"
    BY <1>1, <1>5 DEF Waited, SafeCommand
  <2>3. "disconnect" \in ControlPoints \ {"lookup"}
    BY DEF ControlPoints
  <2>4. SafeCommand([term[t] EXCEPT !.pc = "disconnect"])
    BY <1>1, <2>1, <2>2, <2>3, MoveSafe
  <2> QED
    BY <1>5, <2>4, GotoSafe DEF Waited, IInv
<1> QED
  BY <1>3, <1>4, <1>5
     DEF CheckName, MakeWorkSpace, Health, AllocateFails, Waited, IInv, NamesSafe,
         InfoSafe, ProcsSafe, SubnetsSafe, NetworkSafe

\* A new process has a pid and no address yet.
LEMMA SpawnKeeps ==
  ASSUME IInv, NEW t \in Terminals, Spawn(t)
  PROVE  IInv'
<1> DEFINE c == term[t]
           Up(p) == [c.info EXCEPT !.status = "Running", !.pid = p]
           Out(p) == [Up(p) EXCEPT !.kind = "host"]
<1>1. SafeCommand(c) /\ c.pc = "spawn"
  BY DEF IInv, TermsSafe, Spawn
<1>2. c.pc \in HoldsInfo /\ c.info \in SafeInfo /\ c.id \in Ids
  BY <1>1, KnowsIds DEF SafeCommand, HoldsInfo, ControlPoints
<1>3. PICK p \in FreshPids :
        /\ procs' = With(procs, p, [owner |-> c.id, ip |-> NilIP])
        /\ \/ Become(t, [c EXCEPT !.info = Up(p), !.pc = "allocate"])
           \/ Become(t, [c EXCEPT !.info = Out(p), !.pc = AfterConnect(c)])
  BY DEF Spawn
<1>4. p \in Pids
  BY DEF FreshPids
<1>5. Up(p) \in SafeInfo
  BY <1>2, <1>4, InfoUpdate DEF Statuses
<1> HIDE DEF Up
<1>6. Out(p) \in SafeInfo
  BY <1>5, NetFacts, InfoEndpoint DEF EndpointKinds
<1> HIDE DEF Out
<1>7. ProcsSafe'
  <2>1. [owner |-> c.id, ip |-> NilIP] \in SafeProc
    BY <1>2, NetFacts DEF SafeProc, ProcType
  <2> QED
    BY <1>3, <1>4, <2>1, FileWith DEF IInv, ProcsSafe
<1>8. TermsSafe'
  <2>1. "allocate" \in Plain /\ AfterConnect(c) \in Plain
    BY DEF Plain, AfterConnect
  <2>2. /\ SafeCommand([c EXCEPT !.info = Up(p), !.pc = "allocate"])
        /\ SafeCommand([c EXCEPT !.info = Out(p), !.pc = AfterConnect(c)])
    BY <1>2, <1>5, <1>6, <2>1, PlainSafe
  <2> QED
    BY <1>3, <2>2, BecomeSafe DEF IInv
<1> QED
  BY <1>7, <1>8 DEF Spawn, IInv, NamesSafe, InfoSafe, MountsSafe, SubnetsSafe, NetworkSafe

\* The address a container is given is in the network and not the gateway's.
LEMMA AllocateAddressKeeps ==
  ASSUME IInv, NEW t \in Terminals, AllocateAddress(t)
  PROVE  IInv'
<1> DEFINE c == term[t]
           Given(a) == [c EXCEPT !.info.kind = "bridge", !.info.ip = a, !.pc = "attach"]
<1>1. SafeCommand(c) /\ c.pc = "allocate"
  BY DEF IInv, TermsSafe, AllocateAddress
<1>2. c.pc \in HoldsInfo /\ c.info \in SafeInfo
  BY <1>1 DEF SafeCommand, HoldsInfo, ControlPoints
<1>3. ASSUME NEW a \in Block(Net) \cup {NilIP}, a # Gateway(Net)
      PROVE  SafeCommand(Given(a))
  <2> DEFINE r == [c.info EXCEPT !.kind = "bridge", !.ip = a]
  <2>1. r \in SafeInfo
    BY <1>2, <1>3, InfoEndpoint DEF EndpointKinds
  <2>2. Given(a) = [c EXCEPT !.info = r, !.pc = "attach"]
    BY <1>1 DEF SafeCommand, IsCommand, CommandType
  <2>3. "attach" \in Plain
    BY DEF Plain
  <2> HIDE DEF r
  <2> QED
    BY <1>2, <2>1, <2>2, <2>3, PlainSafe
<1>4. ASSUME FreeBits(subnets, Net) = {}
      PROVE  TermsSafe' /\ SubnetsSafe'
  BY <1>3, <1>4, NetFacts, BecomeSafe DEF AllocateAddress, IInv, SubnetsSafe
<1>5. ASSUME FreeBits(subnets, Net) # {}
      PROVE  TermsSafe' /\ SubnetsSafe'
  <2> DEFINE o == FirstFree(subnets, Net)
  <2>1. /\ Net \in DOMAIN subnets
        /\ Become(t, Given(AddrOf(Net, o)))
        /\ subnets' = WithBit(subnets, Net, o)
    BY <1>5 DEF AllocateAddress
  <2>2. AddrOf(Net, o) \in Block(Net) /\ AddrOf(Net, o) # Gateway(Net) /\ SubnetsSafe'
    BY <1>5, <2>1, AllocateSafe DEF IInv
  <2>3. SafeCommand(Given(AddrOf(Net, o)))
    BY <1>3, <2>2
  <2> QED
    BY <2>1, <2>2, <2>3, BecomeSafe DEF IInv
<1> QED
  BY <1>4, <1>5 DEF AllocateAddress, IInv, NamesSafe, InfoSafe, MountsSafe, ProcsSafe, NetworkSafe

\* A link gets the address of its container's info.
LEMMA AttachKeeps ==
  ASSUME IInv, NEW t \in Terminals, Attach(t)
  PROVE  IInv'
<1> DEFINE c == term[t]
<1>1. SafeCommand(c) /\ c.pc \in HoldsInfo /\ c.info \in SafeInfo
  BY DEF IInv, TermsSafe, Attach, SafeCommand, HoldsInfo, ControlPoints
<1>2. ProcsSafe'
  <2>1. \/ UNCHANGED procs
        \/ /\ c.info.pid \in DOMAIN procs
           /\ procs' = [procs EXCEPT ![c.info.pid].ip = c.info.ip]
    BY DEF Attach, Live
  <2>2. c.info.ip \in Block(Net) \cup {NilIP} /\ c.info.ip # Gateway(Net)
    BY <1>1 DEF SafeInfo, InfoType
  <2>3. \A p \in DOMAIN procs : [procs[p] EXCEPT !.ip = c.info.ip] \in SafeProc
    BY <2>2 DEF IInv, ProcsSafe, IsFile, SafeProc, ProcType
  <2> QED
    BY <2>1, <2>3 DEF IInv, ProcsSafe, IsFile
<1>3. TermsSafe'
  <2>1. AfterConnect(c) \in Plain
    BY DEF Plain, AfterConnect
  <2>2. SafeCommand([c EXCEPT !.pc = AfterConnect(c)])
    BY <1>1, <2>1, PlainSafe
  <2> QED
    BY <2>2, GotoSafe DEF Attach, IInv
<1> QED
  BY <1>2, <1>3 DEF Attach, IInv, NamesSafe, InfoSafe, MountsSafe, SubnetsSafe, NetworkSafe

\* run and start record a safe info.
LEMMA RecordKeeps ==
  ASSUME IInv, NEW t \in Terminals, Record(t)
  PROVE  IInv'
<1> DEFINE c == term[t]
<1>1. SafeCommand(c) /\ c.pc = "record"
  BY DEF IInv, TermsSafe, Record
<1>2. c.info \in SafeInfo /\ c.id \in Ids /\ c.own \in Ids
  BY <1>1, KnowsIds DEF SafeCommand, HoldsInfo, ControlPoints
<1>3. InfoSafe'
  BY <1>2, FileWith DEF Record, IInv, InfoSafe
<1>4. ASSUME c.cmd = "run", Goto(t, "wait") PROVE TermsSafe'
  <2>1. "wait" \in ControlPoints \ {"lookup"}
    BY DEF ControlPoints
  <2>2. SafeCommand([c EXCEPT !.pc = "wait"])
    BY <1>1, <1>2, <1>4, <2>1, MoveSafe
  <2> QED
    BY <1>4, <2>2, GotoSafe DEF IInv
<1>5. TermsSafe'
  BY <1>4, ReturnSafe DEF Record, IInv
<1> QED
  BY <1>3, <1>5 DEF Record, IInv, NamesSafe, MountsSafe, ProcsSafe, SubnetsSafe, NetworkSafe

-----------------------------------------------------------------------------
(* The name file, and removal. *)

\* However old the copy of the name file that is written back, it is a file from
\* names and ids to ids.
LEMMA NameFileKeeps ==
  ASSUME IInv, NEW t \in Terminals,
         ReadNames(t) \/ RecordName(t) \/ RemoveName(t)
  PROVE  IInv'
<1> DEFINE c == term[t]
<1>1. SafeCommand(c) /\ c.pc \in {"nameread", "namewrite"}
  BY DEF IInv, TermsSafe, ReadNames, RecordName, RemoveName
<1>2. /\ c.info.name \in Names \cup Ids /\ c.id \in Ids
      /\ IsFile(c.copy, Names \cup Ids, Ids)
  <2>1. c.info \in InfoType /\ c.copy \in NameFiles
    BY <1>1 DEF SafeCommand, IsCommand, CommandType, HoldsInfo, ControlPoints
  <2> QED
    BY <1>1, <2>1, KnowsIds, NameFilesAreFiles DEF InfoType
<1>3. NoFile \in NameFiles
  BY NoFileIsFile, NameFilesAreFiles
<1>4. NamesSafe'
  <2>1. IsFile(With(With(c.copy, c.info.name, c.id), c.id, c.id), Names \cup Ids, Ids)
    <3>1. IsFile(With(c.copy, c.info.name, c.id), Names \cup Ids, Ids)
      BY <1>2, FileWith
    <3> QED
      BY <1>2, <3>1, FileWith
  <2>2. IsFile(Without(c.copy, {c.info.name, c.id}), Names \cup Ids, Ids)
    BY <1>2, FileWithout
  <2> QED
    BY <2>1, <2>2, NameFilesAreFiles
       DEF ReadNames, RecordName, RemoveName, IInv, NamesSafe
<1>5. ASSUME ReadNames(t) PROVE TermsSafe'
  <2>1. Become(t, [c EXCEPT !.copy = names, !.pc = "namewrite"])
    BY <1>5 DEF ReadNames, Become, IInv, TermsSafe
  <2>2. SafeCommand([c EXCEPT !.copy = names, !.pc = "namewrite"])
    BY <1>1, CopySafe DEF IInv, NamesSafe
  <2> QED
    BY <2>1, <2>2, BecomeSafe DEF IInv
<1>6. ASSUME RecordName(t) \/ RemoveName(t) PROVE TermsSafe'
  BY <1>1, <1>3, <1>6, CopySafe, BecomeSafe DEF RecordName, RemoveName, IInv
<1> QED
  BY <1>4, <1>5, <1>6 DEF ReadNames, RecordName, RemoveName, IInv, InfoSafe, MountsSafe,
                          ProcsSafe, SubnetsSafe, NetworkSafe

\* Removal takes a record and a mount away.
LEMMA DeleteWorkSpaceKeeps ==
  ASSUME IInv, NEW t \in Terminals, DeleteWorkSpace(t)
  PROVE  IInv'
<1>1. InfoSafe'
  BY FileWithout DEF DeleteWorkSpace, IInv, InfoSafe
<1>2. MountsSafe'
  BY DEF DeleteWorkSpace, IInv, MountsSafe
<1>3. TermsSafe'
  BY ReturnSafe DEF DeleteWorkSpace, IInv
<1> QED
  BY <1>1, <1>2, <1>3 DEF DeleteWorkSpace, IInv, NamesSafe, ProcsSafe, SubnetsSafe, NetworkSafe

-----------------------------------------------------------------------------
(* What happens around the commands. *)

\* A command that is killed leaves safe files behind.
LEMMA CrashKeeps ==
  ASSUME IInv, NEW t \in Terminals, Crash(t)
  PROVE  IInv'
<1>1. TermsSafe'
  BY ReturnSafe DEF Crash, IInv
<1> QED
  BY <1>1 DEF Crash, IInv, NamesSafe, InfoSafe, MountsSafe, ProcsSafe, SubnetsSafe, NetworkSafe

\* So do exits, reboots and changes of the network.
LEMMA EnvironmentKeeps ==
  ASSUME IInv, Environment
  PROVE  IInv'
<1>1. ASSUME NEW p \in Live, Exit(p) PROVE IInv'
  <2>1. ProcsSafe'
    BY <1>1, FileWithout DEF Exit, IInv, ProcsSafe
  <2> QED
    BY <1>1, <2>1 DEF Exit, IInv, NamesSafe, InfoSafe, MountsSafe, SubnetsSafe,
                      NetworkSafe, TermsSafe
<1>2. ASSUME Reboot PROVE IInv'
  <2>1. ProcsSafe' /\ MountsSafe'
    BY <1>2, NoFileIsFile DEF Reboot, ProcsSafe, MountsSafe
  <2>2. TermsSafe'
    BY <1>2, RestSafe DEF Reboot, TermsSafe
  <2> QED
    BY <1>2, <2>1, <2>2 DEF Reboot, IInv, NamesSafe, InfoSafe, SubnetsSafe, NetworkSafe
<1>3. ASSUME DeleteNetwork PROVE IInv'
  <2>1. SubnetsSafe'
    BY <1>3, DeleteSafe DEF DeleteNetwork, IInv
  <2> QED
    BY <1>3, <2>1 DEF DeleteNetwork, IInv, NamesSafe, InfoSafe, MountsSafe, ProcsSafe,
                      NetworkSafe, TermsSafe
<1>4. ASSUME CreateNetwork PROVE IInv'
  <2>1. SubnetsSafe'
    BY <1>4, CreateSafe DEF CreateNetwork, CanCreate, IInv, SubnetsSafe
  <2> QED
    BY <1>4, <2>1 DEF CreateNetwork, IInv, NamesSafe, InfoSafe, MountsSafe, ProcsSafe,
                      NetworkSafe, TermsSafe
<1> QED
  BY <1>1, <1>2, <1>3, <1>4 DEF Environment

-----------------------------------------------------------------------------
(* The invariant, and what follows from it. *)

\* At the start there are no containers, and one network.
LEMMA InitInvariant == Init => IInv
<1> SUFFICES ASSUME Init PROVE IInv
  OBVIOUS
<1>1. NamesSafe /\ InfoSafe /\ MountsSafe /\ ProcsSafe /\ NetworkSafe
  BY NoFileIsFile, NameFilesAreFiles
     DEF Init, NamesSafe, InfoSafe, MountsSafe, ProcsSafe, NetworkSafe
<1>2. SubnetsSafe
  <2> DEFINE n == WithSubnet(NoSubnets, Net)
  <2>1. CanCreate(NoSubnets, Net)
    BY NetFacts, SmallFields DEF CanCreate, NoSubnets
  <2>2. WellFormed(n) /\ DOMAIN n = {Net} /\ n[Net] = {}
    BY <2>1, NetFacts, SmallFields, NoSubnetsWellFormed, CreateWellFormed
       DEF WithSubnet, NoSubnets
  <2>3. FreeBits(n, Net) # {}
    <3>1. 0 \in Offsets(Net)
      BY NetFacts, SmallFields DEF Offsets
    <3> QED
      BY <2>2, <3>1 DEF FreeBits
  <2>4. FirstFree(n, Net) = GatewayBit
    BY <2>2, <2>3, NetFacts, FirstFreeIsFree
  <2>5. WellFormed(subnets)
    BY <2>2, <2>3, <2>4, AllocateWellFormed DEF Init
  <2>6. DOMAIN subnets = {Net} /\ GatewayBit \in subnets[Net]
    BY <2>2 DEF Init, WithBit
  <2> QED
    BY <2>5, <2>6 DEF SubnetsSafe
<1>3. TermsSafe
  BY RestSafe DEF Init, TermsSafe
<1> QED
  BY <1>1, <1>2, <1>3 DEF IInv

\* Every step of every command, and everything that happens around them,
\* keeps the invariant.
LEMMA StepInvariant == IInv /\ [Next]_vars => IInv'
<1> SUFFICES ASSUME IInv, [Next]_vars PROVE IInv'
  OBVIOUS
<1>1. ASSUME NEW t \in Terminals, Type(t) PROVE IInv'
  BY <1>1, TypeKeeps
<1>2. ASSUME NEW t \in Terminals, Step(t) PROVE IInv'
  <2>1. CASE Lookup(t) \/ Read(t) \/ Check(t)
    BY <2>1, LookupKeeps, ReadKeeps, CheckKeeps
  <2>2. CASE DisconnectHost(t) \/ DisconnectBridge(t) \/ DisconnectNil(t)
    BY <2>2, DisconnectHostKeeps, DisconnectBridgeKeeps
  <2>3. CASE Kill(t) \/ RecordPaused(t)
    BY <2>3, KillKeeps, RecordPausedKeeps
  <2>4. CASE CheckName(t) \/ MakeWorkSpace(t) \/ Health(t) \/ AllocateFails(t) \/ Waited(t)
    BY <2>4, PrepareKeeps
  <2>5. CASE Spawn(t) \/ AllocateAddress(t) \/ Attach(t) \/ Record(t)
    BY <2>5, SpawnKeeps, AllocateAddressKeeps, AttachKeeps, RecordKeeps
  <2>6. CASE ReadNames(t) \/ RecordName(t) \/ RemoveName(t)
    BY <2>6, NameFileKeeps
  <2>7. CASE DeleteWorkSpace(t)
    BY <2>7, DeleteWorkSpaceKeeps
  <2> QED
    BY <1>2, <2>1, <2>2, <2>3, <2>4, <2>5, <2>6, <2>7 DEF Step
<1>3. ASSUME NEW t \in Terminals, Crash(t) PROVE IInv'
  BY <1>3, CrashKeeps
<1>4. CASE Environment
  BY <1>4, EnvironmentKeeps
<1>5. CASE UNCHANGED vars
  BY <1>5 DEF vars, IInv, NamesSafe, InfoSafe, MountsSafe, ProcsSafe, SubnetsSafe,
              NetworkSafe, TermsSafe
<1> QED
  BY <1>1, <1>2, <1>3, <1>4, <1>5 DEF Next

\* The invariant holds in every reachable state.
LEMMA ContainerInvariant == Spec => []IInv
  BY InitInvariant, StepInvariant, PTL DEF Spec

\* The files always hold what their Go types say, and every command that uses
\* an id or an info of a container has one, however many commands overlap.
THEOREM ContainerTypeCorrect == Spec => []TypeOK
<1>1. IInv => TypeOK
  <2> SUFFICES ASSUME IInv PROVE TypeOK
    OBVIOUS
  <2>1. IsFile(info, Ids, InfoType) /\ IsFile(procs, Pids, ProcType)
    BY DEF IInv, InfoSafe, ProcsSafe, SafeInfo, SafeProc, IsFile
  <2>2. IsMap(subnets) /\ DOMAIN subnets \subseteq {Net}
    BY DEF IInv, SubnetsSafe, WellFormed
  <2>3. term = [t \in Terminals |-> term[t]] /\ \A t \in Terminals : IsCommand(term[t])
    BY DEF IInv, TermsSafe, SafeCommand
  <2> QED
    BY <2>1, <2>2, <2>3 DEF TypeOK, IInv, NamesSafe, MountsSafe, NetworkSafe
<1> QED
  BY <1>1, ContainerInvariant, PTL

\* stopContainer never signals every process of the host: it does not reach
\* its Kill with the pid -1, whatever another stop recorded meanwhile.
THEOREM NeverSignalsAll == Spec => []NeverSignalsEveryone
<1>1. IInv => NeverSignalsEveryone
  BY DEF IInv, TermsSafe, SafeCommand, NeverSignalsEveryone
<1> QED
  BY <1>1, ContainerInvariant, PTL

\* No container comes to hold the gateway's address, so that no release by a
\* container drops the subnet of all.
THEOREM GatewayStaysUntouched == Spec => []GatewayUntouched
<1>1. IInv => GatewayUntouched
  BY DEF IInv, SubnetsSafe, InfoSafe, ProcsSafe, TermsSafe, SafeCommand, IsFile, Live,
         SafeInfo, SafeProc, GatewayUntouched
<1> QED
  BY <1>1, ContainerInvariant, PTL

-----------------------------------------------------------------------------
(* Commands that come one after the other.                                  *)

Serial == \A t, u \in Terminals : t = u

\* Where a command can be: its name, the procedure it is in and the step.
Place(c) ==
  \/ c.pc = "rest" /\ c.cmd = "none" /\ c.phase = "self"
  \/ /\ c.phase = "self"
     /\ \/ /\ c.cmd \in {"stop", "start", "rm", "inspect", "ps"}
           /\ c.pc \in {"lookup", "read", "check"}
        \/ c.cmd \in {"stop", "start", "rm", "run"} /\ c.pc = "disconnect"
        \/ c.cmd = "stop" /\ c.pc \in {"kill", "paused"}
        \/ c.cmd = "start" /\ c.pc = "health"
        \/ c.cmd \in {"start", "run"} /\ c.pc \in {"spawn", "allocate", "attach", "record"}
        \/ c.cmd = "run" /\ c.pc \in {"name", "workspace", "nameread", "namewrite", "wait"}
  \/ /\ c.phase = "stop" /\ c.cmd = "rm"
     /\ c.pc \in {"lookup", "read", "check", "disconnect", "kill", "paused"}
  \/ /\ c.phase = "unname" /\ c.cmd \in {"rm", "run"}
     /\ c.pc \in {"read", "check", "nameread", "namewrite", "delete"}

\* The command's info is the one on the disk.
Current(c) ==
  \/ c.pc \in {"check", "disconnect", "kill", "paused", "health", "wait"}
  \/ c.cmd = "start" /\ c.pc = "spawn"
  \/ c.phase = "unname" /\ c.pc \in {"nameread", "namewrite"}

\* A process was started and is not recorded yet.
Begun(c) ==
  c.phase = "self" /\ c.pc \in {"allocate", "attach", "record", "nameread", "namewrite"}

\* A run that has not recorded its container.
Fresh(c) ==
  /\ c.cmd = "run" /\ c.phase = "self"
  /\ c.pc \in {"name", "workspace", "spawn", "allocate", "attach", "nameread",
               "namewrite", "record"}

\* A command that may look its container up by name once more.
Named(c) ==
  \/ c.cmd = "rm" /\ c.phase # "unname" /\ c.pc \in {"read", "check"}
  \/ c.phase = "stop" /\ c.pc = "lookup"

\* What a command knows of the name file n and the records f.
Knows(c, n, f) ==
  /\ Place(c)
  /\ c.pc \notin {"rest", "lookup"} => c.own = c.id
  /\ Current(c) => c.id \in DOMAIN f /\ c.info = f[c.id]
  /\ Begun(c) => c.info.status = "Running"
  /\ Fresh(c) => c.id \notin DOMAIN f
  /\ Fresh(c) /\ c.pc # "record" => c.id \notin DOMAIN n
  /\ Fresh(c) /\ c.pc \notin {"name", "record"} => c.info.name \notin DOMAIN n
  /\ Fresh(c) /\ c.pc \in {"name", "workspace"} => c.key = c.info.name
  /\ c.pc \in {"wait", "disconnect"} => c.info.status # "Paused"
  /\ c.pc = "namewrite" => c.copy = n
  /\ Named(c) => c.key \in DOMAIN n /\ n[c.key] = c.own

\* A stopped container's record has the pid of no process.
PausedRecords == \A i \in DOMAIN info : info[i].status = "Paused" => info[i].pid = NoPid

KnowsAll == \A t \in Terminals : Knows(term[t], names, info)

SoloInv == IInv /\ PausedRecords /\ KnowsAll

\* The fields of a command that moves, carries another info or returns to rm.
LEMMA Fields ==
  ASSUME NEW c \in CommandType
  PROVE  /\ \A pc : LET d == [c EXCEPT !.pc = pc] IN
              /\ d.cmd = c.cmd /\ d.pc = pc /\ d.phase = c.phase /\ d.key = c.key
              /\ d.id = c.id /\ d.own = c.own /\ d.info = c.info /\ d.copy = c.copy
         /\ \A r, pc : LET d == [c EXCEPT !.info = r, !.pc = pc] IN
              /\ d.cmd = c.cmd /\ d.pc = pc /\ d.phase = c.phase /\ d.key = c.key
              /\ d.id = c.id /\ d.own = c.own /\ d.info = r /\ d.copy = c.copy
         /\ \A f, pc : LET d == [c EXCEPT !.copy = f, !.pc = pc] IN
              /\ d.cmd = c.cmd /\ d.pc = pc /\ d.phase = c.phase /\ d.key = c.key
              /\ d.id = c.id /\ d.own = c.own /\ d.info = c.info /\ d.copy = f
         /\ LET d == Unregister(c) IN
              /\ d.cmd = c.cmd /\ d.pc = "read" /\ d.phase = "unname" /\ d.key = c.key
              /\ d.id = c.own /\ d.own = c.own /\ d.info = c.info /\ d.copy = c.copy
  BY DEF CommandType, Unregister

\* A terminal at rest knows nothing.
LEMMA RestKnows == \A n, f : Knows(Rest, n, f)
  BY DEF Knows, Place, Current, Begun, Fresh, Named, Rest

\* A command that comes back to rm only knows its container's id.
LEMMA UnregisterKnows ==
  ASSUME NEW c \in CommandType, c.cmd \in {"rm", "run"}, NEW n, NEW f
  PROVE  Knows(Unregister(c), n, f)
<1> DEFINE d == Unregister(c)
<1>1. d.cmd = c.cmd /\ d.pc = "read" /\ d.phase = "unname" /\ d.id = c.own /\ d.own = c.own
  BY Fields
<1> HIDE DEF d
<1>2. Knows(d, n, f)
  BY <1>1 DEF Knows, Place, Current, Begun, Fresh, Named
<1> QED
  BY <1>2 DEF d

\* The command of the only terminal.
LEMMA BecomeKnows ==
  ASSUME Serial, IInv, NEW t \in Terminals, NEW d, Become(t, d), Knows(d, names', info')
  PROVE  KnowsAll'
<1>1. term'[t] = d
  BY DEF Become, IInv, TermsSafe
<1> QED
  BY <1>1 DEF Serial, KnowsAll

LEMMA GotoIsBecome ==
  ASSUME IInv, NEW t \in Terminals, NEW pc, Goto(t, pc)
  PROVE  Become(t, [term[t] EXCEPT !.pc = pc])
  BY DEF Goto, Become, IInv, TermsSafe

LEMMA ReturnKnows ==
  ASSUME Serial, IInv, NEW t \in Terminals, Return(t)
  PROVE  KnowsAll'
  BY RestKnows, BecomeKnows DEF Return

\* What is known of the command of a terminal.
LEMMA Known ==
  ASSUME SoloInv, NEW t \in Terminals
  PROVE  /\ term[t] \in CommandType
         /\ SafeCommand(term[t])
         /\ Knows(term[t], names, info)
  BY DEF SoloInv, IInv, TermsSafe, SafeCommand, IsCommand, KnowsAll

\* What a typed command starts with.
LEMMA TypeKnows ==
  ASSUME Serial, SoloInv, NEW t \in Terminals, Type(t)
  PROVE  PausedRecords' /\ KnowsAll'
<1>1. IInv /\ UNCHANGED <<names, info>> /\ PausedRecords'
  BY DEF SoloInv, Type, PausedRecords
<1>2. ASSUME Run(t) PROVE KnowsAll'
  <2>1. PICK i \in FreshIds, nt \in {"host", "bridge"}, tty \in BOOLEAN :
          \E n \in Names \cup {i} :
            Become(t, [Invocation("run", "name", n, i) EXCEPT
                         !.net = nt, !.info = [NoInfo(i) EXCEPT !.name = n, !.tty = tty]])
    BY <1>2 DEF Run
  <2>2. PICK n \in Names \cup {i} :
          Become(t, [Invocation("run", "name", n, i) EXCEPT
                       !.net = nt, !.info = [NoInfo(i) EXCEPT !.name = n, !.tty = tty]])
    BY <2>1
  <2> DEFINE d == [Invocation("run", "name", n, i) EXCEPT
                     !.net = nt, !.info = [NoInfo(i) EXCEPT !.name = n, !.tty = tty]]
  <2>3. i \notin DOMAIN info /\ i \notin DOMAIN names
    BY DEF FreshIds
  <2>4. /\ d.cmd = "run" /\ d.pc = "name" /\ d.phase = "self" /\ d.key = n
        /\ d.id = i /\ d.own = i /\ d.info.name = n
    BY DEF Invocation, Rest, NoInfo
  <2> HIDE DEF d
  <2>5. Knows(d, names, info)
    BY <2>3, <2>4 DEF Knows, Place, Current, Begun, Fresh, Named
  <2> QED
    BY <1>1, <2>2, <2>5, BecomeKnows DEF d
<1>3. ASSUME NEW cmd \in {"stop", "start", "rm", "inspect"}, NEW key, NEW d,
             d \in {Invocation(cmd, "lookup", key, None),
                    [Invocation(cmd, "lookup", key, None) EXCEPT !.force = TRUE]},
             Become(t, d)
      PROVE  KnowsAll'
  <2>1. d.cmd = cmd /\ d.pc = "lookup" /\ d.phase = "self"
    BY <1>3 DEF Invocation, Rest
  <2>2. Knows(d, names, info)
    BY <2>1 DEF Knows, Place, Current, Begun, Fresh, Named
  <2> QED
    BY <1>1, <1>3, <2>2, BecomeKnows
<1>4. ASSUME NEW i \in DOMAIN info, Become(t, Invocation("ps", "read", i, i)) PROVE KnowsAll'
  <2> DEFINE d == Invocation("ps", "read", i, i)
  <2>1. d.cmd = "ps" /\ d.pc = "read" /\ d.phase = "self" /\ d.id = i /\ d.own = i
    BY DEF Invocation, Rest
  <2> HIDE DEF d
  <2>2. Knows(d, names, info)
    BY <2>1 DEF Knows, Place, Current, Begun, Fresh, Named
  <2> QED
    BY <1>1, <1>4, <2>2, BecomeKnows DEF d
<1> QED
  BY <1>1, <1>2, <1>3, <1>4 DEF Type, OnContainer, RemoveForced, List

\* The steps that only move the command on, to where it knows the same.
LEMMA LookupKnows ==
  ASSUME Serial, SoloInv, NEW t \in Terminals, Lookup(t)
  PROVE  PausedRecords' /\ KnowsAll'
<1> DEFINE c == term[t]
<1>1. IInv /\ UNCHANGED <<names, info>> /\ PausedRecords' /\ c.pc = "lookup"
  BY DEF SoloInv, Lookup, PausedRecords
<1>2. c \in CommandType /\ Knows(c, names, info)
  BY Known
<1>3. ASSUME c.key \in DOMAIN names PROVE KnowsAll'
  <2> DEFINE o == IF c.phase = "self" THEN names[c.key] ELSE c.own
             d == [c EXCEPT !.id = names[c.key], !.pc = "read", !.own = o]
  <2>1. Become(t, d)
    BY <1>3 DEF Lookup
  <2>2. /\ d.cmd = c.cmd /\ d.pc = "read" /\ d.phase = c.phase /\ d.key = c.key
        /\ d.id = names[c.key] /\ d.own = o
    BY <1>2 DEF CommandType
  <2> HIDE DEF d
  <2>3. Knows(d, names, info)
    BY <1>1, <1>2, <1>3, <2>2 DEF Knows, Place, Current, Begun, Fresh, Named
  <2> QED
    BY <1>1, <2>1, <2>3, BecomeKnows
<1>4. ASSUME c.key \notin DOMAIN names PROVE KnowsAll'
  <2>1. Become(t, NotFound(c))
    BY <1>4 DEF Lookup
  <2>2. \/ c.phase = "self" /\ NotFound(c) = Rest
        \/ c.cmd = "rm" /\ NotFound(c) = Unregister(c)
    BY <1>1, <1>2 DEF NotFound, Knows, Place
  <2> QED
    BY <1>1, <1>2, <2>1, <2>2, RestKnows, UnregisterKnows, BecomeKnows
<1> QED
  BY <1>1, <1>3, <1>4

LEMMA ReadKnows ==
  ASSUME Serial, SoloInv, NEW t \in Terminals, Read(t)
  PROVE  PausedRecords' /\ KnowsAll'
<1> DEFINE c == term[t]
           d == [c EXCEPT !.info = info[c.id], !.pc = "check"]
           e == [c EXCEPT !.pc = "delete"]
<1>1. IInv /\ UNCHANGED <<names, info>> /\ PausedRecords' /\ c.pc = "read"
  BY DEF SoloInv, Read, PausedRecords
<1>2. c \in CommandType /\ Knows(c, names, info)
  BY Known
<1>3. /\ d.cmd = c.cmd /\ d.pc = "check" /\ d.phase = c.phase /\ d.key = c.key
      /\ d.id = c.id /\ d.own = c.own /\ d.info = info[c.id]
      /\ e.cmd = c.cmd /\ e.pc = "delete" /\ e.phase = c.phase
      /\ e.id = c.id /\ e.own = c.own
  BY <1>2, Fields
<1>4. \/ c.id \in DOMAIN info /\ Become(t, d)
      \/ Become(t, NotFound(c))
  BY DEF Read
<1>5. \/ NotFound(c) = Rest
      \/ c.cmd = "rm" /\ NotFound(c) = Unregister(c)
      \/ c.phase = "unname" /\ NotFound(c) = e
  BY <1>1, <1>2 DEF NotFound, Knows, Place
<1> HIDE DEF d, e
<1>6. c.id \in DOMAIN info => Knows(d, names, info)
  BY <1>1, <1>2, <1>3 DEF Knows, Place, Current, Begun, Fresh, Named
<1>7. c.phase = "unname" => Knows(e, names, info)
  BY <1>1, <1>2, <1>3 DEF Knows, Place, Current, Begun, Fresh, Named
<1> QED
  BY <1>1, <1>2, <1>4, <1>5, <1>6, <1>7, RestKnows, UnregisterKnows, BecomeKnows

\* The status check finds a stopped container stopped, and nothing else.
LEMMA StatusCheckFacts ==
  ASSUME IInv, NEW r \in SafeInfo, r.status = "Paused" => r.pid = NoPid
  PROVE  LET s == StatusCheck(r) IN
         /\ s \in SafeInfo
         /\ s.pid = r.pid /\ s.kind = r.kind /\ s.ip = r.ip /\ s.name = r.name /\ s.tty = r.tty
         /\ s.status = "Paused" <=> r.status = "Paused"
         /\ s.status = "Running" <=> r.pid \in Live
         /\ s.status \in {"Running", "Paused", "Dead"}
<1>1. NoPid \notin Live
  BY ContainerAssumptions DEF NoPid, Live, IInv, ProcsSafe, IsFile
<1>2. StatusCheck(r) \in SafeInfo
  BY StatusCheckSafe
<1> QED
  BY <1>1, <1>2 DEF StatusCheck, SafeInfo, InfoType

\* Where a command goes from the status check.
LEMMA CheckedKnows ==
  ASSUME NEW c \in CommandType, NEW n, NEW f, NEW g, Knows(c, n, f), c.pc = "check", NEW r,
         c.id \in DOMAIN g, g[c.id] = r, r.status \in {"Running", "Paused", "Dead"}
  PROVE  Knows(Checked(c, r), n, g)
<1> DEFINE d == [c EXCEPT !.info = r]
           At(pc) == [d EXCEPT !.pc = pc]
           e == [At("lookup") EXCEPT !.phase = "stop"]
<1>1. /\ d.cmd = c.cmd /\ d.pc = c.pc /\ d.phase = c.phase /\ d.key = c.key
      /\ d.id = c.id /\ d.own = c.own /\ d.info = r
  BY DEF CommandType
<1>2. \A pc : /\ At(pc).cmd = c.cmd /\ At(pc).pc = pc /\ At(pc).phase = c.phase
              /\ At(pc).key = c.key /\ At(pc).id = c.id /\ At(pc).own = c.own
              /\ At(pc).info = r
  BY DEF CommandType
<1>3. /\ e.cmd = c.cmd /\ e.pc = "lookup" /\ e.phase = "stop" /\ e.key = c.key
      /\ e.id = c.id /\ e.own = c.own
  BY DEF CommandType
<1>4. LET u == Unregister(d) IN
        u.cmd = c.cmd /\ u.pc = "read" /\ u.phase = "unname" /\ u.id = c.own /\ u.own = c.own
  BY DEF CommandType, Unregister
<1>5. c.cmd = "rm" => Knows(Unregister(d), n, g)
  <2> DEFINE u == Unregister(d)
  <2>1. u.cmd = c.cmd /\ u.pc = "read" /\ u.phase = "unname" /\ u.id = c.own /\ u.own = c.own
    BY <1>4
  <2> HIDE DEF u
  <2>2. c.cmd = "rm" => Knows(u, n, g)
    BY <2>1 DEF Knows, Place, Current, Begun, Fresh, Named
  <2> QED
    BY <2>2 DEF u
<1>6. c.phase = "unname" => Knows(At("nameread"), n, g)
  <2> DEFINE v == At("nameread")
  <2>1. /\ v.cmd = c.cmd /\ v.pc = "nameread" /\ v.phase = c.phase
        /\ v.id = c.id /\ v.own = c.own /\ v.info = r
    BY <1>2
  <2> HIDE DEF v
  <2>2. c.phase = "unname" => Knows(v, n, g)
    BY <2>1 DEF Knows, Place, Current, Begun, Fresh, Named
  <2> QED
    BY <2>2 DEF v
<1>7. c.cmd \in {"stop", "start", "rm"} /\ c.phase # "unname" /\ r.status # "Paused"
        => Knows(At("disconnect"), n, g)
  <2> DEFINE v == At("disconnect")
  <2>1. /\ v.cmd = c.cmd /\ v.pc = "disconnect" /\ v.phase = c.phase
        /\ v.id = c.id /\ v.own = c.own /\ v.info = r
    BY <1>2
  <2> HIDE DEF v
  <2>2. c.cmd \in {"stop", "start", "rm"} /\ c.phase # "unname" /\ r.status # "Paused"
          => Knows(v, n, g)
    BY <2>1 DEF Knows, Place, Current, Begun, Fresh, Named
  <2> QED
    BY <2>2 DEF v
<1>8. c.cmd = "start" /\ c.phase = "self" => Knows(At("health"), n, g)
  <2> DEFINE v == At("health")
  <2>1. /\ v.cmd = c.cmd /\ v.pc = "health" /\ v.phase = c.phase
        /\ v.id = c.id /\ v.own = c.own /\ v.info = r
    BY <1>2
  <2> HIDE DEF v
  <2>2. c.cmd = "start" /\ c.phase = "self" => Knows(v, n, g)
    BY <2>1 DEF Knows, Place, Current, Begun, Fresh, Named
  <2> QED
    BY <2>2 DEF v
<1> HIDE DEF e
<1>9. c.cmd = "rm" /\ c.phase = "self" => Knows(e, n, g)
  BY <1>3 DEF Knows, Place, Current, Begun, Fresh, Named
<1>10. Knows(StopReturned(d), n, g) \/ (c.cmd # "stop" /\ c.cmd # "rm")
  BY <1>1, <1>5, RestKnows DEF StopReturned
<1>11. c.phase \in Phases /\ (c.phase = "stop" => c.cmd = "rm")
  BY DEF CommandType, Knows, Place
<1>12. CASE c.phase = "unname"
  BY <1>6, <1>12 DEF Checked
<1>13. CASE c.phase = "stop" \/ (c.phase = "self" /\ c.cmd = "stop")
  <2>1. c.phase # "unname" /\ c.cmd \in {"stop", "rm"}
    BY <1>11, <1>13
  <2>2. Checked(c, r) = IF r.status = "Running" THEN At("disconnect") ELSE StopReturned(d)
    BY <1>13 DEF Checked
  <2> QED
    BY <1>7, <1>10, <2>1, <2>2
<1>14. CASE c.phase = "self" /\ c.cmd = "rm"
  <2>1. Checked(c, r) \in {e, Rest, At("disconnect"), Unregister(d)}
        /\ (r.status = "Paused" => Checked(c, r) = Unregister(d))
    BY <1>14 DEF Checked, e
  <2> QED
    BY <1>5, <1>7, <1>9, <1>14, <2>1, RestKnows
<1>15. CASE c.phase = "self" /\ c.cmd = "start"
  <2>1. Checked(c, r) \in {Rest, At("disconnect"), At("health")}
        /\ (r.status = "Paused" => Checked(c, r) = At("health"))
    BY <1>15 DEF Checked
  <2> QED
    BY <1>7, <1>8, <1>15, <2>1, RestKnows
<1>16. CASE c.phase = "self" /\ c.cmd \notin {"stop", "rm", "start"}
  BY <1>16, RestKnows DEF Checked
<1> QED
  BY <1>11, <1>12, <1>13, <1>14, <1>15, <1>16 DEF Phases

LEMMA CheckKnows ==
  ASSUME Serial, SoloInv, NEW t \in Terminals, Check(t)
  PROVE  PausedRecords' /\ KnowsAll'
<1> DEFINE c == term[t]
           r == StatusCheck(c.info)
<1>1. IInv /\ PausedRecords /\ UNCHANGED names /\ c.pc = "check"
      /\ info' = With(info, c.id, r) /\ Become(t, Checked(c, r))
  BY DEF SoloInv, Check
<1>2. c \in CommandType /\ Knows(c, names, info)
  BY Known
<1>3. c.id \in DOMAIN info /\ c.info = info[c.id]
  BY <1>1, <1>2 DEF Knows, Current
<1>4. c.info \in SafeInfo /\ (c.info.status = "Paused" => c.info.pid = NoPid)
  BY <1>1, <1>3 DEF IInv, InfoSafe, IsFile, PausedRecords
<1>5. /\ r.pid = c.info.pid /\ (r.status = "Paused" <=> c.info.status = "Paused")
      /\ r.status \in {"Running", "Paused", "Dead"}
  BY <1>1, <1>4, StatusCheckFacts
<1> HIDE DEF r
<1>6. c.id \in DOMAIN info' /\ info'[c.id] = r
  BY <1>1 DEF With
<1>7. PausedRecords'
  BY <1>1, <1>4, <1>5 DEF PausedRecords, With
<1>8. Knows(Checked(c, r), names, info')
  BY <1>1, <1>2, <1>5, <1>6, CheckedKnows
<1> QED
  BY <1>1, <1>7, <1>8, BecomeKnows

\* Disconnect leads to where the info is still the one on the disk, or to rm.
LEMMA DisconnectKnows ==
  ASSUME Serial, SoloInv, NEW t \in Terminals,
         DisconnectHost(t) \/ DisconnectBridge(t) \/ DisconnectNil(t)
  PROVE  PausedRecords' /\ KnowsAll'
<1> DEFINE c == term[t]
           At(pc) == [c EXCEPT !.pc = pc]
<1>1. /\ IInv /\ UNCHANGED <<names, info>> /\ PausedRecords' /\ c.pc = "disconnect"
      /\ Become(t, Disconnected(c)) \/ Return(t)
  BY DEF SoloInv, DisconnectHost, DisconnectBridge, DisconnectNil, PausedRecords
<1>2. c \in CommandType /\ Knows(c, names, info)
  BY Known
<1>3. \A pc : /\ At(pc).cmd = c.cmd /\ At(pc).pc = pc /\ At(pc).phase = c.phase
              /\ At(pc).id = c.id /\ At(pc).own = c.own /\ At(pc).info = c.info
  BY <1>2, Fields
<1>4. c.cmd = "stop" \/ c.phase = "stop" => Knows(At("kill"), names, info)
  <2> DEFINE v == At("kill")
  <2>1. /\ v.cmd = c.cmd /\ v.pc = "kill" /\ v.phase = c.phase
        /\ v.id = c.id /\ v.own = c.own /\ v.info = c.info
    BY <1>3
  <2> HIDE DEF v
  <2>2. c.cmd = "stop" \/ c.phase = "stop" => Knows(v, names, info)
    BY <1>1, <1>2, <2>1 DEF Knows, Place, Current, Begun, Fresh, Named
  <2> QED
    BY <2>2 DEF v
<1>5. c.cmd = "start" => Knows(At("health"), names, info)
  <2> DEFINE v == At("health")
  <2>1. /\ v.cmd = c.cmd /\ v.pc = "health" /\ v.phase = c.phase
        /\ v.id = c.id /\ v.own = c.own /\ v.info = c.info
    BY <1>3
  <2> HIDE DEF v
  <2>2. c.cmd = "start" => Knows(v, names, info)
    BY <1>1, <1>2, <2>1 DEF Knows, Place, Current, Begun, Fresh, Named
  <2> QED
    BY <2>2 DEF v
<1>6. \/ (c.cmd = "stop" \/ c.phase = "stop") /\ Disconnected(c) = At("kill")
      \/ c.cmd = "start" /\ Disconnected(c) = At("health")
      \/ c.cmd \in {"rm", "run"} /\ Disconnected(c) = Unregister(c)
  <2>1. c.phase = "stop" => c.cmd = "rm"
    BY <1>1, <1>2 DEF Knows, Place
  <2>2. c.cmd \in {"stop", "start", "rm", "run"}
    BY <1>1, <1>2 DEF Knows, Place
  <2> QED
    BY <2>1, <2>2 DEF Disconnected
<1>7. Knows(Disconnected(c), names, info)
  BY <1>2, <1>4, <1>5, <1>6, UnregisterKnows
<1> QED
  BY <1>1, <1>7, BecomeKnows, ReturnKnows

\* stopContainer comes back to a terminal or to rm.
LEMMA StopReturnedKnows ==
  ASSUME NEW c \in CommandType, NEW n, NEW f, Knows(c, n, f), c.pc \in {"kill", "paused"},
         NEW g
  PROVE  Knows(StopReturned(c), n, g)
<1>1. c.cmd \in {"stop", "rm"}
  BY DEF Knows, Place
<1> QED
  BY <1>1, RestKnows, UnregisterKnows DEF StopReturned

LEMMA KillKnows ==
  ASSUME Serial, SoloInv, NEW t \in Terminals, Kill(t)
  PROVE  PausedRecords' /\ KnowsAll'
<1> DEFINE c == term[t]
           d == [c EXCEPT !.pc = "paused"]
<1>1. /\ IInv /\ UNCHANGED <<names, info>> /\ PausedRecords' /\ c.pc = "kill"
      /\ Become(t, d) \/ Become(t, StopReturned(c))
  BY GotoIsBecome DEF SoloInv, Kill, PausedRecords
<1>2. c \in CommandType /\ Knows(c, names, info)
  BY Known
<1>3. /\ d.cmd = c.cmd /\ d.pc = "paused" /\ d.phase = c.phase
      /\ d.id = c.id /\ d.own = c.own /\ d.info = c.info
  BY <1>2, Fields
<1> HIDE DEF d
<1>4. Knows(d, names, info)
  BY <1>1, <1>2, <1>3 DEF Knows, Place, Current, Begun, Fresh, Named
<1> QED
  BY <1>1, <1>2, <1>4, StopReturnedKnows, BecomeKnows

LEMMA RecordPausedKnows ==
  ASSUME Serial, SoloInv, NEW t \in Terminals, RecordPaused(t)
  PROVE  PausedRecords' /\ KnowsAll'
<1> DEFINE c == term[t]
           r == [c.info EXCEPT !.status = "Paused", !.pid = NoPid]
<1>1. /\ IInv /\ PausedRecords /\ UNCHANGED names /\ c.pc = "paused"
      /\ info' = With(info, c.id, r) /\ Become(t, StopReturned(c))
  BY DEF SoloInv, RecordPaused
<1>2. c \in CommandType /\ Knows(c, names, info) /\ c.info \in InfoType
  BY <1>1, Known DEF SafeCommand, IsCommand, HoldsInfo, ControlPoints
<1>3. r.pid = NoPid
  BY <1>2 DEF InfoType
<1> HIDE DEF r
<1>4. PausedRecords'
  BY <1>1, <1>3 DEF PausedRecords, With
<1> QED
  BY <1>1, <1>2, <1>4, StopReturnedKnows, BecomeKnows

\* run and start, up to the record: a new container is in no file yet.
LEMMA StartUpKnows ==
  ASSUME Serial, SoloInv, NEW t \in Terminals,
         \/ CheckName(t) \/ MakeWorkSpace(t) \/ Health(t) \/ AllocateFails(t)
         \/ Attach(t) \/ Waited(t)
  PROVE  PausedRecords' /\ KnowsAll'
<1> DEFINE c == term[t]
           d(pc) == [c EXCEPT !.pc = pc]
<1>1. IInv /\ UNCHANGED <<names, info>> /\ PausedRecords'
  BY DEF SoloInv, CheckName, MakeWorkSpace, Health, AllocateFails, Attach, Waited,
         PausedRecords
<1>2. c \in CommandType /\ Knows(c, names, info)
  BY Known
<1>3. PICK pc :
        /\ Become(t, d(pc)) \/ Return(t)
        /\ \/ c.pc = "name" /\ pc = "workspace" /\ (Return(t) \/ c.key \notin DOMAIN names)
           \/ c.pc = "workspace" /\ pc = "spawn"
           \/ c.pc = "health" /\ pc = "spawn"
           \/ c.pc \in {"allocate", "attach"} /\ pc = AfterConnect(c)
           \/ c.pc = "wait" /\ pc = "disconnect"
  BY <1>1, GotoIsBecome
     DEF CheckName, MakeWorkSpace, Health, AllocateFails, Attach, Waited
<1> DEFINE e == d(pc)
<1>4. /\ e.cmd = c.cmd /\ e.pc = pc /\ e.phase = c.phase /\ e.key = c.key
      /\ e.id = c.id /\ e.own = c.own /\ e.info = c.info
  BY <1>2, Fields
<1> HIDE DEF e
<1>5. Return(t) \/ Knows(e, names, info)
  BY <1>2, <1>3, <1>4 DEF AfterConnect, Knows, Place, Current, Begun, Fresh, Named
<1> QED
  BY <1>1, <1>3, <1>5, BecomeKnows, ReturnKnows DEF e

\* A command whose process has just been started.
LEMMA SpawnKnows ==
  ASSUME Serial, SoloInv, NEW t \in Terminals, Spawn(t)
  PROVE  PausedRecords' /\ KnowsAll'
<1> DEFINE c == term[t]
<1>1. IInv /\ UNCHANGED <<names, info>> /\ PausedRecords' /\ c.pc = "spawn"
  BY DEF SoloInv, Spawn, PausedRecords
<1>2. c \in CommandType /\ Knows(c, names, info) /\ c.info \in InfoType
  BY <1>1, Known DEF SafeCommand, IsCommand, HoldsInfo, ControlPoints
<1> DEFINE Up(p) == [c.info EXCEPT !.status = "Running", !.pid = p]
           Out(p) == [Up(p) EXCEPT !.kind = "host"]
<1>3. PICK p :
        \/ Become(t, [c EXCEPT !.info = Up(p), !.pc = "allocate"])
        \/ Become(t, [c EXCEPT !.info = Out(p), !.pc = AfterConnect(c)])
  BY DEF Spawn
<1>4. /\ Up(p).status = "Running" /\ Up(p).name = c.info.name
      /\ Out(p).status = "Running" /\ Out(p).name = c.info.name
  BY <1>2 DEF InfoType
<1> HIDE DEF Up, Out
<1>5. PICK r \in {Up(p), Out(p)}, pc \in {"allocate", AfterConnect(c)} :
        Become(t, [c EXCEPT !.info = r, !.pc = pc])
  BY <1>3
<1>6. r.status = "Running" /\ r.name = c.info.name
  BY <1>4
<1> DEFINE d == [c EXCEPT !.info = r, !.pc = pc]
<1>7. /\ d.cmd = c.cmd /\ d.pc = pc /\ d.phase = c.phase /\ d.key = c.key
      /\ d.id = c.id /\ d.own = c.own /\ d.info = r
  BY <1>2, Fields
<1> HIDE DEF d
<1>8. Knows(d, names, info)
  BY <1>1, <1>2, <1>5, <1>6, <1>7 DEF AfterConnect, Knows, Place, Current, Begun, Fresh, Named
<1> QED
  BY <1>1, <1>5, <1>8, BecomeKnows DEF d

LEMMA AllocateAddressKnows ==
  ASSUME Serial, SoloInv, NEW t \in Terminals, AllocateAddress(t)
  PROVE  PausedRecords' /\ KnowsAll'
<1> DEFINE c == term[t]
<1>1. IInv /\ UNCHANGED <<names, info>> /\ PausedRecords' /\ c.pc = "allocate"
  BY DEF SoloInv, AllocateAddress, PausedRecords
<1>2. c \in CommandType /\ Knows(c, names, info) /\ c.info \in InfoType
  BY <1>1, Known DEF SafeCommand, IsCommand, HoldsInfo, ControlPoints
<1>3. PICK a : Become(t, [c EXCEPT !.info.kind = "bridge", !.info.ip = a, !.pc = "attach"])
  BY DEF AllocateAddress
<1> DEFINE d == [c EXCEPT !.info.kind = "bridge", !.info.ip = a, !.pc = "attach"]
<1>4. /\ d.cmd = c.cmd /\ d.pc = "attach" /\ d.phase = c.phase /\ d.id = c.id /\ d.own = c.own
      /\ d.info.status = c.info.status /\ d.info.name = c.info.name
  BY <1>2 DEF CommandType, InfoType
<1> HIDE DEF d
<1>5. Knows(d, names, info)
  BY <1>1, <1>2, <1>4 DEF Knows, Place, Current, Begun, Fresh, Named
<1> QED
  BY <1>1, <1>3, <1>5, BecomeKnows DEF d

LEMMA RecordKnows ==
  ASSUME Serial, SoloInv, NEW t \in Terminals, Record(t)
  PROVE  PausedRecords' /\ KnowsAll'
<1> DEFINE c == term[t]
           d == [c EXCEPT !.pc = "wait"]
<1>1. /\ IInv /\ PausedRecords /\ UNCHANGED names /\ c.pc = "record"
      /\ info' = With(info, c.id, c.info)
      /\ (c.cmd = "run" /\ Become(t, d)) \/ Return(t)
  BY GotoIsBecome DEF SoloInv, Record
<1>2. c \in CommandType /\ Knows(c, names, info)
  BY Known
<1>3. c.info.status = "Running"
  BY <1>1, <1>2 DEF Knows, Place, Begun
<1>4. c.id \in DOMAIN info' /\ info'[c.id] = c.info
  BY <1>1 DEF With
<1>5. PausedRecords'
  BY <1>1, <1>3 DEF PausedRecords, With
<1>6. /\ d.cmd = c.cmd /\ d.pc = "wait" /\ d.phase = c.phase
      /\ d.id = c.id /\ d.own = c.own /\ d.info = c.info
  BY <1>2, Fields
<1> HIDE DEF d
<1>7. c.cmd = "run" => Knows(d, names, info')
  BY <1>1, <1>2, <1>3, <1>4, <1>6 DEF Knows, Place, Current, Begun, Fresh, Named
<1> QED
  BY <1>1, <1>5, <1>7, BecomeKnows, ReturnKnows

\* The name file, and the end of a removal.
LEMMA NameFileKnows ==
  ASSUME Serial, SoloInv, NEW t \in Terminals,
         ReadNames(t) \/ RecordName(t) \/ RemoveName(t) \/ DeleteWorkSpace(t)
  PROVE  PausedRecords' /\ KnowsAll'
<1> DEFINE c == term[t]
<1>1. IInv /\ PausedRecords'
  BY DEF SoloInv, ReadNames, RecordName, RemoveName, DeleteWorkSpace, PausedRecords, Without
<1>2. c \in CommandType /\ Knows(c, names, info)
  BY Known
<1>3. ASSUME ReadNames(t) PROVE KnowsAll'
  <2> DEFINE d == [c EXCEPT !.copy = names, !.pc = "namewrite"]
  <2>1. Become(t, d) /\ c.pc = "nameread" /\ UNCHANGED <<names, info>>
    BY <1>1, <1>3 DEF ReadNames, Become, IInv, TermsSafe
  <2>2. /\ d.cmd = c.cmd /\ d.pc = "namewrite" /\ d.phase = c.phase
        /\ d.id = c.id /\ d.own = c.own /\ d.info = c.info /\ d.copy = names
    BY <1>2, Fields
  <2> HIDE DEF d
  <2>3. Knows(d, names, info)
    BY <1>2, <2>1, <2>2 DEF Knows, Place, Current, Begun, Fresh, Named
  <2> QED
    BY <1>1, <2>1, <2>3, BecomeKnows
<1>4. ASSUME RecordName(t) \/ RemoveName(t) PROVE KnowsAll'
  <2>1. PICK pc \in {"record", "delete"} :
          /\ Become(t, [c EXCEPT !.copy = NoFile, !.pc = pc]) /\ UNCHANGED info
          /\ c.pc = "namewrite"
          /\ \/ c.phase = "self" /\ pc = "record"
             \/ c.phase = "unname" /\ pc = "delete"
    BY <1>4 DEF RecordName, RemoveName
  <2> DEFINE d == [c EXCEPT !.copy = NoFile, !.pc = pc]
  <2>2. /\ d.cmd = c.cmd /\ d.pc = pc /\ d.phase = c.phase
        /\ d.id = c.id /\ d.own = c.own /\ d.info = c.info
    BY <1>2, Fields
  <2> HIDE DEF d
  <2>3. Knows(d, names', info)
    BY <1>2, <2>1, <2>2 DEF Knows, Place, Current, Begun, Fresh, Named
  <2> QED
    BY <1>1, <2>1, <2>3, BecomeKnows DEF d
<1>5. ASSUME DeleteWorkSpace(t) PROVE KnowsAll'
  BY <1>1, <1>5, ReturnKnows DEF DeleteWorkSpace
<1> QED
  BY <1>1, <1>3, <1>4, <1>5

\* A step keeps what one command knows at a time, whatever may fail.
LEMMA SoloStep ==
  ASSUME Serial, SoloInv, [Next]_vars
  PROVE  SoloInv'
<1>1. IInv'
  BY StepInvariant DEF SoloInv
<1>2. ASSUME NEW t \in Terminals, Step(t) PROVE PausedRecords' /\ KnowsAll'
  <2>1. CASE Lookup(t) \/ Read(t) \/ Check(t)
    BY <2>1, LookupKnows, ReadKnows, CheckKnows
  <2>2. CASE DisconnectHost(t) \/ DisconnectBridge(t) \/ DisconnectNil(t)
    BY <2>2, DisconnectKnows
  <2>3. CASE Kill(t) \/ RecordPaused(t)
    BY <2>3, KillKnows, RecordPausedKnows
  <2>4. CASE \/ CheckName(t) \/ MakeWorkSpace(t) \/ Health(t) \/ AllocateFails(t)
             \/ Attach(t) \/ Waited(t)
    BY <2>4, StartUpKnows
  <2>5. CASE Spawn(t) \/ AllocateAddress(t) \/ Record(t)
    BY <2>5, SpawnKnows, AllocateAddressKnows, RecordKnows
  <2>6. CASE ReadNames(t) \/ RecordName(t) \/ RemoveName(t) \/ DeleteWorkSpace(t)
    BY <2>6, NameFileKnows
  <2> QED
    BY <1>2, <2>1, <2>2, <2>3, <2>4, <2>5, <2>6 DEF Step
<1>3. ASSUME NEW t \in Terminals, Crash(t) PROVE PausedRecords' /\ KnowsAll'
  BY <1>3, ReturnKnows DEF Crash, SoloInv, PausedRecords
<1>4. ASSUME Reboot PROVE PausedRecords' /\ KnowsAll'
  BY <1>4, RestKnows DEF Reboot, SoloInv, PausedRecords, KnowsAll
<1>5. CASE UNCHANGED <<names, info, term>>
  BY <1>1, <1>5 DEF SoloInv, PausedRecords, KnowsAll
<1>6. UNCHANGED vars \/ (\E p \in Live : Exit(p)) \/ DeleteNetwork \/ CreateNetwork
        => UNCHANGED <<names, info, term>>
  BY DEF vars, Exit, DeleteNetwork, CreateNetwork
<1> QED
  BY <1>1, <1>2, <1>3, <1>4, <1>5, <1>6, TypeKnows DEF Next, Environment, SoloInv

\* At the start no command runs and no container is recorded.
LEMMA SoloInit == Init => SoloInv
<1> SUFFICES ASSUME Init PROVE SoloInv
  OBVIOUS
<1>1. IInv
  BY InitInvariant
<1>2. KnowsAll
  BY RestKnows DEF Init, KnowsAll
<1>3. PausedRecords
  BY DEF Init, NoFile, PausedRecords
<1> QED
  BY <1>1, <1>2, <1>3 DEF SoloInv

LEMMA SoloInvariant == ASSUME Serial PROVE Spec => []SoloInv
<1>1. SoloInv /\ [Next]_vars => SoloInv'
  BY SoloStep
<1> QED
  BY <1>1, SoloInit, PTL DEF Spec

\* A step that takes a container out of "Paused" is start's record of it.
LEMMA LeavesPaused ==
  ASSUME SoloInv, NEW t \in Terminals, Step(t),
         NEW i \in DOMAIN info \cap DOMAIN info',
         info[i].status = "Paused", info'[i].status # "Paused"
  PROVE  term[t].cmd = "start" /\ term[t].pc = "record" /\ term[t].id = i
<1> DEFINE c == term[t]
<1>1. SafeCommand(c) /\ Knows(c, names, info) /\ IInv /\ PausedRecords
  BY Known DEF SoloInv
<1>2. ASSUME Check(t) PROVE FALSE
  <2>1. c.pc = "check" /\ info' = With(info, c.id, StatusCheck(c.info))
    BY <1>2 DEF Check
  <2>2. i = c.id /\ c.info = info[i]
    BY <1>1, <2>1 DEF With, Knows, Current
  <2>3. c.info \in SafeInfo /\ c.info.pid = NoPid
    BY <1>1, <2>2 DEF IInv, InfoSafe, IsFile, PausedRecords
  <2>4. StatusCheck(c.info).status = "Paused"
    BY <1>1, <2>2, <2>3, StatusCheckFacts
  <2> QED
    BY <2>1, <2>2, <2>4 DEF With
<1>3. ASSUME RecordPaused(t) PROVE FALSE
  <2>1. c.info \in InfoType
    BY <1>1, <1>3 DEF RecordPaused, SafeCommand, IsCommand, HoldsInfo, ControlPoints
  <2> QED
    BY <1>3, <2>1 DEF RecordPaused, With, InfoType
<1>4. ASSUME Record(t) PROVE c.cmd = "start" /\ c.pc = "record" /\ c.id = i
  <2>1. c.id = i /\ c.pc = "record"
    BY <1>4 DEF Record, With
  <2> QED
    BY <1>1, <2>1 DEF Knows, Place, Fresh
<1>5. ASSUME DeleteWorkSpace(t) PROVE FALSE
  BY <1>5 DEF DeleteWorkSpace, Without
<1>6. ~(Check(t) \/ RecordPaused(t) \/ Record(t) \/ DeleteWorkSpace(t)) => UNCHANGED info
  BY DEF Step, Lookup, Read, DisconnectHost, DisconnectBridge, DisconnectNil, Kill,
         CheckName, MakeWorkSpace, Health, Spawn, AllocateFails, AllocateAddress, Attach,
         Waited, ReadNames, RecordName, RemoveName
<1> QED
  BY <1>2, <1>3, <1>4, <1>5, <1>6

\* A container the user stopped stays stopped until start records that it runs,
\* for commands one after the other, whatever fails: crashes and reboots, pids
\* that are used again, and processes that survive SIGTERM included.
THEOREM StoppedStaysStopped == ASSUME Serial PROVE Spec => PausedSticky
<1>1. ASSUME SoloInv, [Next]_vars,
             NEW i \in DOMAIN info \cap DOMAIN info',
             info[i].status = "Paused", info'[i].status # "Paused"
      PROVE  \E t \in Terminals :
               term[t].cmd = "start" /\ term[t].pc = "record" /\ term[t].id = i
  <2>1. ~(\E t \in Terminals : Step(t)) => UNCHANGED info
    BY <1>1 DEF Next, Environment, vars, Type, Crash, Exit, Reboot, DeleteNetwork, CreateNetwork
  <2>2. PICK t \in Terminals : Step(t)
    BY <1>1, <2>1
  <2> QED
    BY <1>1, <2>2, LeavesPaused
<1>2. SoloInv /\ [Next]_vars =>
        [\A i \in DOMAIN info \cap DOMAIN info' :
           info[i].status = "Paused" /\ info'[i].status # "Paused"
             => \E t \in Terminals :
                  term[t].cmd = "start" /\ term[t].pc = "record" /\ term[t].id = i]_vars
  BY <1>1
<1> QED
  BY <1>2, SoloInvariant, PTL DEF Spec, PausedSticky

-----------------------------------------------------------------------------
(* Commands that come one after the other, when only the mount of the       *)
(* overlay and the set-up of the veth pair may fail.                        *)

Calm == Serial /\ Terminals # {} /\ Faults \subseteq {"workspace", "attach"}

\* rm and stop are about to stop a container that runs.
Stopping(c) ==
  \/ c.phase = "stop" /\ c.pc \in {"lookup", "read", "check"}
  \/ c.pc \in {"disconnect", "kill"} /\ (c.cmd = "stop" \/ c.phase = "stop")

\* start has disconnected the container, and its record is that of the past.
Starting(c) == c.cmd = "start" /\ c.pc \in {"health", "spawn", "allocate", "attach", "record"}

\* The process that the container's record names has exited.
Ended(c) ==
  \/ c.pc = "disconnect" /\ c.phase = "self" /\ c.cmd # "stop"
  \/ c.pc = "paused" \/ c.phase = "unname" \/ Starting(c)

\* The name file has a container whose record is not written yet; its overlay
\* is mounted.
Recording(c) == Fresh(c) /\ c.pc = "record"
Mounting(c)  == Fresh(c) /\ c.pc \notin {"name", "workspace"}

\* The container whose recorded address is released already.
Gone(c) == IF c.pc \in {"kill", "paused"} \/ c.phase = "unname" \/ Starting(c) THEN {c.id} ELSE {}

\* The address that is allocated and not recorded yet.
Taken(c) == IF Begun(c) /\ c.pc # "allocate" /\ c.info.ip # NilIP THEN {c.info.ip} ELSE {}

\* An endpoint without addresses has none.
Sane(r) == r.kind # "bridge" => r.ip = NilIP

\* The name file n has the containers S, each under its id and its name.
Book(n, S, nameOf) ==
  /\ DOMAIN n = S \cup {nameOf[i] : i \in S}
  /\ \A i \in S : n[i] = i /\ n[nameOf[i]] = i

RecordedNames == [i \in DOMAIN info |-> info[i].name]

NamesTidy(c) ==
  CASE Recording(c)    -> Book(names, DOMAIN info \cup {c.id}, With(RecordedNames, c.id, c.info.name))
    [] c.pc = "delete" -> Book(names, DOMAIN info \ {c.id}, RecordedNames)
    [] OTHER           -> Book(names, DOMAIN info, RecordedNames)

MountsTidy(c) == mounted = DOMAIN info \cup (IF Mounting(c) THEN {c.id} ELSE {})

ProcsTidy(c) ==
  \A p \in Live :
    \/ procs[p].owner \in DOMAIN info /\ info[procs[p].owner].pid = p
    \/ Begun(c) /\ procs[p].owner = c.id /\ c.info.pid = p

\* start refuses a container of a terminal: its record goes with its run,
\* unless that panics over the nil address.
InfosTidy(c) ==
  \A i \in DOMAIN info :
    /\ Sane(info[i])
    /\ info[i].tty => info[i].ip = NilIP \/ (c.cmd = "run" /\ c.id = i)

CommandTidy(c) ==
  /\ Stopping(c) => c.own \in DOMAIN info /\ info[c.own].pid \in Live
  /\ Ended(c) => c.own \in DOMAIN info /\ info[c.own].pid \notin Live
  /\ Fresh(c) /\ ~Begun(c) => c.info.ip = NilIP
  /\ Begun(c) => Sane(c.info)
  /\ Starting(c) /\ c.pc # "health" => ~c.info.tty /\ c.info.name = info[c.id].name

\* Containers K of the records f and the addresses T are what m has in use.
Leases(m, f, K, T) ==
  /\ LeasedIn(m) = {Gateway(Net)} \cup {f[i].ip : i \in K} \cup T
  /\ \A i, j \in K : f[i].ip = f[j].ip => i = j
  /\ \A i \in K : f[i].ip \notin T

LeasesTidy(c) == Leases(subnets, info, Holders \ Gone(c), Taken(c))

NetworkTidy == network = TRUE /\ Net \in DOMAIN subnets

Tidy(t) ==
  /\ NamesTidy(term[t]) /\ MountsTidy(term[t]) /\ ProcsTidy(term[t])
  /\ InfosTidy(term[t]) /\ CommandTidy(term[t]) /\ LeasesTidy(term[t])
  /\ NetworkTidy

TidyInv == SoloInv /\ \A t \in Terminals : Tidy(t)

\* The name file stays as it is while the records keep their names.
LEMMA NamesStill ==
  ASSUME NEW t \in Terminals, NamesTidy(term[t]), UNCHANGED names,
         DOMAIN info' = DOMAIN info, \A i \in DOMAIN info : info'[i].name = info[i].name,
         ~Recording(term[t]), ~Recording(term'[t]),
         term[t].pc # "delete", term'[t].pc # "delete"
  PROVE  NamesTidy(term[t])'
<1>1. RecordedNames' = RecordedNames
  BY DEF RecordedNames
<1> QED
  BY <1>1 DEF NamesTidy

\* A container is added to the name file.
LEMMA BookAdd ==
  ASSUME NEW n, NEW S, NEW nameOf, DOMAIN nameOf = S, Book(n, S, nameOf),
         NEW i, NEW x, i \notin DOMAIN n, x \notin DOMAIN n
  PROVE  Book(With(With(n, x, i), i, i), S \cup {i}, With(nameOf, i, x))
<1> DEFINE m == With(With(n, x, i), i, i)
           g == With(nameOf, i, x)
<1>1. /\ DOMAIN m = DOMAIN n \cup {x, i}
      /\ m[i] = i /\ m[x] = i
      /\ \A y \in DOMAIN n : m[y] = n[y]
  BY DEF With
<1>2. i \notin S /\ g[i] = x /\ \A j \in S : g[j] = nameOf[j]
  BY DEF With, Book
<1> HIDE DEF m, g
<1>3. {g[j] : j \in S \cup {i}} = {nameOf[j] : j \in S} \cup {x}
  BY <1>2
<1>4. DOMAIN m = (S \cup {i}) \cup {g[j] : j \in S \cup {i}}
  BY <1>1, <1>3 DEF Book
<1>5. \A j \in S : j \in DOMAIN n /\ nameOf[j] \in DOMAIN n /\ n[j] = j /\ n[nameOf[j]] = j
  BY DEF Book
<1>6. \A j \in S \cup {i} : m[j] = j /\ m[g[j]] = j
  BY <1>1, <1>2, <1>5
<1>7. Book(m, S \cup {i}, g)
  BY <1>4, <1>6 DEF Book
<1> QED
  BY <1>7 DEF m, g

\* A container is taken out of the name file.
LEMMA BookRemove ==
  ASSUME NEW n, NEW S, NEW nameOf, DOMAIN nameOf = S, Book(n, S, nameOf), NEW i \in S
  PROVE  Book(Without(n, {nameOf[i], i}), S \ {i}, nameOf)
  BY DEF Book, Without

\* The steps that change no file but the command's own knowledge.
LEMMA ProcsStill ==
  ASSUME NEW t \in Terminals, ProcsTidy(term[t]),
         Live' \subseteq Live, \A p \in Live' : procs'[p].owner = procs[p].owner,
         DOMAIN info' = DOMAIN info, \A i \in DOMAIN info : info'[i].pid = info[i].pid,
         Begun(term[t]) => /\ Begun(term'[t]) /\ term'[t].id = term[t].id
                           /\ term'[t].info.pid = term[t].info.pid
  PROVE  ProcsTidy(term[t])'
  BY DEF ProcsTidy

LEMMA InfosStill ==
  ASSUME NEW t \in Terminals, InfosTidy(term[t]),
         DOMAIN info' = DOMAIN info,
         \A i \in DOMAIN info : /\ info'[i].kind = info[i].kind /\ info'[i].ip = info[i].ip
                                /\ info'[i].tty = info[i].tty,
         term[t].cmd = "run" /\ term[t].id \in DOMAIN info /\ info[term[t].id].ip # NilIP
           => term'[t].cmd = "run" /\ term'[t].id = term[t].id
  PROVE  InfosTidy(term[t])'
  BY DEF InfosTidy, Sane

LEMMA LeasesStill ==
  ASSUME NEW t \in Terminals, LeasesTidy(term[t]), UNCHANGED subnets,
         DOMAIN info' = DOMAIN info,
         \A i \in DOMAIN info : info'[i].ip = info[i].ip,
         (Holders \ Gone(term[t]))' = Holders \ Gone(term[t]),
         Taken(term'[t]) = Taken(term[t])
  PROVE  LeasesTidy(term[t])'
<1>1. Holders \ Gone(term[t]) \subseteq DOMAIN info
  BY DEF Holders
<1> DEFINE K == Holders \ Gone(term[t])
           T == Taken(term[t])
<1>2. Leases(subnets, info, K, T) /\ K \subseteq DOMAIN info
  BY <1>1 DEF LeasesTidy
<1> HIDE DEF K, T
<1>3. {info'[i].ip : i \in K} = {info[i].ip : i \in K}
  BY <1>2
<1>4. Leases(subnets', info', K, T)
  BY <1>2, <1>3 DEF Leases
<1> QED
  BY <1>4 DEF LeasesTidy, K, T

\* A step that changes only the command, and at most the links.
LEMMA OnlyCommand ==
  ASSUME NEW t \in Terminals, Tidy(t),
         UNCHANGED <<names, info, mounted, subnets, network>>,
         Live' = Live, \A p \in Live : procs'[p].owner = procs[p].owner,
         NEW c, c = term[t], NEW e, e = term'[t],
         ~Recording(c), ~Recording(e), c.pc # "delete", e.pc # "delete",
         Mounting(c) <=> Mounting(e), Mounting(c) => e.id = c.id,
         Begun(c) => Begun(e) /\ e.id = c.id /\ e.info.pid = c.info.pid,
         c.cmd = "run" /\ c.id \in DOMAIN info /\ info[c.id].ip # NilIP
           => e.cmd = "run" /\ e.id = c.id,
         Holders \ Gone(e) = Holders \ Gone(c), Taken(e) = Taken(c),
         CommandTidy(term[t])'
  PROVE  Tidy(t)'
<1>1. NamesTidy(term[t])'
  BY NamesStill DEF Tidy
<1>2. MountsTidy(term[t])'
  BY DEF Tidy, MountsTidy
<1>3. ProcsTidy(term[t])'
  BY ProcsStill DEF Tidy
<1>4. InfosTidy(term[t])'
  BY InfosStill DEF Tidy
<1>5. LeasesTidy(term[t])'
  BY DEF Tidy, LeasesTidy, Holders
<1>6. NetworkTidy'
  BY DEF Tidy, NetworkTidy
<1> QED
  BY <1>1, <1>2, <1>3, <1>4, <1>5, <1>6 DEF Tidy

\* What is known of the only command.
LEMMA TidyKnown ==
  ASSUME TidyInv, NEW t \in Terminals
  PROVE  /\ IInv /\ SoloInv /\ PausedRecords /\ Tidy(t)
         /\ term[t] \in CommandType /\ SafeCommand(term[t]) /\ Knows(term[t], names, info)
         /\ \A d : Become(t, d) => term'[t] = d
  BY Known DEF TidyInv, SoloInv, Become, IInv, TermsSafe

\* A step to rest that changes nothing else.
LEMMA ReturnTidy ==
  ASSUME Calm, TidyInv, NEW t \in Terminals, Return(t),
         UNCHANGED <<names, info, mounted, subnets, network>>,
         Live' = Live, \A p \in Live : procs'[p].owner = procs[p].owner,
         NEW c, c = term[t],
         ~Recording(c), c.pc # "delete", ~Mounting(c), ~Begun(c),
         c.cmd = "run" /\ c.id \in DOMAIN info => info[c.id].ip = NilIP,
         Holders \ Gone(c) = Holders
  PROVE  Tidy(t)'
<1>1. Tidy(t) /\ term'[t] = Rest
  BY TidyKnown DEF Return
<1> DEFINE e == term'[t]
<1>2. /\ e.pc = "rest" /\ e.cmd = "none" /\ e.phase = "self"
  BY <1>1 DEF Rest
<1> HIDE DEF e
<1>3. /\ ~Recording(e) /\ ~Mounting(e) /\ ~Begun(e) /\ ~Fresh(e) /\ ~Stopping(e) /\ ~Ended(e)
      /\ ~Starting(e) /\ Gone(e) = {} /\ Taken(e) = {} /\ Taken(c) = {}
  BY <1>2 DEF Recording, Mounting, Begun, Fresh, Stopping, Ended, Starting, Gone, Taken
<1>4. CommandTidy(term[t])'
  BY <1>3 DEF CommandTidy, e
<1> QED
  BY <1>1, <1>2, <1>3, <1>4, OnlyCommand DEF e

\* A step to a command with the fields of the old one at another point, which
\* changes no file.
LEMMA MoveTidy ==
  ASSUME Calm, TidyInv, NEW t \in Terminals,
         UNCHANGED <<names, info, mounted, subnets, network>>,
         Live' = Live, \A p \in Live : procs'[p].owner = procs[p].owner,
         NEW c, c = term[t], NEW e, e = term'[t],
         e.cmd = c.cmd, e.id = c.id, e.info = c.info,
         ~Recording(c), ~Recording(e), c.pc # "delete", e.pc # "delete",
         Mounting(c) <=> Mounting(e),
         Begun(c) => Begun(e),
         Holders \ Gone(e) = Holders \ Gone(c), Taken(e) = Taken(c),
         CommandTidy(term[t])'
  PROVE  Tidy(t)'
  BY TidyKnown, OnlyCommand

LEMMA TypeTidy ==
  ASSUME Calm, TidyInv, NEW t \in Terminals, Type(t)
  PROVE  Tidy(t)'
<1> DEFINE c == term[t]
           e == term'[t]
<1>1. /\ Tidy(t) /\ Knows(c, names, info) /\ c.pc = "rest" /\ IInv
      /\ UNCHANGED <<names, info, mounted, procs, subnets, network>>
  BY TidyKnown DEF Type
<1>2. c.cmd = "none" /\ c.phase = "self"
  BY <1>1 DEF Knows, Place
<1>3. \/ e.cmd = "run" /\ e.pc = "name" /\ e.phase = "self" /\ e.info.ip = NilIP
      \/ e.cmd \in {"stop", "start", "rm", "inspect"} /\ e.pc = "lookup" /\ e.phase = "self"
      \/ e.cmd = "ps" /\ e.pc = "read" /\ e.phase = "self"
  <2>1. ASSUME Run(t)
        PROVE  e.cmd = "run" /\ e.pc = "name" /\ e.phase = "self" /\ e.info.ip = NilIP
    <3>1. PICK i \in FreshIds, nt \in {"host", "bridge"}, tty \in BOOLEAN :
            \E n \in Names \cup {i} :
              Become(t, [Invocation("run", "name", n, i) EXCEPT
                           !.net = nt, !.info = [NoInfo(i) EXCEPT !.name = n, !.tty = tty]])
      BY <2>1 DEF Run
    <3>2. PICK n \in Names \cup {i} :
            Become(t, [Invocation("run", "name", n, i) EXCEPT
                         !.net = nt, !.info = [NoInfo(i) EXCEPT !.name = n, !.tty = tty]])
      BY <3>1
    <3>3. e = [Invocation("run", "name", n, i) EXCEPT
                 !.net = nt, !.info = [NoInfo(i) EXCEPT !.name = n, !.tty = tty]]
      BY <3>2, TidyKnown
    <3> QED
      BY <3>3 DEF Invocation, Rest, NoInfo
  <2>2. ASSUME NEW cmd \in {"stop", "start", "rm", "inspect"}, NEW key, NEW d,
               d \in {Invocation(cmd, "lookup", key, None),
                      [Invocation(cmd, "lookup", key, None) EXCEPT !.force = TRUE]},
               Become(t, d)
        PROVE  e.cmd = cmd /\ e.pc = "lookup" /\ e.phase = "self"
    <3>1. e = d
      BY <2>2, TidyKnown
    <3>2. d.cmd = cmd /\ d.pc = "lookup" /\ d.phase = "self"
      BY <2>2 DEF Invocation, Rest
    <3> QED
      BY <3>1, <3>2
  <2>3. ASSUME NEW i, Become(t, Invocation("ps", "read", i, i))
        PROVE  e.cmd = "ps" /\ e.pc = "read" /\ e.phase = "self"
    BY <2>3, TidyKnown DEF Invocation, Rest
  <2> QED
    BY <2>1, <2>2, <2>3 DEF Type, OnContainer, RemoveForced, List
<1> HIDE DEF e
<1>4. /\ ~Recording(e) /\ ~Mounting(e) /\ ~Begun(e) /\ ~Stopping(e) /\ ~Ended(e)
      /\ ~Starting(e) /\ Gone(e) = {} /\ Taken(e) = {}
      /\ (Fresh(e) => e.info.ip = NilIP)
  BY <1>3 DEF Recording, Mounting, Begun, Fresh, Stopping, Ended, Starting, Gone, Taken
<1>5. /\ ~Recording(c) /\ ~Mounting(c) /\ ~Begun(c) /\ Gone(c) = {} /\ Taken(c) = {}
  BY <1>1, <1>2 DEF Recording, Mounting, Begun, Fresh, Starting, Gone, Taken
<1>6. CommandTidy(term[t])'
  BY <1>4 DEF CommandTidy, e
<1>7. e.pc # "delete" /\ Live' = Live
  BY <1>1, <1>3 DEF Live
<1> QED
  BY <1>1, <1>2, <1>4, <1>5, <1>6, <1>7, OnlyCommand DEF e

\* The containers in the name file are those that are recorded.
LEMMA RegisteredIds ==
  ASSUME TidyInv, NEW t \in Terminals, ~Recording(term[t]), term[t].pc # "delete",
         NEW i \in DOMAIN info
  PROVE  i \in DOMAIN names
  BY TidyKnown DEF Tidy, NamesTidy, Book

LEMMA LookupTidy ==
  ASSUME Calm, TidyInv, NEW t \in Terminals, Lookup(t)
  PROVE  Tidy(t)'
<1> DEFINE c == term[t]
           e == term'[t]
<1>1. /\ Tidy(t) /\ Knows(c, names, info) /\ c.pc = "lookup" /\ IInv /\ c \in CommandType
      /\ UNCHANGED <<names, info, mounted, procs, subnets, network>> /\ Live' = Live
  BY TidyKnown DEF Lookup, Live
<1>2. /\ ~Recording(c) /\ ~Mounting(c) /\ ~Begun(c) /\ Gone(c) = {} /\ Taken(c) = {}
      /\ c.cmd # "run" /\ c.phase # "unname"
  BY <1>1 DEF Knows, Place, Recording, Mounting, Begun, Fresh, Starting, Gone, Taken
<1>3. CASE c.key \in DOMAIN names
  <2> DEFINE o == IF c.phase = "self" THEN names[c.key] ELSE c.own
             d == [c EXCEPT !.id = names[c.key], !.pc = "read", !.own = o]
  <2>1. e = d
    BY <1>3, TidyKnown DEF Lookup
  <2>2. /\ e.cmd = c.cmd /\ e.pc = "read" /\ e.phase = c.phase /\ e.own = o
    BY <1>1, <2>1 DEF CommandType
  <2> HIDE DEF d, e
  <2>3. /\ ~Recording(e) /\ ~Mounting(e) /\ ~Begun(e) /\ ~Fresh(e) /\ ~Ended(e)
        /\ ~Starting(e) /\ Gone(e) = {} /\ Taken(e) = {}
        /\ Stopping(e) => Stopping(c) /\ e.own = c.own
    BY <1>1, <1>2, <2>2 DEF Recording, Mounting, Begun, Fresh, Stopping, Ended, Starting, Gone, Taken
  <2>4. CommandTidy(term[t])'
    BY <1>1, <2>3 DEF Tidy, CommandTidy, e
  <2> QED
    BY <1>1, <1>2, <2>2, <2>3, <2>4, OnlyCommand DEF e
<1>4. CASE c.key \notin DOMAIN names
  <2>1. c.phase # "stop"
    BY <1>1, <1>4 DEF Knows, Named
  <2>2. c.phase = "self"
    BY <1>1, <1>2, <2>1 DEF Knows, Place
  <2>3. Return(t)
    BY <1>4, <2>2 DEF Lookup, NotFound, Return
  <2> QED
    BY <1>1, <1>2, <2>3, ReturnTidy
<1> QED
  BY <1>3, <1>4

LEMMA ReadTidy ==
  ASSUME Calm, TidyInv, NEW t \in Terminals, Read(t)
  PROVE  Tidy(t)'
<1> DEFINE c == term[t]
           e == term'[t]
           d == [c EXCEPT !.info = info[c.id], !.pc = "check"]
<1>1. /\ Tidy(t) /\ Knows(c, names, info) /\ c.pc = "read" /\ IInv /\ c \in CommandType
      /\ UNCHANGED <<names, info, mounted, procs, subnets, network>> /\ Live' = Live
  BY TidyKnown DEF Read, Live
<1>2. /\ ~Recording(c) /\ ~Mounting(c) /\ ~Begun(c) /\ Taken(c) = {}
      /\ c.own = c.id /\ (c.phase = "self" => c.cmd # "run" /\ Gone(c) = {})
      /\ c.phase \in {"self", "stop", "unname"}
  BY <1>1 DEF Knows, Place, Recording, Mounting, Begun, Fresh, Starting, Gone, Taken
<1>3. c.phase \in {"stop", "unname"} => c.id \in DOMAIN info /\ c.id \in DOMAIN names
  <2>1. c.phase \in {"stop", "unname"} => c.id \in DOMAIN info
    BY <1>1, <1>2 DEF Tidy, CommandTidy, Stopping, Ended
  <2> QED
    BY <1>1, <1>2, <2>1, RegisteredIds
<1>4. CASE e = d
  <2>1. /\ e.cmd = c.cmd /\ e.pc = "check" /\ e.phase = c.phase /\ e.own = c.own /\ e.id = c.id
    BY <1>1, <1>4, Fields
  <2> HIDE DEF d, e
  <2>2. /\ ~Recording(e) /\ ~Mounting(e) /\ ~Begun(e) /\ ~Fresh(e)
        /\ ~Starting(e) /\ Gone(e) = Gone(c) /\ Taken(e) = {}
        /\ Stopping(e) => Stopping(c)
        /\ Ended(e) => Ended(c)
    BY <1>1, <1>2, <2>1 DEF Recording, Mounting, Begun, Fresh, Stopping, Ended, Starting, Gone, Taken
  <2>3. CommandTidy(term[t])'
    BY <1>1, <2>1, <2>2 DEF Tidy, CommandTidy, e
  <2> QED
    BY <1>1, <1>2, <2>1, <2>2, <2>3, OnlyCommand DEF e
<1>5. CASE e # d
  <2>1. Become(t, NotFound(c)) /\ c.phase = "self"
    BY <1>2, <1>3, <1>5, TidyKnown DEF Read
  <2>2. Return(t)
    BY <2>1 DEF NotFound, Return
  <2> QED
    BY <1>1, <1>2, <2>1, <2>2, ReturnTidy
<1> QED
  BY <1>4, <1>5

\* The status check writes the record back as it was but for its status, and
\* takes no stopped container for another.
LEMMA CheckTidy ==
  ASSUME Calm, TidyInv, NEW t \in Terminals, Check(t)
  PROVE  Tidy(t)'
<1> DEFINE c == term[t]
           e == term'[t]
           r == StatusCheck(c.info)
<1>1. /\ Tidy(t) /\ Knows(c, names, info) /\ c.pc = "check" /\ IInv /\ PausedRecords
      /\ c \in CommandType
      /\ UNCHANGED <<names, mounted, procs, subnets, network>> /\ Live' = Live
      /\ info' = With(info, c.id, r) /\ e = Checked(c, r)
  BY TidyKnown DEF Check, Live
<1>2. /\ c.id \in DOMAIN info /\ c.info = info[c.id] /\ c.own = c.id
      /\ Place(c)
  BY <1>1 DEF Knows, Current
<1>3. c.info \in SafeInfo /\ (c.info.status = "Paused" => c.info.pid = NoPid)
  BY <1>1, <1>2 DEF IInv, InfoSafe, IsFile, PausedRecords
<1>4. /\ r.pid = c.info.pid /\ r.kind = c.info.kind /\ r.ip = c.info.ip
      /\ r.name = c.info.name /\ r.tty = c.info.tty
      /\ (r.status = "Paused" <=> c.info.status = "Paused")
      /\ (r.status = "Running" <=> c.info.pid \in Live)
      /\ r.status \in {"Running", "Paused", "Dead"}
  BY <1>1, <1>3, StatusCheckFacts
<1> HIDE DEF r
<1>5. DOMAIN info' = DOMAIN info
  BY <1>1, <1>2 DEF With
<1>6. \A i \in DOMAIN info :
        /\ info'[i].pid = info[i].pid /\ info'[i].kind = info[i].kind
        /\ info'[i].ip = info[i].ip /\ info'[i].name = info[i].name
        /\ info'[i].tty = info[i].tty
        /\ (info'[i].status = "Paused" <=> info[i].status = "Paused")
  BY <1>1, <1>2, <1>4 DEF With
<1>7. Holders' = Holders
  BY <1>5, <1>6 DEF Holders
<1>8. /\ ~Recording(c) /\ ~Mounting(c) /\ ~Begun(c) /\ ~Fresh(c) /\ Taken(c) = {}
      /\ (c.phase # "unname" => c.cmd # "run" /\ Gone(c) = {})
  BY <1>1, <1>2 DEF Place, Recording, Mounting, Begun, Fresh, Starting, Gone, Taken
<1>9. \/ e.cmd = "none" /\ e.pc = "rest" /\ e.phase = "self" /\ c.cmd # "run"
         /\ c.phase # "unname"
      \/ /\ e.cmd = c.cmd /\ e.id = c.id /\ e.own = c.id
         /\ \/ e.pc = "nameread" /\ e.phase = c.phase /\ c.phase = "unname"
            \/ /\ e.pc = "disconnect" /\ e.phase = c.phase /\ c.phase \in {"self", "stop"}
               /\ r.status = IF c.cmd = "stop" \/ c.phase = "stop" THEN "Running" ELSE "Dead"
            \/ /\ e.pc = "read" /\ e.phase = "unname" /\ c.phase = "self"
               /\ c.cmd = "rm" /\ r.status = "Paused"
            \/ e.pc = "lookup" /\ e.phase = "stop" /\ r.status = "Running" /\ c.cmd = "rm"
               /\ c.phase = "self"
            \/ /\ e.pc = "health" /\ e.phase = "self" /\ r.status = "Paused"
               /\ c.cmd = "start" /\ c.phase = "self"
  <2> DEFINE d == [c EXCEPT !.info = r]
             At(pc) == [d EXCEPT !.pc = pc]
             l == [At("lookup") EXCEPT !.phase = "stop"]
             u == Unregister(d)
  <2>1. \A pc : /\ At(pc).cmd = c.cmd /\ At(pc).pc = pc /\ At(pc).phase = c.phase
                /\ At(pc).id = c.id /\ At(pc).own = c.id
    BY <1>1, <1>2 DEF CommandType
  <2>2. l.cmd = c.cmd /\ l.pc = "lookup" /\ l.phase = "stop" /\ l.id = c.id /\ l.own = c.id
    BY <1>1, <1>2 DEF CommandType
  <2>3. /\ u.cmd = c.cmd /\ u.pc = "read" /\ u.phase = "unname" /\ u.id = c.id /\ u.own = c.id
        /\ d.cmd = c.cmd
    BY <1>1, <1>2 DEF CommandType, Unregister
  <2>4. Rest.cmd = "none" /\ Rest.pc = "rest" /\ Rest.phase = "self"
    BY DEF Rest
  <2>5. CASE c.phase = "unname"
    <3>1. e = At("nameread")
      BY <1>1, <2>5 DEF Checked
    <3> HIDE DEF e, At
    <3> QED
      BY <2>1, <2>5, <3>1
  <2>6. CASE c.phase = "stop"
    <3>1. r.status = "Running"
      BY <1>1, <1>2, <1>4, <2>6 DEF Tidy, CommandTidy, Stopping
    <3>2. e = At("disconnect")
      BY <1>1, <2>6, <3>1 DEF Checked
    <3> HIDE DEF e, At
    <3> QED
      BY <2>1, <2>6, <3>1, <3>2
  <2>7. CASE c.phase = "self" /\ c.cmd = "stop"
    <3>1. \/ r.status = "Running" /\ e = At("disconnect")
          \/ e = StopReturned(d)
      BY <1>1, <2>7 DEF Checked
    <3>2. StopReturned(d) = Rest
      BY <2>3, <2>7 DEF StopReturned
    <3> HIDE DEF e, At, d
    <3> QED
      BY <2>1, <2>4, <2>7, <3>1, <3>2
  <2>8. CASE c.phase = "self" /\ c.cmd = "rm"
    <3>1. \/ r.status = "Running" /\ e = l
          \/ e = Rest
          \/ r.status = "Dead" /\ e = At("disconnect")
          \/ r.status = "Paused" /\ e = u
      BY <1>1, <1>4, <2>8 DEF Checked
    <3> HIDE DEF e, At, d, u, l
    <3> QED
      BY <2>1, <2>2, <2>3, <2>4, <2>8, <3>1
  <2>9. CASE c.phase = "self" /\ c.cmd = "start"
    <3>1. \/ e = Rest
          \/ r.status = "Dead" /\ e = At("disconnect")
          \/ r.status = "Paused" /\ e = At("health")
      BY <1>1, <1>4, <2>9 DEF Checked
    <3> HIDE DEF e, At
    <3> QED
      BY <2>1, <2>4, <2>9, <3>1
  <2>10. CASE c.phase = "self" /\ c.cmd \notin {"stop", "rm", "start"}
    <3>1. e = Rest
      BY <1>1, <2>10 DEF Checked
    <3> HIDE DEF e
    <3> QED
      BY <1>8, <2>4, <2>10, <3>1
  <2> QED
    BY <1>1, <1>2, <2>5, <2>6, <2>7, <2>8, <2>9, <2>10 DEF Place
<1> HIDE DEF e
<1>10. /\ ~Recording(e) /\ ~Mounting(e) /\ ~Begun(e) /\ ~Fresh(e) /\ Taken(e) = {}
       /\ (Starting(e) => e.pc = "health") /\ e.pc # "delete"
  BY <1>9 DEF Recording, Mounting, Begun, Fresh, Starting, Taken
<1>11. NamesTidy(term[t])'
  BY <1>1, <1>5, <1>6, <1>8, <1>10, NamesStill DEF Tidy, e
<1>12. MountsTidy(term[t])'
  BY <1>1, <1>5, <1>8, <1>10 DEF Tidy, MountsTidy, e
<1>13. ProcsTidy(term[t])'
  BY <1>1, <1>5, <1>6, <1>8, ProcsStill DEF Tidy
<1>14. InfosTidy(term[t])'
  BY <1>1, <1>5, <1>6, <1>8, <1>9, InfosStill DEF Tidy, e
<1>15. CommandTidy(term[t])'
  <2>1. Stopping(e) => e.own \in DOMAIN info' /\ info'[e.own].pid \in Live'
    BY <1>1, <1>2, <1>4, <1>5, <1>6, <1>9 DEF Stopping
  <2>2. Ended(e) => e.own \in DOMAIN info' /\ info'[e.own].pid \notin Live'
    <3>1. c.phase = "unname" => c.info.pid \notin Live
      BY <1>1, <1>2 DEF Tidy, CommandTidy, Ended
    <3>2. Ended(e) => \/ e.phase = "unname"
                      \/ e.pc \in {"disconnect", "health"} /\ e.cmd # "stop" /\ e.phase # "stop"
      BY <1>9 DEF Ended, Starting
    <3> QED
      BY <1>1, <1>2, <1>4, <1>5, <1>6, <1>9, <3>1, <3>2
  <2> QED
    BY <1>10, <2>1, <2>2 DEF CommandTidy, e
<1>16. LeasesTidy(term[t])'
  <2>1. Holders \ Gone(e) = Holders \ Gone(c)
    <3>1. c.phase = "unname" => Gone(c) = {c.id} /\ Gone(e) = {c.id}
      BY <1>9 DEF Gone
    <3>2. c.phase # "unname" /\ Gone(e) # {} => Gone(e) = {c.id} /\ r.status = "Paused"
      BY <1>9 DEF Gone, Starting
    <3>3. r.status = "Paused" => c.id \notin Holders
      BY <1>2, <1>4 DEF Holders
    <3> QED
      BY <1>8, <3>1, <3>2, <3>3
  <2> QED
    BY <1>1, <1>5, <1>6, <1>7, <1>8, <1>10, <2>1, LeasesStill DEF Tidy, e
<1>17. NetworkTidy'
  BY <1>1 DEF Tidy, NetworkTidy
<1> QED
  BY <1>11, <1>12, <1>13, <1>14, <1>15, <1>16, <1>17 DEF Tidy

\* After Disconnect the container's address is accounted as released.
LEMMA DisconnectedTidy ==
  ASSUME Calm, TidyInv, NEW t \in Terminals, NEW c, c = term[t], NEW e, e = term'[t],
         c.pc = "disconnect", e = Disconnected(c), UNCHANGED info, Live' = Live
  PROVE  /\ ~Recording(e) /\ ~Mounting(e) /\ ~Begun(e) /\ e.pc # "delete" /\ Taken(e) = {}
         /\ e.cmd = c.cmd /\ e.id = c.id /\ Gone(e) = {c.id}
         /\ CommandTidy(term[t])'
<1>1. /\ Tidy(t) /\ Knows(c, names, info) /\ c \in CommandType /\ c.own = c.id /\ Place(c)
  BY TidyKnown DEF Knows
<1>2. /\ e.cmd = c.cmd /\ e.id = c.id /\ e.own = c.id
      /\ \/ e.pc = "kill" /\ e.phase = c.phase /\ (c.cmd = "stop" \/ c.phase = "stop")
         \/ e.pc = "health" /\ e.phase = c.phase /\ c.cmd = "start" /\ c.phase = "self"
         \/ /\ e.pc = "read" /\ e.phase = "unname" /\ c.cmd \in {"rm", "run"}
            /\ c.phase = "self"
  <2>1. /\ \/ c.cmd = "stop" /\ c.phase = "self"
           \/ c.cmd = "rm" /\ c.phase \in {"self", "stop"}
           \/ c.cmd \in {"start", "run"} /\ c.phase = "self"
    BY <1>1 DEF Place
  <2>2. CASE c.cmd = "stop" \/ c.phase = "stop"
    <3>1. e = [c EXCEPT !.pc = "kill"]
      BY <2>1, <2>2 DEF Disconnected
    <3> QED
      BY <1>1, <2>2, <3>1, Fields
  <2>3. CASE c.cmd = "start"
    <3>1. e = [c EXCEPT !.pc = "health"]
      BY <2>1, <2>3 DEF Disconnected
    <3> QED
      BY <1>1, <2>1, <2>3, <3>1, Fields
  <2>4. CASE c.cmd \in {"rm", "run"} /\ c.phase = "self"
    <3>1. e = Unregister(c)
      BY <2>4 DEF Disconnected
    <3> QED
      BY <1>1, <2>4, <3>1, Fields
  <2> QED
    BY <2>1, <2>2, <2>3, <2>4
<1>3. /\ ~Recording(e) /\ ~Mounting(e) /\ ~Begun(e) /\ ~Fresh(e) /\ e.pc # "delete"
      /\ Taken(e) = {} /\ Gone(e) = {c.id}
      /\ Stopping(e) => Stopping(c)
      /\ Ended(e) => Ended(c)
      /\ Starting(e) => e.pc = "health"
  BY <1>1, <1>2
     DEF Place, Recording, Mounting, Begun, Fresh, Taken, Gone, Starting, Stopping, Ended
<1>4. CommandTidy(term[t])'
  BY <1>1, <1>2, <1>3 DEF Tidy, CommandTidy
<1> QED
  BY <1>2, <1>3, <1>4

\* What holds of a command that is about to disconnect a container.
LEMMA AtDisconnect ==
  ASSUME Calm, TidyInv, NEW t \in Terminals, NEW c, c = term[t], c.pc = "disconnect"
  PROVE  /\ ~Recording(c) /\ ~Mounting(c) /\ ~Begun(c) /\ Taken(c) = {} /\ Gone(c) = {}
         /\ c.id \in DOMAIN info /\ c.info = info[c.id] /\ c.info.status # "Paused"
         /\ c.info \in SafeInfo /\ Sane(c.info)
<1>1. Knows(c, names, info) /\ IInv /\ Tidy(t)
  BY TidyKnown
<1>2. c.id \in DOMAIN info /\ c.info = info[c.id] /\ c.info.status # "Paused"
  BY <1>1 DEF Knows, Current
<1>3. c.info \in SafeInfo /\ Sane(c.info)
  BY <1>1, <1>2 DEF IInv, InfoSafe, IsFile, Tidy, InfosTidy
<1> QED
  BY <1>1, <1>2, <1>3 DEF Knows, Place, Recording, Mounting, Begun, Fresh, Taken, Gone, Starting

LEMMA DisconnectHostTidy ==
  ASSUME Calm, TidyInv, NEW t \in Terminals, DisconnectHost(t)
  PROVE  Tidy(t)'
<1> DEFINE c == term[t]
           e == term'[t]
<1>1. /\ Tidy(t) /\ c.pc = "disconnect" /\ c.info.kind = "host" /\ e = Disconnected(c)
      /\ UNCHANGED <<names, info, mounted, procs, subnets, network>> /\ Live' = Live
  BY TidyKnown DEF DisconnectHost, Live
<1>2. c.id \notin Holders
  BY <1>1, AtDisconnect DEF Holders
<1> HIDE DEF e
<1>3. /\ ~Recording(e) /\ ~Mounting(e) /\ ~Begun(e) /\ e.pc # "delete" /\ Taken(e) = {}
      /\ e.cmd = c.cmd /\ e.id = c.id /\ Gone(e) = {c.id} /\ CommandTidy(term[t])'
  BY <1>1, DisconnectedTidy DEF e
<1>4. ~Recording(c) /\ ~Mounting(c) /\ ~Begun(c) /\ Taken(c) = {} /\ Gone(c) = {}
  BY <1>1, AtDisconnect
<1> QED
  BY <1>1, <1>2, <1>3, <1>4, OnlyCommand DEF e

\* A panic over an absent endpoint leaves the container without an address.
LEMMA DisconnectNilTidy ==
  ASSUME Calm, TidyInv, NEW t \in Terminals, DisconnectNil(t)
  PROVE  Tidy(t)'
<1> DEFINE c == term[t]
<1>1. /\ c.pc = "disconnect" /\ c.info.kind = "nil" /\ Return(t)
      /\ UNCHANGED <<names, info, mounted, procs, subnets, network>> /\ Live' = Live
  BY DEF DisconnectNil, Live
<1>2. /\ ~Recording(c) /\ ~Mounting(c) /\ ~Begun(c) /\ Gone(c) = {}
      /\ c.info = info[c.id] /\ Sane(c.info)
  BY <1>1, AtDisconnect
<1> QED
  BY <1>1, <1>2, ReturnTidy DEF Sane

\* Releasing an address of the network takes it out of those in use.
LEMMA LeasedReleased ==
  ASSUME SubnetsSafe, Net \in DOMAIN subnets,
         NEW a \in Block(Net) \cup {NilIP}, a # Gateway(Net),
         ~ReleasePanics(subnets, Net, a)
  PROVE  /\ a # NilIP
         /\ LeasedIn(Released(subnets, Net, a)) = LeasedIn(subnets) \ {a}
         /\ Net \in DOMAIN Released(subnets, Net, a)
<1>1. a \in Block(Net) /\ a # NilIP
  BY DEF ReleasePanics
<1>2. /\ OffsetOf(Net, a) # GatewayBit /\ OffsetOf(Net, a) \in Offsets(Net)
      /\ a = AddrOf(Net, OffsetOf(Net, a))
  BY <1>1, NetFacts, BlockFacts
<1>3. Released(subnets, Net, a) = WithoutBit(subnets, Net, OffsetOf(Net, a))
  BY <1>2 DEF Released
<1>4. DOMAIN Released(subnets, Net, a) = DOMAIN subnets
  BY <1>3 DEF WithoutBit
<1>5. LeasedIn(WithoutBit(subnets, Net, OffsetOf(Net, a)))
        = LeasedIn(subnets) \ {AddrOf(Net, OffsetOf(Net, a))}
  BY <1>2, LeasedWithoutBit DEF SubnetsSafe
<1> QED
  BY <1>1, <1>2, <1>3, <1>4, <1>5

LEMMA DisconnectBridgeTidy ==
  ASSUME Calm, TidyInv, NEW t \in Terminals, DisconnectBridge(t)
  PROVE  Tidy(t)'
<1> DEFINE c == term[t]
           e == term'[t]
           a == c.info.ip
<1>1. /\ Tidy(t) /\ IInv /\ c.pc = "disconnect" /\ c.info.kind = "bridge"
      /\ procs' = Unlinked(c.id, c.info)
      /\ UNCHANGED <<names, info, mounted, network>>
  BY TidyKnown DEF DisconnectBridge
<1>2. Live' = Live /\ \A p \in Live : procs'[p].owner = procs[p].owner
  <2>1. \A p \in Live : procs[p] \in SafeProc
    BY <1>1 DEF IInv, ProcsSafe, IsFile, Live
  <2>2. \A p \in Live : [procs[p] EXCEPT !.ip = NilIP].owner = procs[p].owner
    BY <2>1 DEF SafeProc, ProcType
  <2> QED
    BY <1>1, <2>2 DEF Unlinked, Live
<1>3. /\ ~Recording(c) /\ ~Mounting(c) /\ ~Begun(c) /\ Taken(c) = {} /\ Gone(c) = {}
      /\ c.id \in DOMAIN info /\ c.info = info[c.id] /\ c.info.status # "Paused"
      /\ c.info \in SafeInfo
  BY <1>1, AtDisconnect
<1>4. a \in Block(Net) \cup {NilIP} /\ a # Gateway(Net)
  BY <1>3 DEF SafeInfo, InfoType
<1>5. SubnetsSafe /\ Net \in DOMAIN subnets
  BY <1>1 DEF IInv, Tidy, NetworkTidy
<1>6. CASE ReleasePanics(subnets, Net, a)
  <2>1. a = NilIP
    BY <1>5, <1>6 DEF ReleasePanics
  <2>2. Return(t) /\ UNCHANGED subnets
    BY <1>6 DEF DisconnectBridge
  <2> QED
    BY <1>1, <1>2, <1>3, <2>1, <2>2, ReturnTidy
<1>7. CASE ~ReleasePanics(subnets, Net, a)
  <2>1. e = Disconnected(c) /\ subnets' = Released(subnets, Net, a)
    BY <1>7, TidyKnown DEF DisconnectBridge
  <2>2. /\ a # NilIP /\ LeasedIn(subnets') = LeasedIn(subnets) \ {a}
        /\ Net \in DOMAIN subnets'
    BY <1>4, <1>5, <1>7, <2>1, LeasedReleased
  <2> HIDE DEF e
  <2>3. /\ ~Recording(e) /\ ~Mounting(e) /\ ~Begun(e) /\ e.pc # "delete" /\ Taken(e) = {}
        /\ e.cmd = c.cmd /\ e.id = c.id /\ Gone(e) = {c.id} /\ CommandTidy(term[t])'
    BY <1>1, <1>2, <2>1, DisconnectedTidy DEF e
  <2>4. c.id \in Holders /\ Holders' = Holders
    BY <1>1, <1>3, <2>2 DEF Holders
  <2>5. Leases(subnets, info, Holders, {})
    BY <1>1, <1>3 DEF Tidy, LeasesTidy
  <2>6. Leases(subnets', info, Holders \ {c.id}, {})
    <3>1. {info[i].ip : i \in Holders} \ {a} = {info[i].ip : i \in Holders \ {c.id}}
      BY <1>3, <2>4, <2>5 DEF Leases
    <3> QED
      BY <1>4, <2>2, <2>5, <3>1 DEF Leases
  <2>7. LeasesTidy(term[t])'
    BY <1>1, <2>3, <2>4, <2>6 DEF LeasesTidy, e
  <2>8. NamesTidy(term[t])'
    BY <1>1, <1>3, <2>3, NamesStill DEF Tidy, e
  <2>9. MountsTidy(term[t])'
    BY <1>1, <1>3, <2>3 DEF Tidy, MountsTidy, e
  <2>10. ProcsTidy(term[t])'
    BY <1>1, <1>2, <1>3, ProcsStill DEF Tidy
  <2>11. InfosTidy(term[t])'
    BY <1>1, <2>3, InfosStill DEF Tidy, e
  <2>12. NetworkTidy'
    BY <1>1, <2>2 DEF Tidy, NetworkTidy
  <2> QED
    BY <2>3, <2>7, <2>8, <2>9, <2>10, <2>11, <2>12 DEF Tidy
<1> QED
  BY <1>6, <1>7

\* stopContainer: what it signals is the container's process, and then the
\* record says that the container holds no address.
LEMMA KillTidy ==
  ASSUME Calm, TidyInv, NEW t \in Terminals, Kill(t)
  PROVE  Tidy(t)'
<1> DEFINE c == term[t]
           e == term'[t]
<1>1. /\ Tidy(t) /\ Knows(c, names, info) /\ c.pc = "kill" /\ c \in CommandType
      /\ UNCHANGED <<names, info, mounted, subnets, network>>
  BY TidyKnown DEF Kill
<1>2. /\ c.own = c.id /\ c.id \in DOMAIN info /\ c.info = info[c.id] /\ c.info.pid \in Live
  BY <1>1 DEF Knows, Current, Place, Tidy, CommandTidy, Stopping
<1>3. e = [c EXCEPT !.pc = "paused"] /\ procs' = Without(procs, {c.info.pid})
  BY <1>2, TidyKnown, GotoIsBecome DEF Kill, Calm
<1>4. /\ e.cmd = c.cmd /\ e.pc = "paused" /\ e.phase = c.phase
      /\ e.id = c.id /\ e.own = c.own /\ e.info = c.info
  BY <1>1, <1>3, Fields
<1>5. /\ Live' = Live \ {c.info.pid}
      /\ \A p \in Live' : procs'[p].owner = procs[p].owner
  BY <1>3 DEF Live, Without
<1> HIDE DEF e
<1>6. /\ ~Recording(c) /\ ~Mounting(c) /\ ~Begun(c) /\ Taken(c) = {} /\ Gone(c) = {c.id}
      /\ ~Recording(e) /\ ~Mounting(e) /\ ~Begun(e) /\ Taken(e) = {} /\ Gone(e) = {c.id}
      /\ ~Fresh(e) /\ ~Stopping(e) /\ ~Starting(e)
  BY <1>1, <1>4
     DEF Knows, Place, Recording, Mounting, Begun, Fresh, Taken, Gone, Starting, Stopping
<1>7. CommandTidy(term[t])'
  BY <1>1, <1>2, <1>4, <1>5, <1>6 DEF CommandTidy, e
<1>8. NamesTidy(term[t])'
  BY <1>1, <1>4, <1>6, NamesStill DEF Tidy, e
<1>9. MountsTidy(term[t])'
  BY <1>1, <1>6 DEF Tidy, MountsTidy, e
<1>10. ProcsTidy(term[t])'
  BY <1>1, <1>5, <1>6, ProcsStill DEF Tidy
<1>11. InfosTidy(term[t])'
  BY <1>1, <1>4, InfosStill DEF Tidy, e
<1>12. LeasesTidy(term[t])'
  BY <1>1, <1>6 DEF Tidy, LeasesTidy, Holders, e
<1>13. NetworkTidy'
  BY <1>1 DEF Tidy, NetworkTidy
<1> QED
  BY <1>7, <1>8, <1>9, <1>10, <1>11, <1>12, <1>13 DEF Tidy

LEMMA RecordPausedTidy ==
  ASSUME Calm, TidyInv, NEW t \in Terminals, RecordPaused(t)
  PROVE  Tidy(t)'
<1> DEFINE c == term[t]
           e == term'[t]
           r == [c.info EXCEPT !.status = "Paused", !.pid = NoPid]
<1>1. /\ Tidy(t) /\ IInv /\ Knows(c, names, info) /\ c.pc = "paused" /\ c \in CommandType
      /\ UNCHANGED <<names, mounted, procs, subnets, network>> /\ Live' = Live
      /\ info' = With(info, c.id, r) /\ e = StopReturned(c)
  BY TidyKnown DEF RecordPaused, Live
<1>2. /\ c.own = c.id /\ c.id \in DOMAIN info /\ c.info = info[c.id] /\ c.info.pid \notin Live
      /\ c.cmd \in {"stop", "rm"}
  BY <1>1 DEF Knows, Current, Place, Tidy, CommandTidy, Ended
<1>3. NoPid \notin Live
  BY <1>1, ContainerAssumptions DEF NoPid, Live, IInv, ProcsSafe, IsFile
<1>4. c.info \in SafeInfo
  BY <1>1, <1>2 DEF IInv, InfoSafe, IsFile
<1>5. /\ r.pid = NoPid /\ r.status = "Paused" /\ r.kind = c.info.kind /\ r.ip = c.info.ip
      /\ r.name = c.info.name /\ r.tty = c.info.tty
  BY <1>4 DEF SafeInfo, InfoType
<1> HIDE DEF r
<1>6. /\ DOMAIN info' = DOMAIN info
      /\ info'[c.id] = r /\ \A i \in DOMAIN info : i # c.id => info'[i] = info[i]
  BY <1>1, <1>2 DEF With
<1>7. \A i \in DOMAIN info : /\ info'[i].kind = info[i].kind /\ info'[i].ip = info[i].ip
                             /\ info'[i].name = info[i].name /\ info'[i].tty = info[i].tty
  BY <1>2, <1>5, <1>6
<1>8. \/ c.cmd = "stop" /\ e.cmd = "none" /\ e.pc = "rest" /\ e.phase = "self"
      \/ /\ e.cmd = "rm" /\ e.pc = "read" /\ e.phase = "unname" /\ e.id = c.id /\ e.own = c.id
  <2>1. CASE c.cmd = "stop"
    BY <1>1, <2>1 DEF StopReturned, Rest
  <2>2. CASE c.cmd = "rm"
    <3>1. e = Unregister(c)
      BY <1>1, <2>2 DEF StopReturned
    <3> QED
      BY <1>1, <1>2, <2>2, <3>1, Fields
  <2> QED
    BY <1>2, <2>1, <2>2
<1> HIDE DEF e
<1>9. /\ ~Recording(c) /\ ~Mounting(c) /\ ~Begun(c) /\ Taken(c) = {} /\ Gone(c) = {c.id}
      /\ ~Recording(e) /\ ~Mounting(e) /\ ~Begun(e) /\ Taken(e) = {} /\ Gone(e) \subseteq {c.id}
      /\ ~Fresh(e) /\ ~Stopping(e) /\ ~Starting(e) /\ e.pc # "delete"
      /\ Ended(e) => e.own = c.id
  BY <1>1, <1>2, <1>8
     DEF Recording, Mounting, Begun, Fresh, Taken, Gone, Starting, Stopping, Ended
<1>10. CommandTidy(term[t])'
  BY <1>1, <1>2, <1>3, <1>5, <1>6, <1>9 DEF CommandTidy, e
<1>11. NamesTidy(term[t])'
  BY <1>1, <1>6, <1>7, <1>9, NamesStill DEF Tidy, e
<1>12. MountsTidy(term[t])'
  BY <1>1, <1>6, <1>9 DEF Tidy, MountsTidy, e
<1>13. ProcsTidy(term[t])'
  BY <1>1, <1>2, <1>6, <1>9 DEF Tidy, ProcsTidy
<1>14. InfosTidy(term[t])'
  BY <1>1, <1>2, <1>6, <1>7, InfosStill DEF Tidy
<1>15. LeasesTidy(term[t])'
  <2>1. Holders' = Holders \ {c.id}
    BY <1>2, <1>5, <1>6 DEF Holders
  <2> QED
    BY <1>1, <1>6, <1>7, <1>9, <2>1, LeasesStill DEF Tidy, e
<1>16. NetworkTidy'
  BY <1>1 DEF Tidy, NetworkTidy
<1> QED
  BY <1>10, <1>11, <1>12, <1>13, <1>14, <1>15, <1>16 DEF Tidy

\* run, before its container's process is started.
LEMMA CheckNameTidy ==
  ASSUME Calm, TidyInv, NEW t \in Terminals, CheckName(t)
  PROVE  Tidy(t)'
<1> DEFINE c == term[t]
           e == term'[t]
<1>1. /\ Tidy(t) /\ IInv /\ Knows(c, names, info) /\ c.pc = "name" /\ c \in CommandType
      /\ UNCHANGED <<names, info, mounted, procs, subnets, network>> /\ Live' = Live
      /\ Return(t) \/ Goto(t, "workspace")
  BY TidyKnown DEF CheckName, Live
<1>2. /\ c.cmd = "run" /\ c.phase = "self" /\ Fresh(c) /\ c.id \notin DOMAIN info
      /\ ~Recording(c) /\ ~Mounting(c) /\ ~Begun(c) /\ Taken(c) = {} /\ Gone(c) = {}
  BY <1>1 DEF Knows, Place, Recording, Mounting, Begun, Fresh, Taken, Gone, Starting
<1>3. CASE Return(t)
  BY <1>1, <1>2, <1>3, ReturnTidy
<1>4. CASE Goto(t, "workspace")
  <2>1. e = [c EXCEPT !.pc = "workspace"]
    BY <1>1, <1>4, TidyKnown, GotoIsBecome
  <2>2. /\ e.cmd = c.cmd /\ e.pc = "workspace" /\ e.phase = c.phase
        /\ e.id = c.id /\ e.own = c.own /\ e.info = c.info
    BY <1>1, <2>1, Fields
  <2> HIDE DEF e
  <2>3. /\ ~Recording(e) /\ ~Mounting(e) /\ ~Begun(e) /\ Taken(e) = {} /\ Gone(e) = {}
        /\ ~Stopping(e) /\ ~Ended(e) /\ ~Starting(e)
    BY <1>2, <2>2 DEF Recording, Mounting, Begun, Fresh, Taken, Gone, Starting, Stopping, Ended
  <2>4. CommandTidy(term[t])'
    BY <1>1, <1>2, <2>2, <2>3 DEF Tidy, CommandTidy, e
  <2> QED
    BY <1>1, <1>2, <2>2, <2>3, <2>4, MoveTidy DEF e
<1> QED
  BY <1>1, <1>3, <1>4

LEMMA MakeWorkSpaceTidy ==
  ASSUME Calm, TidyInv, NEW t \in Terminals, MakeWorkSpace(t)
  PROVE  Tidy(t)'
<1> DEFINE c == term[t]
           e == term'[t]
<1>1. /\ Tidy(t) /\ IInv /\ Knows(c, names, info) /\ c.pc = "workspace" /\ c \in CommandType
      /\ UNCHANGED <<names, info, procs, subnets, network>> /\ Live' = Live
      /\ \/ mounted' = mounted \cup {c.id} /\ Goto(t, "spawn")
         \/ Return(t) /\ UNCHANGED mounted
  BY TidyKnown DEF MakeWorkSpace, Live
<1>2. /\ c.cmd = "run" /\ c.phase = "self" /\ Fresh(c) /\ c.id \notin DOMAIN info
      /\ ~Recording(c) /\ ~Mounting(c) /\ ~Begun(c) /\ Taken(c) = {} /\ Gone(c) = {}
  BY <1>1 DEF Knows, Place, Recording, Mounting, Begun, Fresh, Taken, Gone, Starting
<1>3. CASE Return(t) /\ UNCHANGED mounted
  BY <1>1, <1>2, <1>3, ReturnTidy
<1>4. CASE mounted' = mounted \cup {c.id} /\ Goto(t, "spawn")
  <2>1. e = [c EXCEPT !.pc = "spawn"]
    BY <1>1, <1>4, TidyKnown, GotoIsBecome
  <2>2. /\ e.cmd = c.cmd /\ e.pc = "spawn" /\ e.phase = c.phase
        /\ e.id = c.id /\ e.own = c.own /\ e.info = c.info
    BY <1>1, <2>1, Fields
  <2> HIDE DEF e
  <2>3. /\ ~Recording(e) /\ Mounting(e) /\ ~Begun(e) /\ Taken(e) = {} /\ Gone(e) = {}
        /\ ~Stopping(e) /\ ~Ended(e) /\ ~Starting(e)
    BY <1>2, <2>2 DEF Recording, Mounting, Begun, Fresh, Taken, Gone, Starting, Stopping, Ended
  <2>4. CommandTidy(term[t])'
    BY <1>1, <1>2, <2>2, <2>3 DEF Tidy, CommandTidy, e
  <2>5. NamesTidy(term[t])'
    BY <1>1, <1>2, <2>2, <2>3, NamesStill DEF Tidy, e
  <2>6. MountsTidy(term[t])'
    BY <1>1, <1>2, <1>4, <2>2, <2>3 DEF Tidy, MountsTidy, e
  <2>7. ProcsTidy(term[t])'
    BY <1>1, <1>2, ProcsStill DEF Tidy
  <2>8. InfosTidy(term[t])'
    BY <1>1, <2>2, InfosStill DEF Tidy, e
  <2>9. LeasesTidy(term[t])'
    BY <1>1, <1>2, <2>3 DEF Tidy, LeasesTidy, Holders, e
  <2>10. NetworkTidy'
    BY <1>1 DEF Tidy, NetworkTidy
  <2> QED
    BY <2>4, <2>5, <2>6, <2>7, <2>8, <2>9, <2>10 DEF Tidy
<1> QED
  BY <1>1, <1>3, <1>4

\* start goes on with a detached container, or leaves one that holds nothing.
LEMMA HealthTidy ==
  ASSUME Calm, TidyInv, NEW t \in Terminals, Health(t)
  PROVE  Tidy(t)'
<1> DEFINE c == term[t]
           e == term'[t]
<1>1. /\ Tidy(t) /\ IInv /\ Knows(c, names, info) /\ c.pc = "health" /\ c \in CommandType
      /\ UNCHANGED <<names, info, mounted, procs, subnets, network>> /\ Live' = Live
  BY TidyKnown DEF Health, Live
<1>2. /\ c.cmd = "start" /\ c.phase = "self" /\ c.own = c.id /\ c.id \in DOMAIN info
      /\ c.info = info[c.id]
      /\ ~Recording(c) /\ ~Mounting(c) /\ ~Begun(c) /\ Taken(c) = {} /\ Gone(c) = {c.id}
      /\ Ended(c)
  BY <1>1 DEF Knows, Place, Current, Recording, Mounting, Begun, Fresh, Taken, Gone, Starting, Ended
<1>3. CASE Goto(t, "spawn") /\ ~c.info.tty
  <2>1. e = [c EXCEPT !.pc = "spawn"]
    BY <1>1, <1>3, TidyKnown, GotoIsBecome
  <2>2. /\ e.cmd = c.cmd /\ e.pc = "spawn" /\ e.phase = c.phase
        /\ e.id = c.id /\ e.own = c.own /\ e.info = c.info
    BY <1>1, <2>1, Fields
  <2> HIDE DEF e
  <2>3. /\ ~Recording(e) /\ ~Mounting(e) /\ ~Begun(e) /\ ~Fresh(e) /\ Taken(e) = {}
        /\ Gone(e) = {c.id} /\ ~Stopping(e)
    BY <1>2, <2>2 DEF Recording, Mounting, Begun, Fresh, Taken, Gone, Starting, Stopping
  <2>4. CommandTidy(term[t])'
    BY <1>1, <1>2, <1>3, <2>2, <2>3 DEF Tidy, CommandTidy, e
  <2> QED
    BY <1>1, <1>2, <2>2, <2>3, <2>4, MoveTidy DEF e
<1>4. CASE /\ ~(c.id \in mounted /\ c.id \in DOMAIN info /\ c.info.kind # "nil") \/ c.info.tty
           /\ Return(t)
  <2>1. c.id \in mounted
    BY <1>1, <1>2 DEF Tidy, MountsTidy
  <2>2. c.info.kind = "nil" \/ c.info.tty
    BY <1>2, <1>4, <2>1
  <2>3. c.info.ip = NilIP
    BY <1>1, <1>2, <2>2 DEF Tidy, InfosTidy, Sane
  <2>4. c.id \notin Holders
    BY <1>2, <2>3 DEF Holders
  <2> QED
    BY <1>1, <1>2, <1>4, <2>4, ReturnTidy
<1> QED
  BY <1>3, <1>4 DEF Health, Calm, Serial

\* A command whose container runs and is not recorded yet.
LEMMA AtBegun ==
  ASSUME Calm, TidyInv, NEW t \in Terminals, NEW c, c = term[t],
         c.pc \in {"spawn", "allocate", "attach"}
  PROVE  /\ c.phase = "self" /\ c.own = c.id /\ ~Recording(c) /\ Gone(c) \subseteq {c.id}
         /\ \/ c.cmd = "run" /\ Mounting(c) /\ Fresh(c) /\ c.id \notin DOMAIN info /\ Gone(c) = {}
            \/ /\ c.cmd = "start" /\ ~Mounting(c) /\ ~Fresh(c) /\ Gone(c) = {c.id}
               /\ Starting(c) /\ Ended(c) /\ ~c.info.tty /\ c.info.name = info[c.id].name
               /\ c.id \in DOMAIN info /\ info[c.id].pid \notin Live
         /\ c.info \in SafeInfo
<1>1. Knows(c, names, info) /\ Tidy(t) /\ SafeCommand(c)
  BY TidyKnown
<1>2. c.info \in SafeInfo
  BY <1>1 DEF SafeCommand, HoldsInfo, ControlPoints
<1> QED
  BY <1>1, <1>2
     DEF Knows, Place, Recording, Mounting, Fresh, Gone, Starting, Ended, Tidy, CommandTidy

\* Where a command is after Connect.
LEMMA AfterConnectTidy ==
  ASSUME Calm, TidyInv, NEW t \in Terminals, NEW c, c = term[t], NEW e, e = term'[t],
         c.pc \in {"spawn", "allocate", "attach"},
         e.cmd = c.cmd, e.phase = c.phase, e.id = c.id, e.own = c.own,
         e.pc \in {"allocate", "attach", AfterConnect(c)},
         Sane(e.info), e.info.tty = c.info.tty, e.info.name = c.info.name, UNCHANGED info,
         c.cmd = "start" => info[c.id].pid \notin Live'
  PROVE  /\ ~Recording(e) /\ e.pc # "delete" /\ Begun(e)
         /\ Mounting(e) <=> Mounting(c)
         /\ Gone(e) = Gone(c) /\ CommandTidy(term[t])'
<1>1. /\ c.phase = "self" /\ c.own = c.id /\ Gone(c) \subseteq {c.id}
      /\ \/ c.cmd = "run" /\ Mounting(c) /\ Fresh(c) /\ c.id \notin DOMAIN info /\ Gone(c) = {}
         \/ /\ c.cmd = "start" /\ ~Mounting(c) /\ ~Fresh(c) /\ Gone(c) = {c.id}
            /\ Starting(c) /\ Ended(c) /\ ~c.info.tty /\ c.info.name = info[c.id].name
            /\ c.id \in DOMAIN info /\ info[c.id].pid \notin Live
  BY AtBegun
<1>2. /\ ~Recording(e) /\ e.pc # "delete" /\ Begun(e) /\ (Mounting(e) <=> Mounting(c))
      /\ Gone(e) = Gone(c) /\ ~Stopping(e) /\ (Ended(e) => c.cmd = "start")
  BY <1>1 DEF AfterConnect, Recording, Mounting, Begun, Fresh, Gone, Starting, Stopping, Ended
<1>3. CommandTidy(term[t])'
  BY <1>1, <1>2 DEF CommandTidy, Starting
<1> QED
  BY <1>2, <1>3

\* A pid that is new is in no record.
LEMMA NewPid ==
  ASSUME Calm, NEW p \in FreshPids
  PROVE  p \notin Live /\ \A i \in DOMAIN info : info[i].pid # p
  BY DEF Calm, FreshPids

LEMMA SpawnTidy ==
  ASSUME Calm, TidyInv, NEW t \in Terminals, Spawn(t)
  PROVE  Tidy(t)'
<1> DEFINE c == term[t]
           e == term'[t]
           Up(p) == [c.info EXCEPT !.status = "Running", !.pid = p]
           Out(p) == [Up(p) EXCEPT !.kind = "host"]
<1>1. /\ Tidy(t) /\ IInv /\ Knows(c, names, info) /\ c.pc = "spawn" /\ c \in CommandType
      /\ UNCHANGED <<names, info, mounted, subnets, network>>
  BY TidyKnown DEF Spawn
<1>2. /\ c.phase = "self" /\ c.own = c.id /\ ~Recording(c) /\ c.info \in SafeInfo
      /\ \/ c.cmd = "run" /\ Fresh(c) /\ c.id \notin DOMAIN info
         \/ c.cmd = "start" /\ c.id \in DOMAIN info /\ info[c.id].pid \notin Live
  BY <1>1, AtBegun
<1>3. ~Begun(c) /\ Taken(c) = {}
  BY <1>1 DEF Begun, Taken
<1>4. Sane(c.info) /\ (c.cmd = "run" => c.info.ip = NilIP)
  <2>1. c.cmd = "run" => c.info.ip = NilIP
    BY <1>1, <1>2, <1>3 DEF Tidy, CommandTidy, Fresh
  <2>2. c.cmd = "start" => c.info = info[c.id]
    BY <1>1 DEF Knows, Current
  <2> QED
    BY <1>1, <1>2, <2>1, <2>2 DEF Tidy, InfosTidy, Sane
<1>5. PICK p \in FreshPids :
        /\ procs' = With(procs, p, [owner |-> c.id, ip |-> NilIP])
        /\ \/ e = [c EXCEPT !.info = Up(p), !.pc = "allocate"]
           \/ /\ c.cmd = "run" \/ c.info.kind # "bridge"
              /\ e = [c EXCEPT !.info = Out(p), !.pc = AfterConnect(c)]
  BY TidyKnown DEF Spawn
<1>6. /\ Up(p).pid = p /\ Up(p).ip = c.info.ip /\ Up(p).tty = c.info.tty
      /\ Up(p).kind = c.info.kind /\ Up(p).name = c.info.name
      /\ Out(p).pid = p /\ Out(p).ip = c.info.ip /\ Out(p).tty = c.info.tty
      /\ Out(p).name = c.info.name
  BY <1>2 DEF SafeInfo, InfoType
<1> HIDE DEF Up, Out
<1>7. /\ e.cmd = c.cmd /\ e.phase = c.phase /\ e.id = c.id /\ e.own = c.own
      /\ e.info.pid = p /\ e.info.ip = c.info.ip /\ e.info.tty = c.info.tty
      /\ Sane(e.info) /\ e.info.name = c.info.name
      /\ e.pc = "allocate" \/ (e.pc = AfterConnect(c) /\ e.info.ip = NilIP)
  <2>1. PICK r, pc :
          /\ e = [c EXCEPT !.info = r, !.pc = pc]
          /\ \/ r = Up(p) /\ pc = "allocate"
             \/ (c.cmd = "run" \/ c.info.kind # "bridge") /\ r = Out(p) /\ pc = AfterConnect(c)
    BY <1>5
  <2>2. /\ e.cmd = c.cmd /\ e.pc = pc /\ e.phase = c.phase /\ e.id = c.id /\ e.own = c.own
        /\ e.info = r
    BY <1>1, <2>1, Fields
  <2>3. c.cmd = "run" \/ c.info.kind # "bridge" => c.info.ip = NilIP
    BY <1>4 DEF Sane
  <2>4. Sane(r) /\ r.pid = p /\ r.ip = c.info.ip /\ r.tty = c.info.tty /\ r.name = c.info.name
    BY <1>4, <1>6, <2>1, <2>3 DEF Sane
  <2> HIDE DEF e
  <2> QED
    BY <2>1, <2>2, <2>3, <2>4
<1> HIDE DEF e
<1>8. /\ p \notin Live /\ \A i \in DOMAIN info : info[i].pid # p
      /\ Live' = Live \cup {p} /\ procs'[p].owner = c.id
      /\ \A q \in Live : procs'[q] = procs[q]
  BY <1>5, NewPid DEF Live, With
<1>9. /\ ~Recording(e) /\ e.pc # "delete" /\ Begun(e) /\ (Mounting(e) <=> Mounting(c))
      /\ Gone(e) = Gone(c) /\ CommandTidy(term[t])'
  BY <1>1, <1>2, <1>7, <1>8, AfterConnectTidy DEF e
<1>10. Taken(e) = {}
  BY <1>7 DEF Taken
<1>11. NamesTidy(term[t])'
  BY <1>1, <1>2, <1>9, NamesStill DEF Tidy, e
<1>12. MountsTidy(term[t])'
  BY <1>1, <1>7, <1>9 DEF Tidy, MountsTidy, e
<1>13. ProcsTidy(term[t])'
  BY <1>1, <1>3, <1>7, <1>8, <1>9 DEF Tidy, ProcsTidy, e
<1>14. InfosTidy(term[t])'
  BY <1>1, <1>7, InfosStill DEF Tidy, e
<1>15. LeasesTidy(term[t])'
  BY <1>1, <1>3, <1>9, <1>10 DEF Tidy, LeasesTidy, Holders, e
<1>16. NetworkTidy'
  BY <1>1 DEF Tidy, NetworkTidy
<1> QED
  BY <1>9, <1>11, <1>12, <1>13, <1>14, <1>15, <1>16 DEF Tidy

\* The address that Allocate gives out is nobody's.
LEMMA AllocateAddressTidy ==
  ASSUME Calm, TidyInv, NEW t \in Terminals, AllocateAddress(t)
  PROVE  Tidy(t)'
<1> DEFINE c == term[t]
           e == term'[t]
           Given(a) == [c EXCEPT !.info.kind = "bridge", !.info.ip = a, !.pc = "attach"]
<1>1. /\ Tidy(t) /\ IInv /\ Knows(c, names, info) /\ c.pc = "allocate" /\ c \in CommandType
      /\ UNCHANGED <<names, info, mounted, procs, network>> /\ Live' = Live
      /\ Net \in DOMAIN subnets
  BY TidyKnown DEF AllocateAddress, Live
<1>2. /\ c.phase = "self" /\ c.own = c.id /\ ~Recording(c) /\ c.info \in SafeInfo
      /\ \/ c.cmd = "run" /\ Fresh(c) /\ c.id \notin DOMAIN info
         \/ c.cmd = "start" /\ c.id \in DOMAIN info /\ info[c.id].pid \notin Live
  BY <1>1, AtBegun
<1>3. Begun(c) /\ Taken(c) = {}
  BY <1>1, <1>2 DEF Begun, Taken
<1>4. PICK a :
        /\ e = Given(a)
        /\ \/ a = NilIP /\ UNCHANGED subnets
           \/ /\ FreeBits(subnets, Net) # {} /\ a = AddrOf(Net, FirstFree(subnets, Net))
              /\ subnets' = WithBit(subnets, Net, FirstFree(subnets, Net))
  BY TidyKnown DEF AllocateAddress
<1>5. /\ e.cmd = c.cmd /\ e.phase = c.phase /\ e.id = c.id /\ e.own = c.own /\ e.pc = "attach"
      /\ e.info.pid = c.info.pid /\ e.info.ip = a /\ e.info.tty = c.info.tty
      /\ e.info.kind = "bridge" /\ e.info.name = c.info.name
  <2> DEFINE r == [c.info EXCEPT !.kind = "bridge", !.ip = a]
  <2>1. /\ r.pid = c.info.pid /\ r.ip = a /\ r.tty = c.info.tty /\ r.kind = "bridge"
        /\ r.name = c.info.name
    BY <1>2 DEF SafeInfo, InfoType
  <2>2. e = [c EXCEPT !.info = r, !.pc = "attach"]
    BY <1>1, <1>4 DEF CommandType
  <2>3. /\ e.cmd = c.cmd /\ e.phase = c.phase /\ e.id = c.id /\ e.own = c.own
        /\ e.pc = "attach" /\ e.info = r
    BY <1>1, <2>2, Fields
  <2> HIDE DEF r, e
  <2> QED
    BY <2>1, <2>3
<1>6. /\ \/ a = NilIP /\ LeasedIn(subnets') = LeasedIn(subnets)
         \/ a \notin LeasedIn(subnets) /\ LeasedIn(subnets') = LeasedIn(subnets) \cup {a} /\ a # NilIP
      /\ Net \in DOMAIN subnets'
  <2>1. CASE a = NilIP /\ UNCHANGED subnets
    BY <1>1, <2>1
  <2>2. CASE /\ FreeBits(subnets, Net) # {} /\ a = AddrOf(Net, FirstFree(subnets, Net))
             /\ subnets' = WithBit(subnets, Net, FirstFree(subnets, Net))
    <3> DEFINE o == FirstFree(subnets, Net)
    <3>1. o \in FreeBits(subnets, Net)
      BY <2>2, NetFacts, FirstFreeIsFree
    <3>2. a \notin LeasedIn(subnets) /\ LeasedIn(subnets') = LeasedIn(subnets) \cup {a}
      BY <1>1, <2>2, <3>1, LeasedWithBit DEF IInv, SubnetsSafe
    <3>3. a # NilIP
      BY <2>2, <3>1, NetFacts, OffsetOfAddrOf DEF FreeBits
    <3>4. DOMAIN subnets' = DOMAIN subnets
      BY <2>2 DEF WithBit
    <3> QED
      BY <1>1, <3>2, <3>3, <3>4
  <2> QED
    BY <1>4, <2>1, <2>2
<1> HIDE DEF e
<1>7. /\ ~Recording(e) /\ e.pc # "delete" /\ Begun(e) /\ (Mounting(e) <=> Mounting(c))
      /\ Gone(e) = Gone(c) /\ CommandTidy(term[t])'
  BY <1>1, <1>2, <1>5, AfterConnectTidy DEF e, Sane
<1>8. Taken(e) = IF a = NilIP THEN {} ELSE {a}
  BY <1>5, <1>7 DEF Taken
<1>9. NamesTidy(term[t])'
  BY <1>1, <1>2, <1>7, NamesStill DEF Tidy, e
<1>10. MountsTidy(term[t])'
  BY <1>1, <1>5, <1>7 DEF Tidy, MountsTidy, e
<1>11. ProcsTidy(term[t])'
  BY <1>1, <1>3, <1>5, <1>7, ProcsStill DEF Tidy, e
<1>12. InfosTidy(term[t])'
  BY <1>1, <1>5, InfosStill DEF Tidy, e
<1>13. LeasesTidy(term[t])'
  <2> DEFINE K == Holders \ Gone(c)
  <2>1. Leases(subnets, info, K, {})
    BY <1>1, <1>3 DEF Tidy, LeasesTidy
  <2> HIDE DEF K
  <2>2. Leases(subnets', info, K, Taken(e))
    BY <1>6, <1>8, <2>1 DEF Leases
  <2> QED
    BY <1>1, <1>7, <2>2 DEF LeasesTidy, Holders, e, K
<1>14. NetworkTidy'
  BY <1>1, <1>6 DEF Tidy, NetworkTidy
<1> QED
  BY <1>7, <1>9, <1>10, <1>11, <1>12, <1>13, <1>14 DEF Tidy

\* The network is always there; setting up the link changes no file.
LEMMA AttachTidy ==
  ASSUME Calm, TidyInv, NEW t \in Terminals, AllocateFails(t) \/ Attach(t)
  PROVE  Tidy(t)'
<1> DEFINE c == term[t]
           e == term'[t]
<1>1. /\ Tidy(t) /\ IInv /\ c \in CommandType /\ ~AllocateFails(t)
  BY TidyKnown DEF AllocateFails, Tidy, NetworkTidy
<1>2. /\ c.pc = "attach" /\ e = [c EXCEPT !.pc = AfterConnect(c)]
      /\ UNCHANGED <<names, info, mounted, subnets, network>>
  BY <1>1, TidyKnown, GotoIsBecome DEF Attach
<1>3. /\ e.cmd = c.cmd /\ e.pc = AfterConnect(c) /\ e.phase = c.phase
      /\ e.id = c.id /\ e.own = c.own /\ e.info = c.info
  BY <1>1, <1>2, Fields
<1>4. Live' = Live /\ \A p \in Live : procs'[p].owner = procs[p].owner
  <2>1. \A p \in Live : procs[p] \in SafeProc
    BY <1>1 DEF IInv, ProcsSafe, IsFile, Live
  <2>2. \A p \in Live : [procs[p] EXCEPT !.ip = c.info.ip].owner = procs[p].owner
    BY <2>1 DEF SafeProc, ProcType
  <2>3. \/ UNCHANGED procs
        \/ /\ c.info.pid \in Live
           /\ procs' = [procs EXCEPT ![c.info.pid] = [procs[c.info.pid] EXCEPT !.ip = c.info.ip]]
    BY <1>1 DEF Attach
  <2> QED
    BY <2>2, <2>3 DEF Live
<1>5. /\ c.phase = "self" /\ ~Recording(c)
      /\ \/ c.cmd = "run" /\ c.id \notin DOMAIN info
         \/ c.cmd = "start" /\ info[c.id].pid \notin Live
  BY <1>2, AtBegun
<1>6. Begun(c) /\ Sane(c.info)
  BY <1>1, <1>2, <1>5 DEF Begun, Tidy, CommandTidy
<1> HIDE DEF e
<1>7. /\ ~Recording(e) /\ e.pc # "delete" /\ Begun(e) /\ (Mounting(e) <=> Mounting(c))
      /\ Gone(e) = Gone(c) /\ CommandTidy(term[t])'
  <2>1. /\ e.pc \in {"allocate", "attach", AfterConnect(c)} /\ Sane(e.info)
        /\ e.info.tty = c.info.tty /\ (c.cmd = "start" => info[c.id].pid \notin Live')
        /\ c.pc \in {"spawn", "allocate", "attach"} /\ UNCHANGED info
    BY <1>2, <1>3, <1>4, <1>5, <1>6
  <2> QED
    BY <1>3, <2>1, AfterConnectTidy DEF e
<1>8. Taken(e) = Taken(c)
  BY <1>2, <1>3, <1>6, <1>7 DEF Taken, AfterConnect
<1> QED
  BY <1>1, <1>2, <1>3, <1>4, <1>5, <1>6, <1>7, <1>8, MoveTidy DEF e

\* The record is written: the container is in every file now.
LEMMA RecordTidy ==
  ASSUME Calm, TidyInv, NEW t \in Terminals, Record(t)
  PROVE  Tidy(t)'
<1> DEFINE c == term[t]
           e == term'[t]
<1>1. /\ Tidy(t) /\ IInv /\ Knows(c, names, info) /\ c.pc = "record" /\ c \in CommandType
      /\ info' = With(info, c.id, c.info)
      /\ UNCHANGED <<names, mounted, procs, subnets, network>> /\ Live' = Live
  BY TidyKnown DEF Record, Live
<1>2. /\ c.phase = "self" /\ c.own = c.id /\ Begun(c) /\ Sane(c.info)
      /\ c.info.status = "Running"
      /\ \/ c.cmd = "run" /\ Fresh(c) /\ Recording(c) /\ Mounting(c) /\ Gone(c) = {}
            /\ c.id \notin DOMAIN info
         \/ /\ c.cmd = "start" /\ ~Recording(c) /\ ~Mounting(c) /\ Gone(c) = {c.id}
            /\ ~c.info.tty /\ c.info.name = info[c.id].name
            /\ c.id \in DOMAIN info /\ info[c.id].pid \notin Live
  <2>1. /\ c.phase = "self" /\ c.own = c.id /\ Begun(c) /\ c.cmd \in {"run", "start"}
        /\ c.info.status = "Running"
    BY <1>1 DEF Knows, Place, Begun
  <2>2. c.cmd = "run" => /\ Fresh(c) /\ Recording(c) /\ Mounting(c) /\ Gone(c) = {}
                         /\ c.id \notin DOMAIN info
    BY <1>1, <2>1 DEF Knows, Fresh, Recording, Mounting, Gone, Starting
  <2>3. c.cmd = "start" => /\ ~Recording(c) /\ ~Mounting(c) /\ Gone(c) = {c.id}
                           /\ Starting(c) /\ Ended(c)
    BY <1>1, <2>1 DEF Fresh, Recording, Mounting, Gone, Starting, Ended
  <2> QED
    BY <1>1, <2>1, <2>2, <2>3 DEF Tidy, CommandTidy
<1>3. /\ e.pc \in {"rest", "wait"} /\ e.phase = "self"
      /\ c.cmd = "run" /\ c.info.tty => e.cmd = "run" /\ e.id = c.id
  <2>1. CASE c.cmd = "run" /\ c.info.tty
    <3>1. e = [c EXCEPT !.pc = "wait"]
      BY <1>1, <2>1, TidyKnown, GotoIsBecome DEF Record
    <3> QED
      BY <1>1, <1>2, <3>1, Fields
  <2>2. CASE ~(c.cmd = "run" /\ c.info.tty)
    <3>1. e = Rest
      BY <2>2, TidyKnown DEF Record, Return
    <3> QED
      BY <2>2, <3>1 DEF Rest
  <2> QED
    BY <2>1, <2>2
<1> HIDE DEF e
<1>4. /\ ~Recording(e) /\ ~Mounting(e) /\ ~Begun(e) /\ ~Fresh(e) /\ ~Stopping(e) /\ ~Ended(e)
      /\ ~Starting(e) /\ Gone(e) = {} /\ Taken(e) = {} /\ e.pc # "delete"
  BY <1>3 DEF Recording, Mounting, Begun, Fresh, Stopping, Ended, Starting, Gone, Taken
<1>5. /\ DOMAIN info' = DOMAIN info \cup {c.id} /\ info'[c.id] = c.info
      /\ \A i \in DOMAIN info : i # c.id => info'[i] = info[i]
  BY <1>1 DEF With
<1>6. NamesTidy(term[t])'
  <2>1. CASE c.cmd = "run"
    <3>1. RecordedNames' = With(RecordedNames, c.id, c.info.name)
      BY <1>2, <1>5, <2>1 DEF RecordedNames, With
    <3>2. Book(names, DOMAIN info \cup {c.id}, With(RecordedNames, c.id, c.info.name))
      BY <1>1, <1>2, <2>1 DEF Tidy, NamesTidy
    <3>3. Book(names', DOMAIN info', RecordedNames')
      BY <1>1, <1>5, <3>1, <3>2
    <3> QED
      BY <1>4, <3>3 DEF NamesTidy, e
  <2>2. CASE c.cmd = "start"
    <3>1. DOMAIN info' = DOMAIN info /\ \A i \in DOMAIN info : info'[i].name = info[i].name
      BY <1>2, <1>5, <2>2
    <3> QED
      BY <1>1, <1>2, <1>4, <2>2, <3>1, NamesStill DEF Tidy, e
  <2> QED
    BY <1>2, <2>1, <2>2
<1>7. MountsTidy(term[t])'
  BY <1>1, <1>2, <1>4, <1>5 DEF Tidy, MountsTidy, e
<1>8. ProcsTidy(term[t])'
  BY <1>1, <1>2, <1>5 DEF Tidy, ProcsTidy
<1>9. InfosTidy(term[t])'
  <2>1. \A i \in DOMAIN info : i # c.id =>
          Sane(info'[i]) /\ (info'[i].tty => info'[i].ip = NilIP)
    BY <1>1, <1>5 DEF Tidy, InfosTidy
  <2>2. Sane(info'[c.id]) /\ (info'[c.id].tty => e.cmd = "run" /\ e.id = c.id)
    BY <1>2, <1>3, <1>5
  <2> QED
    BY <1>5, <2>1, <2>2 DEF InfosTidy, Sane, e
<1>10. CommandTidy(term[t])'
  BY <1>4 DEF CommandTidy, e
<1>11. LeasesTidy(term[t])'
  <2> DEFINE K == Holders \ {c.id}
             a == c.info.ip
  <2>1. Holders \ Gone(c) = K /\ c.id \notin K
    BY <1>2 DEF Holders
  <2>2. \A i \in K : i \in DOMAIN info /\ info'[i] = info[i]
    BY <1>5 DEF Holders
  <2>3. Holders' = IF a = NilIP THEN K ELSE K \cup {c.id}
    BY <1>2, <1>5 DEF Holders, Sane
  <2>4. Taken(c) = IF a = NilIP THEN {} ELSE {a}
    BY <1>1, <1>2 DEF Taken
  <2>5. Leases(subnets, info, K, Taken(c))
    BY <1>1, <2>1 DEF Tidy, LeasesTidy
  <2> HIDE DEF K
  <2>6. Leases(subnets, info', K, Taken(c))
    <3>1. {info'[i].ip : i \in K} = {info[i].ip : i \in K}
      BY <2>2
    <3> QED
      BY <2>2, <2>5, <3>1 DEF Leases
  <2>7. Leases(subnets, info', Holders', {})
    <3>1. CASE a = NilIP
      BY <2>3, <2>4, <2>6, <3>1
    <3>2. CASE a # NilIP
      <4>1. {info'[i].ip : i \in K \cup {c.id}} = {info'[i].ip : i \in K} \cup {a}
        BY <1>5
      <4>2. /\ LeasedIn(subnets) = {Gateway(Net)} \cup {info'[i].ip : i \in K} \cup {a}
            /\ \A i, j \in K : info'[i].ip = info'[j].ip => i = j
            /\ \A i \in K : info'[i].ip # a
        BY <2>4, <2>6, <3>2 DEF Leases
      <4>3. \A i, j \in K \cup {c.id} : info'[i].ip = info'[j].ip => i = j
        BY <1>5, <4>2
      <4>4. Leases(subnets, info', K \cup {c.id}, {})
        BY <4>1, <4>2, <4>3 DEF Leases
      <4> QED
        BY <2>3, <3>2, <4>4
    <3> QED
      BY <3>1, <3>2
  <2> QED
    BY <1>1, <1>4, <2>7 DEF LeasesTidy, e
<1>12. NetworkTidy'
  BY <1>1 DEF Tidy, NetworkTidy
<1> QED
  BY <1>6, <1>7, <1>8, <1>9, <1>10, <1>11, <1>12 DEF Tidy

\* A run on a terminal finds its container's process gone.
LEMMA WaitedTidy ==
  ASSUME Calm, TidyInv, NEW t \in Terminals, Waited(t)
  PROVE  Tidy(t)'
<1> DEFINE c == term[t]
           e == term'[t]
<1>1. /\ Tidy(t) /\ IInv /\ Knows(c, names, info) /\ c.pc = "wait" /\ c \in CommandType
      /\ UNCHANGED <<names, info, mounted, procs, subnets, network>> /\ Live' = Live
      /\ c.info.pid \notin Live /\ e = [c EXCEPT !.pc = "disconnect"]
  BY TidyKnown, GotoIsBecome DEF Waited, Live
<1>2. /\ c.cmd = "run" /\ c.phase = "self" /\ c.own = c.id /\ c.id \in DOMAIN info
      /\ c.info = info[c.id]
  BY <1>1 DEF Knows, Place, Current
<1>3. /\ e.cmd = c.cmd /\ e.pc = "disconnect" /\ e.phase = c.phase
      /\ e.id = c.id /\ e.own = c.own /\ e.info = c.info
  BY <1>1, Fields
<1> HIDE DEF e
<1>4. /\ ~Recording(c) /\ ~Mounting(c) /\ ~Begun(c) /\ Taken(c) = {} /\ Gone(c) = {}
      /\ ~Recording(e) /\ ~Mounting(e) /\ ~Begun(e) /\ Taken(e) = {} /\ Gone(e) = {}
      /\ ~Fresh(e) /\ ~Stopping(e) /\ ~Starting(e)
  BY <1>1, <1>2, <1>3
     DEF Recording, Mounting, Begun, Fresh, Taken, Gone, Starting, Stopping
<1>5. CommandTidy(term[t])'
  BY <1>1, <1>2, <1>3, <1>4 DEF CommandTidy, e
<1> QED
  BY <1>1, <1>3, <1>4, <1>5, MoveTidy DEF e

LEMMA ReadNamesTidy ==
  ASSUME Calm, TidyInv, NEW t \in Terminals, ReadNames(t)
  PROVE  Tidy(t)'
<1> DEFINE c == term[t]
           e == term'[t]
<1>1. /\ Tidy(t) /\ IInv /\ Knows(c, names, info) /\ c.pc = "nameread" /\ c \in CommandType
      /\ UNCHANGED <<names, info, mounted, procs, subnets, network>> /\ Live' = Live
      /\ e = [c EXCEPT !.copy = names, !.pc = "namewrite"]
  BY TidyKnown DEF ReadNames, Live, IInv, TermsSafe
<1>2. /\ e.cmd = c.cmd /\ e.pc = "namewrite" /\ e.phase = c.phase
      /\ e.id = c.id /\ e.own = c.own /\ e.info = c.info
  BY <1>1, Fields
<1> HIDE DEF e
<1>3. /\ ~Recording(c) /\ ~Recording(e) /\ (Mounting(c) <=> Mounting(e))
      /\ (Begun(c) <=> Begun(e)) /\ Taken(e) = Taken(c) /\ Gone(e) = Gone(c)
      /\ (Fresh(e) <=> Fresh(c)) /\ ~Stopping(e) /\ (Ended(e) => Ended(c)) /\ ~Starting(e)
  BY <1>1, <1>2
     DEF Recording, Mounting, Begun, Fresh, Taken, Gone, Starting, Stopping, Ended
<1>4. CommandTidy(term[t])'
  BY <1>1, <1>2, <1>3 DEF Tidy, CommandTidy, e
<1> QED
  BY <1>1, <1>2, <1>3, <1>4, MoveTidy DEF e

\* run writes its container's id and name.
LEMMA RecordNameTidy ==
  ASSUME Calm, TidyInv, NEW t \in Terminals, RecordName(t)
  PROVE  Tidy(t)'
<1> DEFINE c == term[t]
           e == term'[t]
<1>1. /\ Tidy(t) /\ IInv /\ Knows(c, names, info) /\ c.pc = "namewrite" /\ c \in CommandType
      /\ c.phase = "self" /\ names' = With(With(c.copy, c.info.name, c.id), c.id, c.id)
      /\ UNCHANGED <<info, mounted, procs, subnets, network>> /\ Live' = Live
      /\ e = [c EXCEPT !.copy = NoFile, !.pc = "record"]
  BY TidyKnown DEF RecordName, Live
<1>2. /\ c.cmd = "run" /\ Fresh(c) /\ c.own = c.id /\ c.copy = names
      /\ c.id \notin DOMAIN names /\ c.info.name \notin DOMAIN names /\ c.id \notin DOMAIN info
  BY <1>1 DEF Knows, Place, Fresh
<1>3. /\ e.cmd = c.cmd /\ e.pc = "record" /\ e.phase = c.phase
      /\ e.id = c.id /\ e.own = c.own /\ e.info = c.info
  BY <1>1, Fields
<1> HIDE DEF e
<1>4. /\ ~Recording(c) /\ Recording(e) /\ Mounting(c) /\ Mounting(e)
      /\ Begun(c) /\ Begun(e) /\ Taken(e) = Taken(c) /\ Gone(e) = {} /\ Gone(c) = {}
      /\ ~Stopping(e) /\ ~Ended(e) /\ ~Starting(e)
  BY <1>1, <1>2, <1>3
     DEF Recording, Mounting, Begun, Fresh, Taken, Gone, Starting, Stopping, Ended
<1>5. NamesTidy(term[t])'
  <2>1. Book(names, DOMAIN info, RecordedNames) /\ DOMAIN RecordedNames = DOMAIN info
    BY <1>1, <1>4 DEF Tidy, NamesTidy, RecordedNames
  <2>2. Book(names', DOMAIN info \cup {c.id}, With(RecordedNames, c.id, c.info.name))
    BY <1>1, <1>2, <2>1, BookAdd
  <2>3. RecordedNames' = RecordedNames
    BY <1>1 DEF RecordedNames
  <2>4. Book(names', DOMAIN info' \cup {e.id}, With(RecordedNames', e.id, e.info.name))
    BY <1>1, <1>3, <2>2, <2>3
  <2> QED
    BY <1>3, <1>4, <2>4 DEF NamesTidy, e
<1>6. MountsTidy(term[t])'
  BY <1>1, <1>3, <1>4 DEF Tidy, MountsTidy, e
<1>7. ProcsTidy(term[t])'
  BY <1>1, <1>3, <1>4, ProcsStill DEF Tidy, e
<1>8. InfosTidy(term[t])'
  BY <1>1, <1>3, InfosStill DEF Tidy, e
<1>9. CommandTidy(term[t])'
  BY <1>1, <1>3, <1>4 DEF Tidy, CommandTidy, e
<1>10. LeasesTidy(term[t])'
  BY <1>1, <1>4 DEF Tidy, LeasesTidy, Holders, e
<1>11. NetworkTidy'
  BY <1>1 DEF Tidy, NetworkTidy
<1> QED
  BY <1>5, <1>6, <1>7, <1>8, <1>9, <1>10, <1>11 DEF Tidy

\* A removal takes its container's id and name out.
LEMMA RemoveNameTidy ==
  ASSUME Calm, TidyInv, NEW t \in Terminals, RemoveName(t)
  PROVE  Tidy(t)'
<1> DEFINE c == term[t]
           e == term'[t]
<1>1. /\ Tidy(t) /\ IInv /\ Knows(c, names, info) /\ c.pc = "namewrite" /\ c \in CommandType
      /\ c.phase = "unname" /\ names' = Without(c.copy, {c.info.name, c.id})
      /\ UNCHANGED <<info, mounted, procs, subnets, network>> /\ Live' = Live
      /\ e = [c EXCEPT !.copy = NoFile, !.pc = "delete"]
  BY TidyKnown DEF RemoveName, Live
<1>2. /\ c.own = c.id /\ c.copy = names /\ c.id \in DOMAIN info /\ c.info = info[c.id]
  BY <1>1 DEF Knows, Current
<1>3. /\ e.cmd = c.cmd /\ e.pc = "delete" /\ e.phase = c.phase
      /\ e.id = c.id /\ e.own = c.own /\ e.info = c.info
  BY <1>1, Fields
<1> HIDE DEF e
<1>4. /\ ~Recording(c) /\ ~Recording(e) /\ ~Mounting(c) /\ ~Mounting(e)
      /\ ~Begun(c) /\ ~Begun(e) /\ Taken(e) = {} /\ Taken(c) = {} /\ Gone(e) = Gone(c)
      /\ ~Stopping(e) /\ (Ended(e) => Ended(c)) /\ ~Starting(e) /\ ~Fresh(e)
  BY <1>1, <1>2, <1>3
     DEF Recording, Mounting, Begun, Fresh, Taken, Gone, Starting, Stopping, Ended
<1>5. NamesTidy(term[t])'
  <2>1. Book(names, DOMAIN info, RecordedNames) /\ DOMAIN RecordedNames = DOMAIN info
    BY <1>1, <1>4 DEF Tidy, NamesTidy, RecordedNames
  <2>2. RecordedNames[c.id] = c.info.name
    BY <1>2 DEF RecordedNames
  <2>3. Book(names', DOMAIN info \ {c.id}, RecordedNames)
    BY <1>1, <1>2, <2>1, <2>2, BookRemove
  <2>4. RecordedNames' = RecordedNames
    BY <1>1 DEF RecordedNames
  <2>5. Book(names', DOMAIN info' \ {e.id}, RecordedNames')
    BY <1>1, <1>3, <2>3, <2>4
  <2> QED
    BY <1>3, <1>4, <2>5 DEF NamesTidy, e
<1>6. MountsTidy(term[t])'
  BY <1>1, <1>4 DEF Tidy, MountsTidy, e
<1>7. ProcsTidy(term[t])'
  BY <1>1, <1>4, ProcsStill DEF Tidy, e
<1>8. InfosTidy(term[t])'
  BY <1>1, <1>3, InfosStill DEF Tidy, e
<1>9. CommandTidy(term[t])'
  BY <1>1, <1>3, <1>4 DEF Tidy, CommandTidy, e
<1>10. LeasesTidy(term[t])'
  BY <1>1, <1>4 DEF Tidy, LeasesTidy, Holders, e
<1>11. NetworkTidy'
  BY <1>1 DEF Tidy, NetworkTidy
<1> QED
  BY <1>5, <1>6, <1>7, <1>8, <1>9, <1>10, <1>11 DEF Tidy

\* The container's mount and record go last.
LEMMA DeleteWorkSpaceTidy ==
  ASSUME Calm, TidyInv, NEW t \in Terminals, DeleteWorkSpace(t)
  PROVE  Tidy(t)'
<1> DEFINE c == term[t]
           e == term'[t]
<1>1. /\ Tidy(t) /\ IInv /\ Knows(c, names, info) /\ c.pc = "delete" /\ c \in CommandType
      /\ mounted' = mounted \ {c.id} /\ info' = Without(info, {c.id})
      /\ UNCHANGED <<names, procs, subnets, network>> /\ Live' = Live
      /\ e = Rest
  BY TidyKnown DEF DeleteWorkSpace, Return, Live
<1>2. /\ c.phase = "unname" /\ c.own = c.id /\ c.id \in DOMAIN info
      /\ info[c.id].pid \notin Live
  <2>1. c.phase = "unname" /\ c.own = c.id
    BY <1>1 DEF Knows, Place
  <2> QED
    BY <1>1, <2>1 DEF Tidy, CommandTidy, Ended
<1>3. /\ ~Recording(c) /\ ~Mounting(c) /\ ~Begun(c) /\ Taken(c) = {} /\ Gone(c) = {c.id}
  BY <1>1, <1>2 DEF Recording, Mounting, Begun, Fresh, Taken, Gone
<1>4. e.pc = "rest" /\ e.phase = "self" /\ e.cmd = "none"
  BY <1>1 DEF Rest
<1> HIDE DEF e
<1>5. /\ ~Recording(e) /\ ~Mounting(e) /\ ~Begun(e) /\ ~Fresh(e) /\ ~Stopping(e) /\ ~Ended(e)
      /\ ~Starting(e) /\ Gone(e) = {} /\ Taken(e) = {}
  BY <1>4 DEF Recording, Mounting, Begun, Fresh, Stopping, Ended, Starting, Gone, Taken
<1>6. /\ DOMAIN info' = DOMAIN info \ {c.id}
      /\ \A i \in DOMAIN info' : info'[i] = info[i]
  BY <1>1 DEF Without
<1>7. NamesTidy(term[t])'
  <2>1. Book(names, DOMAIN info \ {c.id}, RecordedNames)
    BY <1>1, <1>3 DEF Tidy, NamesTidy
  <2>2. \A i \in DOMAIN info' : RecordedNames'[i] = RecordedNames[i]
    BY <1>6 DEF RecordedNames
  <2>3. {RecordedNames'[i] : i \in DOMAIN info'} = {RecordedNames[i] : i \in DOMAIN info'}
    BY <2>2
  <2>4. Book(names', DOMAIN info', RecordedNames')
    BY <1>1, <1>6, <2>1, <2>2, <2>3 DEF Book
  <2> QED
    BY <1>4, <1>5, <2>4 DEF NamesTidy, e
<1>8. MountsTidy(term[t])'
  BY <1>1, <1>3, <1>5, <1>6 DEF Tidy, MountsTidy, e
<1>9. ProcsTidy(term[t])'
  BY <1>1, <1>2, <1>3, <1>6 DEF Tidy, ProcsTidy
<1>10. InfosTidy(term[t])'
  BY <1>1, <1>6 DEF Tidy, InfosTidy, Sane
<1>11. CommandTidy(term[t])'
  BY <1>5 DEF CommandTidy, e
<1>12. LeasesTidy(term[t])'
  <2>1. Holders' = Holders \ {c.id}
    BY <1>6 DEF Holders
  <2> DEFINE K == Holders \ {c.id}
  <2>2. K \subseteq DOMAIN info' /\ Leases(subnets, info, K, {})
    BY <1>1, <1>3, <1>6 DEF Holders, Tidy, LeasesTidy
  <2> HIDE DEF K
  <2>3. {info'[i].ip : i \in K} = {info[i].ip : i \in K}
    BY <1>6, <2>2
  <2>4. Leases(subnets, info', K, {})
    BY <1>6, <2>2, <2>3 DEF Leases
  <2> QED
    BY <1>1, <1>5, <2>1, <2>4 DEF LeasesTidy, e, K
<1>13. NetworkTidy'
  BY <1>1 DEF Tidy, NetworkTidy
<1> QED
  BY <1>7, <1>8, <1>9, <1>10, <1>11, <1>12, <1>13 DEF Tidy

\* A container's process exits while no command acts.
LEMMA ExitTidy ==
  ASSUME Calm, TidyInv, NEW t \in Terminals, NEW p \in Live, Exit(p)
  PROVE  Tidy(t)'
<1> DEFINE c == term[t]
<1>1. /\ Tidy(t) /\ IInv /\ Knows(c, names, info) /\ c.pc \in {"rest", "wait"}
      /\ procs' = Without(procs, {p})
      /\ UNCHANGED <<names, info, mounted, subnets, network, term>>
  BY TidyKnown DEF Exit, Calm, AllQuiet, Quiet
<1>2. c.phase = "self"
  BY <1>1 DEF Knows, Place
<1>3. Live' \subseteq Live /\ \A q \in Live' : procs'[q].owner = procs[q].owner
  BY <1>1 DEF Live, Without
<1>4. ~Fresh(c) /\ ~Begun(c) /\ ~Stopping(c) /\ ~Ended(c) /\ ~Starting(c)
  BY <1>1, <1>2 DEF Fresh, Begun, Stopping, Ended, Starting
<1>5. ProcsTidy(term[t])'
  BY <1>1, <1>3, <1>4, ProcsStill DEF Tidy
<1>6. CommandTidy(term[t])'
  BY <1>1, <1>4 DEF CommandTidy
<1>7. NamesTidy(term[t])' /\ MountsTidy(term[t])' /\ InfosTidy(term[t])' /\ NetworkTidy'
  BY <1>1 DEF Tidy, NamesTidy, RecordedNames, MountsTidy, InfosTidy, NetworkTidy
<1>8. LeasesTidy(term[t])'
  BY <1>1 DEF Tidy, LeasesTidy, Holders
<1> QED
  BY <1>5, <1>6, <1>7, <1>8 DEF Tidy

LEMMA TidyStep ==
  ASSUME Calm, TidyInv, [Next]_vars
  PROVE  TidyInv'
<1>1. SoloInv'
  BY SoloStep DEF Calm, TidyInv
<1>2. ASSUME NEW t \in Terminals, Step(t) PROVE Tidy(t)'
  <2>1. CASE Lookup(t) \/ Read(t) \/ Check(t)
    BY <2>1, LookupTidy, ReadTidy, CheckTidy
  <2>2. CASE DisconnectHost(t) \/ DisconnectBridge(t) \/ DisconnectNil(t)
    BY <2>2, DisconnectHostTidy, DisconnectBridgeTidy, DisconnectNilTidy
  <2>3. CASE Kill(t) \/ RecordPaused(t)
    BY <2>3, KillTidy, RecordPausedTidy
  <2>4. CASE CheckName(t) \/ MakeWorkSpace(t) \/ Health(t) \/ Spawn(t)
    BY <2>4, CheckNameTidy, MakeWorkSpaceTidy, HealthTidy, SpawnTidy
  <2>5. CASE AllocateFails(t) \/ AllocateAddress(t) \/ Attach(t) \/ Record(t) \/ Waited(t)
    BY <2>5, AllocateAddressTidy, AttachTidy, RecordTidy, WaitedTidy
  <2>6. CASE ReadNames(t) \/ RecordName(t) \/ RemoveName(t) \/ DeleteWorkSpace(t)
    BY <2>6, ReadNamesTidy, RecordNameTidy, RemoveNameTidy, DeleteWorkSpaceTidy
  <2> QED
    BY <1>2, <2>1, <2>2, <2>3, <2>4, <2>5, <2>6 DEF Step
<1>3. ASSUME NEW u \in Terminals, Type(u) \/ Step(u) PROVE \A t \in Terminals : Tidy(t)'
  BY <1>2, <1>3, TypeTidy DEF Calm, Serial
<1>4. ASSUME NEW p \in Live, Exit(p) PROVE \A t \in Terminals : Tidy(t)'
  BY <1>4, ExitTidy
<1>5. \A u \in Terminals : ~Crash(u)
  BY DEF Calm, Crash
<1>6. ~Reboot /\ ~DeleteNetwork /\ ~CreateNetwork
  BY DEF Calm, Reboot, DeleteNetwork, CreateNetwork
<1>7. ASSUME UNCHANGED vars, NEW t \in Terminals PROVE Tidy(t)'
  <2>1. Tidy(t) /\ UNCHANGED <<names, info, mounted, procs, subnets, network, term>>
    BY <1>7 DEF TidyInv, vars
  <2>2. NamesTidy(term[t])' /\ MountsTidy(term[t])' /\ InfosTidy(term[t])' /\ NetworkTidy'
    BY <2>1 DEF Tidy, NamesTidy, RecordedNames, MountsTidy, InfosTidy, NetworkTidy
  <2>3. ProcsTidy(term[t])' /\ CommandTidy(term[t])' /\ LeasesTidy(term[t])'
    BY <2>1 DEF Tidy, ProcsTidy, CommandTidy, Live, LeasesTidy, Holders
  <2> QED
    BY <2>2, <2>3 DEF Tidy
<1> QED
  BY <1>1, <1>3, <1>4, <1>5, <1>6, <1>7 DEF Next, Environment, TidyInv

LEMMA TidyInit == Init => TidyInv
<1> SUFFICES ASSUME Init PROVE TidyInv
  OBVIOUS
<1>1. SoloInv
  BY SoloInit
<1>2. SUFFICES ASSUME NEW t \in Terminals PROVE Tidy(t)
  BY <1>1 DEF TidyInv
<1> DEFINE c == term[t]
<1>3. c.pc = "rest" /\ c.phase = "self" /\ c.cmd = "none"
  BY DEF Init, Rest
<1>4. /\ ~Recording(c) /\ ~Mounting(c) /\ ~Begun(c) /\ ~Fresh(c) /\ ~Stopping(c) /\ ~Ended(c)
      /\ ~Starting(c) /\ Gone(c) = {} /\ Taken(c) = {}
  BY <1>3 DEF Recording, Mounting, Begun, Fresh, Stopping, Ended, Starting, Gone, Taken
<1>5. DOMAIN names = {} /\ DOMAIN info = {} /\ Live = {} /\ mounted = {}
  BY DEF Init, NoFile, Live
<1>6. NamesTidy(c)
  BY <1>3, <1>4, <1>5 DEF NamesTidy, Book
<1>7. MountsTidy(c) /\ ProcsTidy(c) /\ InfosTidy(c)
  BY <1>4, <1>5 DEF MountsTidy, ProcsTidy, InfosTidy
<1>8. CommandTidy(c)
  BY <1>4 DEF CommandTidy
<1>9. DOMAIN subnets = {Net} /\ subnets[Net] = {GatewayBit}
  BY DEF Init, WithBit, WithSubnet, NoSubnets
<1>10. LeasedIn(subnets) = {Gateway(Net)}
  BY <1>9 DEF LeasedIn, Gateway
<1>11. Holders \ Gone(c) = {}
  BY <1>5 DEF Holders
<1>12. LeasesTidy(c)
  BY <1>4, <1>10, <1>11 DEF LeasesTidy, Leases
<1>13. NetworkTidy
  BY <1>9 DEF Init, NetworkTidy
<1> QED
  BY <1>6, <1>7, <1>8, <1>12, <1>13 DEF Tidy

LEMMA TidyInvariant == ASSUME Calm PROVE Spec => []TidyInv
<1>1. TidyInv /\ [Next]_vars => TidyInv'
  BY TidyStep
<1> QED
  BY <1>1, TidyInit, PTL DEF Spec

\* Between commands there is nothing under way.
LEMMA QuietTidy ==
  ASSUME Calm, TidyInv, AllQuiet
  PROVE  /\ Book(names, DOMAIN info, RecordedNames)
         /\ mounted = DOMAIN info
         /\ \A p \in Live : procs[p].owner \in DOMAIN info /\ info[procs[p].owner].pid = p
         /\ Leases(subnets, info, Holders, {})
<1>1. PICK t \in Terminals : TRUE
  BY DEF Calm
<1> DEFINE c == term[t]
<1>2. Tidy(t) /\ c.pc \in {"rest", "wait"} /\ c.phase = "self"
  BY TidyKnown DEF AllQuiet, Quiet, Knows, Place
<1>3. /\ ~Recording(c) /\ ~Mounting(c) /\ ~Begun(c) /\ Gone(c) = {} /\ Taken(c) = {}
  BY <1>2 DEF Recording, Mounting, Begun, Fresh, Starting, Gone, Taken
<1> QED
  BY <1>2, <1>3 DEF Tidy, NamesTidy, MountsTidy, ProcsTidy, LeasesTidy

\* Between commands the addresses in use are the gateway's and those of the
\* containers that were not stopped, each of one container: for commands one
\* after the other, however mounts and veth pairs fail, also when a start or a
\* run has panicked over an address it did not get.
THEOREM LeasesAccounted == ASSUME Calm PROVE Spec => []LeaseAccounting
<1>1. ASSUME TidyInv PROVE LeaseAccounting
  BY <1>1, QuietTidy DEF LeaseAccounting, Leases
<1>2. TidyInv => LeaseAccounting
  BY <1>1
<1> QED
  BY <1>2, TidyInvariant, PTL

\* Between commands every container can be named, seen, stopped and removed:
\* the name file, the records, the mounts and the processes are about the same
\* containers, for commands one after the other.
THEOREM AllReachable == ASSUME Calm PROVE Spec => []Reachable
<1>1. ASSUME TidyInv, AllQuiet
      PROVE  /\ DOMAIN names = DOMAIN info \cup {info[i].name : i \in DOMAIN info}
             /\ \A i \in DOMAIN info : names[i] = i /\ names[info[i].name] = i
             /\ mounted = DOMAIN info
             /\ \A p \in Live : procs[p].owner \in DOMAIN info /\ info[procs[p].owner].pid = p
  <2>1. \A i \in DOMAIN info : RecordedNames[i] = info[i].name
    BY DEF RecordedNames
  <2>2. {RecordedNames[i] : i \in DOMAIN info} = {info[i].name : i \in DOMAIN info}
    BY <2>1
  <2> QED
    BY <1>1, <2>1, <2>2, QuietTidy DEF Book
<1>2. TidyInv => Reachable
  BY <1>1 DEF Reachable
<1> QED
  BY <1>2, TidyInvariant, PTL

-----------------------------------------------------------------------------
(* Port mappings. *)

NoRules == [k \in RuleKinds |-> 0]

\* The order in which rules are appended, and deleted.
Precedes(y, x) == y[1] < x[1] \/ (y[1] = x[1] /\ y[2] < x[2])
Before(i, x) == {y \in Positions(i) : Precedes(y, x)}

\* Rules of a container none of which is missing before one that is there.
\* Deleting takes them all, though it stops at a rule that is missing.
Prefix(i, S) ==
  /\ S \subseteq Positions(i)
  /\ \A x \in S, y \in Positions(i) : Precedes(y, x) => y \in S

\* r is what a connection of container i leaves at its address, and what a
\* disconnection that has come to x has left of that.
Traces(i, r) == \E S \in SUBSET Positions(i) : Prefix(i, S) /\ r = Counted(i, S)
Left(i, x, r) == \E S \in SUBSET Positions(i) : Prefix(i, S) /\ r = Counted(i, S \ Before(i, x))

\* The link of a process has the address that the container's record, or the
\* command that has just made it, knows.
Links(c) ==
  /\ \A p \in Live : procs[p].ip # NilIP =>
       /\ IF Begun(c) /\ c.info.pid = p
            THEN c.pc \notin {"allocate", "attach"} /\ procs[p].ip = c.info.ip
            ELSE info[procs[p].owner].kind = "bridge" /\ procs[p].ip = info[procs[p].owner].ip
       /\ c.pc = "kill" => procs[p].owner # c.id
  /\ Begun(c) /\ c.info.pid \in Live => procs[c.info.pid].owner = c.id

RulesTyped ==
  /\ rules \in [Block(Net) -> [RuleKinds -> Nat]]
  /\ refused \subseteq Ids
  /\ todo = [t \in Terminals |-> todo[t]]

\* Where a command is that appends, or deletes, rules.
JobOK(c, w) ==
  /\ w = Done \/ (w = [job |-> w.job, at |-> w.at] /\ w.job \in {"append", "delete"})
  /\ w.job # "none" => c.id \in Ids /\ c.info.ip \in Block(Net) /\ w.at \in Positions(c.id)
  /\ w.job = "append" => Begun(c) /\ c.pc \in {"record", "nameread"}
  /\ w.job = "delete" => /\ c.pc \in {"kill", "health", "read"}
                         /\ c.info.ip \notin LeasedIn(subnets)
                         /\ c.id \in DOMAIN info /\ info[c.id].ip = c.info.ip

Tracked == \A i \in Ids : ~LosesTrack(i)

\* Nobody's address has no rules, and everybody's has what deleting takes.
TracesOK(c, w) ==
  /\ \A a \in Block(Net) :
       a = Gateway(Net) \/ a \notin LeasedIn(subnets) =>
         (w.job = "delete" /\ a = c.info.ip) \/ rules[a] = NoRules
  /\ \A i \in Holders : (w.job = "delete" /\ i = c.id) \/ Traces(i, rules[info[i].ip])
  /\ \A a \in Taken(c) :
       CASE w.job = "append" -> rules[a] = Counted(c.id, Before(c.id, w.at))
         [] c.pc = "attach"  -> rules[a] = NoRules
         [] OTHER            -> Traces(c.id, rules[a])
  /\ w.job = "delete" => Left(c.id, w.at, rules[c.info.ip])

\* The rules that a process has, but for those that are being appended.
Made(o, p, c, w) ==
  IF w.job = "append" /\ p = c.info.pid THEN Before(o, w.at) ELSE Positions(o)

RulesEnough(c, w) ==
  \A p \in Live : procs[p].ip # NilIP /\ procs[p].owner \notin refused =>
    \A k \in RuleKinds :
      rules[procs[p].ip][k] >= Counted(procs[p].owner, Made(procs[p].owner, p, c, w))[k]

PortsTidy(t) ==
  /\ Links(term[t]) /\ JobOK(term[t], todo[t]) /\ RulesEnough(term[t], todo[t])
  /\ Tracked => TracesOK(term[t], todo[t])

PortsInv == TidyInv /\ RulesTyped /\ \A t \in Terminals : PortsTidy(t)

-----------------------------------------------------------------------------
(* Positions and counts. *)

LEMMA PositionsAre ==
  ASSUME NEW i \in Ids
  PROVE  /\ Len(Publishes[i]) \in Nat
         /\ Positions(i) = (1 .. Len(Publishes[i])) \X (1 .. 3)
         /\ IsFiniteSet(Positions(i))
         /\ Publishes[i] = <<>> <=> Len(Publishes[i]) = 0
         /\ \A x \in Positions(i) : KindAt(i, x) \in RuleKinds
<1>1. Publishes[i] \in Seq(HostPorts)
  BY PortsAssumptions
<1>2. DOMAIN Publishes[i] = 1 .. Len(Publishes[i]) /\ Len(Publishes[i]) \in Nat
  BY <1>1
<1>3. Positions(i) = (1 .. Len(Publishes[i])) \X (1 .. 3)
  BY <1>2 DEF Positions
<1>4. IsFiniteSet(1 .. Len(Publishes[i])) /\ IsFiniteSet(1 .. 3)
  <2>1. 1 \in Int /\ 3 \in Int /\ Len(Publishes[i]) \in Int
    BY <1>2
  <2>2. IsFiniteSet(1 .. 3)
    BY <2>1, FS_Interval
  <2>3. IsFiniteSet(1 .. Len(Publishes[i]))
    BY <2>1, FS_Interval
  <2> QED
    BY <2>2, <2>3
<1>5. IsFiniteSet(Positions(i))
  BY <1>3, <1>4, FS_Product
<1>6. ASSUME NEW x \in Positions(i) PROVE KindAt(i, x) \in RuleKinds
  <2>1. PICK n \in 1 .. Len(Publishes[i]), m \in 1 .. 3 : x = <<n, m>>
    BY <1>3
  <2>2. Publishes[i][n] \in HostPorts
    BY <1>1
  <2>3. m = 1 \/ m = 2 \/ m = 3
    OBVIOUS
  <2> QED
    BY <2>1, <2>2, <2>3 DEF KindAt, RulesOf, RuleKinds
<1>7. Publishes[i] = <<>> <=> Len(Publishes[i]) = 0
  BY <1>1
<1> QED
  BY <1>2, <1>3, <1>5, <1>6, <1>7

\* How the counts change with one rule more, and one fewer.
LEMMA CountedTyped ==
  ASSUME NEW i \in Ids, NEW S \in SUBSET Positions(i)
  PROVE  Counted(i, S) \in [RuleKinds -> Nat]
<1>1. ASSUME NEW k \in RuleKinds PROVE Cardinality({x \in S : KindAt(i, x) = k}) \in Nat
  <2>1. IsFiniteSet({x \in S : KindAt(i, x) = k})
    BY PositionsAre, FS_Subset
  <2> QED
    BY <2>1, FS_CardinalityType
<1> QED
  BY <1>1 DEF Counted

LEMMA CountedNone ==
  ASSUME NEW i
  PROVE  Counted(i, {}) = NoRules
<1>1. \A k : {x \in {} : KindAt(i, x) = k} = {}
  OBVIOUS
<1> QED
  BY <1>1, FS_EmptySet DEF Counted, NoRules

LEMMA CountedMore ==
  ASSUME NEW i \in Ids, NEW S \in SUBSET Positions(i), NEW x \in Positions(i), x \notin S
  PROVE  Counted(i, S \cup {x}) = [Counted(i, S) EXCEPT ![KindAt(i, x)] = @ + 1]
<1> DEFINE At(T, k) == {y \in T : KindAt(i, y) = k}
<1>1. ASSUME NEW k \in RuleKinds
      PROVE  Cardinality(At(S \cup {x}, k)) =
               IF k = KindAt(i, x) THEN Cardinality(At(S, k)) + 1 ELSE Cardinality(At(S, k))
  <2>1. IsFiniteSet(At(S, k)) /\ x \notin At(S, k)
    BY PositionsAre, FS_Subset
  <2>2. CASE k = KindAt(i, x)
    <3>1. At(S \cup {x}, k) = At(S, k) \cup {x}
      BY <2>2
    <3> QED
      BY <2>1, <2>2, <3>1, FS_AddElement
  <2>3. CASE k # KindAt(i, x)
    <3>1. At(S \cup {x}, k) = At(S, k)
      BY <2>3
    <3> QED
      BY <2>3, <3>1
  <2> QED
    BY <2>2, <2>3
<1>2. /\ Counted(i, S \cup {x}) = [k \in RuleKinds |-> Cardinality(At(S \cup {x}, k))]
      /\ Counted(i, S) = [k \in RuleKinds |-> Cardinality(At(S, k))]
  BY DEF Counted
<1> HIDE DEF At
<1> QED
  BY <1>1, <1>2

LEMMA CountedFewer ==
  ASSUME NEW i \in Ids, NEW S \in SUBSET Positions(i), NEW x \in S
  PROVE  /\ Counted(i, S \ {x}) = [Counted(i, S) EXCEPT ![KindAt(i, x)] = @ - 1]
         /\ Counted(i, S)[KindAt(i, x)] > 0
<1> DEFINE T == S \ {x}
<1>1. T \in SUBSET Positions(i) /\ x \in Positions(i) /\ x \notin T /\ T \cup {x} = S
  OBVIOUS
<1> HIDE DEF T
<1>2. Counted(i, S) = [Counted(i, T) EXCEPT ![KindAt(i, x)] = @ + 1]
  BY <1>1, CountedMore
<1>3. Counted(i, T) \in [RuleKinds -> Nat] /\ KindAt(i, x) \in RuleKinds
  BY <1>1, CountedTyped, PositionsAre
<1>4. Counted(i, S)[KindAt(i, x)] = Counted(i, T)[KindAt(i, x)] + 1
  BY <1>2, <1>3
<1>5. Counted(i, T) = [Counted(i, S) EXCEPT ![KindAt(i, x)] = @ - 1]
  <2> DEFINE f == Counted(i, T)
             g == Counted(i, S)
             y == KindAt(i, x)
  <2>1. f \in [RuleKinds -> Nat] /\ y \in RuleKinds /\ g = [f EXCEPT ![y] = @ + 1]
    BY <1>2, <1>3
  <2> HIDE DEF f, g, y
  <2>2. \A k \in RuleKinds : f[k] \in Nat
    BY <2>1
  <2>3. /\ f = [k \in RuleKinds |-> f[k]]
        /\ [g EXCEPT ![y] = @ - 1] = [k \in RuleKinds |-> IF k = y THEN f[y] + 1 - 1 ELSE f[k]]
    BY <2>1
  <2>4. f = [g EXCEPT ![y] = @ - 1]
    BY <2>1, <2>2, <2>3
  <2> QED
    BY <2>4 DEF f, g, y
<1>6. Counted(i, S)[KindAt(i, x)] > 0
  BY <1>3, <1>4
<1> QED
  BY <1>5, <1>6 DEF T

LEMMA CountedLess ==
  ASSUME NEW i \in Ids, NEW S \in SUBSET Positions(i), NEW T \in SUBSET S
  PROVE  \A k \in RuleKinds : Counted(i, T)[k] <= Counted(i, S)[k]
<1> TAKE k \in RuleKinds
<1>1. IsFiniteSet({x \in S : KindAt(i, x) = k})
  BY PositionsAre, FS_Subset
<1>2. {x \in T : KindAt(i, x) = k} \in SUBSET {x \in S : KindAt(i, x) = k}
  OBVIOUS
<1>3. Cardinality({x \in T : KindAt(i, x) = k}) <= Cardinality({x \in S : KindAt(i, x) = k})
  BY <1>1, <1>2, FS_Subset
<1> QED
  BY <1>3 DEF Counted

\* The order of the rules, and where a command goes on.
LEMMA OrderOfRules ==
  ASSUME NEW i \in Ids, NEW x \in Positions(i)
  PROVE  /\ x = <<x[1], x[2]>> /\ x[1] \in 1 .. Len(Publishes[i]) /\ x[2] \in 1 .. 3
         /\ x \notin Before(i, x)
         /\ Prefix(i, Before(i, x))
         /\ \A y \in Positions(i) : y = x \/ Precedes(y, x) \/ Precedes(x, y)
<1>1. /\ Positions(i) = (1 .. Len(Publishes[i])) \X (1 .. 3) /\ Len(Publishes[i]) \in Nat
  BY PositionsAre
<1>2. \A y \in Positions(i) : /\ y = <<y[1], y[2]>>
                             /\ y[1] \in 1 .. Len(Publishes[i]) /\ y[2] \in 1 .. 3
                             /\ y[1] \in Int /\ y[2] \in Int
  BY <1>1
<1>3. x \notin Before(i, x)
  BY <1>2 DEF Before, Precedes
<1>4. ASSUME NEW y \in Positions(i) PROVE y = x \/ Precedes(y, x) \/ Precedes(x, y)
  BY <1>2 DEF Precedes
<1>5. ASSUME NEW y \in Positions(i), NEW z \in Positions(i), Precedes(y, x), Precedes(z, y)
      PROVE  Precedes(z, x)
  BY <1>2, <1>5 DEF Precedes
<1>6. Prefix(i, Before(i, x))
  BY <1>5 DEF Prefix, Before
<1> QED
  BY <1>2, <1>3, <1>4, <1>6

LEMMA PrefixRest ==
  ASSUME NEW i \in Ids, NEW S, Prefix(i, S), NEW x \in Positions(i), x \notin S
  PROVE  S \ Before(i, x) = {}
<1> SUFFICES ASSUME NEW y \in S PROVE y \in Before(i, x)
  OBVIOUS
<1>1. y \in Positions(i) /\ (y = x \/ Precedes(y, x) \/ Precedes(x, y))
  BY OrderOfRules DEF Prefix
<1> QED
  BY <1>1 DEF Prefix, Before

LEMMA PrefixAll ==
  ASSUME NEW i \in Ids
  PROVE  Prefix(i, Positions(i)) /\ Prefix(i, {})
  BY DEF Prefix

LEMMA BeginAt ==
  ASSUME NEW i \in Ids, NEW job \in {"append", "delete"}, NEW w, w = Begin(job, i)
  PROVE  \/ w = Done /\ Positions(i) = {} /\ Done.job = "none"
         \/ /\ w = [job |-> job, at |-> <<1, 1>>] /\ w.job = job /\ w.at = <<1, 1>>
            /\ <<1, 1>> \in Positions(i) /\ Before(i, <<1, 1>>) = {}
<1>1. /\ Positions(i) = (1 .. Len(Publishes[i])) \X (1 .. 3) /\ Len(Publishes[i]) \in Nat
      /\ Publishes[i] = <<>> <=> Len(Publishes[i]) = 0
  BY PositionsAre
<1>2. CASE Publishes[i] = <<>>
  BY <1>1, <1>2 DEF Begin, Done
<1>3. CASE Publishes[i] # <<>>
  <2>1. <<1, 1>> \in Positions(i)
    BY <1>1, <1>3
  <2>2. \A y \in Positions(i) : ~Precedes(y, <<1, 1>>)
    BY <1>1 DEF Precedes
  <2>3. w = [job |-> job, at |-> <<1, 1>>]
    BY <1>3 DEF Begin
  <2> QED
    BY <2>1, <2>2, <2>3 DEF Before
<1> QED
  BY <1>2, <1>3

LEMMA MappingAfter ==
  ASSUME NEW i \in Ids, NEW w, w = [job |-> w.job, at |-> w.at], w.at \in Positions(i),
         NEW v, v = NextMapping(i, w)
  PROVE  /\ \/ v = Done
            \/ /\ v = [job |-> v.job, at |-> v.at] /\ v.job = w.job
               /\ v.at \in Positions(i) /\ Before(i, w.at) \subseteq Before(i, v.at)
         /\ ~(Len(Publishes[i]) > 1) => v = Done
         /\ w.at[2] = 3 =>
              \/ v = Done /\ Before(i, w.at) \cup {w.at} = Positions(i)
              \/ /\ v = [job |-> v.job, at |-> v.at] /\ v.job = w.job
                 /\ v.at \in Positions(i) /\ Before(i, w.at) \cup {w.at} = Before(i, v.at)
<1> DEFINE x == w.at
           y == <<x[1] + 1, 1>>
<1>1. /\ Positions(i) = (1 .. Len(Publishes[i])) \X (1 .. 3) /\ Len(Publishes[i]) \in Nat
  BY PositionsAre
<1>2. x = <<x[1], x[2]>> /\ x[1] \in 1 .. Len(Publishes[i]) /\ x[2] \in 1 .. 3 /\ x \in Positions(i)
  BY OrderOfRules
<1>3. CASE x[1] < Len(Publishes[i])
  <2>1. v = [job |-> w.job, at |-> y]
    BY <1>3 DEF NextMapping
  <2>2. y \in Positions(i) /\ y[1] = x[1] + 1 /\ y[2] = 1
    BY <1>1, <1>2, <1>3
  <2>3. ASSUME NEW z \in Positions(i)
        PROVE  /\ Precedes(z, x) => Precedes(z, y)
               /\ x[2] = 3 => (Precedes(z, y) <=> Precedes(z, x) \/ z = x)
    <3>1. z = <<z[1], z[2]>> /\ z[1] \in Int /\ z[2] \in 1 .. 3
      BY <1>1
    <3> QED
      BY <1>2, <2>2, <3>1 DEF Precedes
  <2>4. Before(i, x) \subseteq Before(i, y) /\ (x[2] = 3 => Before(i, x) \cup {x} = Before(i, y))
    BY <1>2, <2>3 DEF Before
  <2> HIDE DEF y
  <2>5. v.job = w.job /\ v.at = y /\ v = [job |-> v.job, at |-> v.at]
    BY <2>1
  <2>6. Len(Publishes[i]) > 1
    BY <1>1, <1>2, <1>3
  <2> QED
    BY <2>2, <2>4, <2>5, <2>6
<1>4. CASE ~(x[1] < Len(Publishes[i]))
  <2>1. v = Done
    BY <1>4 DEF NextMapping
  <2>2. x[1] = Len(Publishes[i])
    BY <1>1, <1>2, <1>4
  <2>3. ASSUME x[2] = 3, NEW z \in Positions(i) PROVE Precedes(z, x) \/ z = x
    <3>1. z = <<z[1], z[2]>> /\ z[1] \in 1 .. Len(Publishes[i]) /\ z[2] \in 1 .. 3
      BY <1>1
    <3> QED
      BY <1>1, <1>2, <2>2, <2>3, <3>1 DEF Precedes
  <2>4. x[2] = 3 => Before(i, x) \cup {x} = Positions(i)
    BY <1>2, <2>3 DEF Before
  <2> QED
    BY <2>1, <2>4
<1> QED
  BY <1>3, <1>4

LEMMA RuleAfter ==
  ASSUME NEW i \in Ids, NEW w, w = [job |-> w.job, at |-> w.at], w.at \in Positions(i),
         NEW v, v = NextRule(i, w)
  PROVE  \/ v = Done /\ Before(i, w.at) \cup {w.at} = Positions(i)
         \/ /\ v = [job |-> v.job, at |-> v.at] /\ v.job = w.job
            /\ v.at \in Positions(i) /\ Before(i, w.at) \cup {w.at} = Before(i, v.at)
<1> DEFINE x == w.at
           y == <<x[1], x[2] + 1>>
<1>1. /\ Positions(i) = (1 .. Len(Publishes[i])) \X (1 .. 3) /\ Len(Publishes[i]) \in Nat
  BY PositionsAre
<1>2. x = <<x[1], x[2]>> /\ x[1] \in 1 .. Len(Publishes[i]) /\ x[2] \in 1 .. 3 /\ x \in Positions(i)
  BY OrderOfRules
<1>3. CASE x[2] < 3
  <2>1. v = [job |-> w.job, at |-> y]
    BY <1>3 DEF NextRule
  <2>2. y \in Positions(i) /\ y[1] = x[1] /\ y[2] = x[2] + 1
    BY <1>1, <1>2, <1>3
  <2>3. ASSUME NEW z \in Positions(i) PROVE Precedes(z, y) <=> Precedes(z, x) \/ z = x
    <3>1. z = <<z[1], z[2]>> /\ z[1] \in Int /\ z[2] \in Int
      BY <1>1
    <3> QED
      BY <1>2, <2>2, <3>1 DEF Precedes
  <2>4. Before(i, x) \cup {x} = Before(i, y)
    BY <1>2, <2>3 DEF Before
  <2> HIDE DEF y
  <2>5. v.job = w.job /\ v.at = y /\ v = [job |-> v.job, at |-> v.at]
    BY <2>1
  <2> QED
    BY <2>2, <2>4, <2>5
<1>4. CASE ~(x[2] < 3)
  <2>1. x[2] = 3 /\ v = NextMapping(i, w)
    BY <1>2, <1>4 DEF NextRule
  <2> QED
    BY <2>1, MappingAfter
<1> QED
  BY <1>3, <1>4

-----------------------------------------------------------------------------
(* Every step that is about rules is one of the container's life, or none.  *)

LEMMA PortsSteps == [PortsNext]_portVars => [Next]_vars
<1> SUFFICES ASSUME [PortsNext]_portVars PROVE [Next]_vars
  OBVIOUS
<1>1. ASSUME NEW t \in Terminals, MapPorts(t) \/ MapNothing(t) PROVE Next
  BY <1>1 DEF MapPorts, MapNothing, Next, Step
<1>2. ASSUME NEW t \in Terminals, UnmapPorts(t) PROVE Next
  BY <1>2 DEF UnmapPorts, Next, Step
<1>3. ASSUME NEW t \in Terminals, AppendRule(t) \/ DeleteRule(t) PROVE UNCHANGED vars
  BY <1>3 DEF AppendRule, DeleteRule
<1>4. ASSUME Elsewhere PROVE Next
  BY <1>4 DEF Elsewhere, Next, Environment
<1> QED
  BY <1>1, <1>2, <1>3, <1>4 DEF PortsNext, portVars

\* Containers whose port mappings are kept are containers: what is proved of
\* every execution of Spec holds with the rules of iptables in between.
THEOREM PortsAreContainers == PortsSpec => Spec
<1>1. PortsInit => Init
  BY DEF PortsInit
<1> QED
  BY <1>1, PortsSteps, PTL DEF PortsSpec, Spec

-----------------------------------------------------------------------------
(* What the steps do that have no part in the rules.                        *)

\* They configure no link and release no address; a container that is recorded
\* to hold one did so before, or gets that of the command.
Carries(t) ==
  /\ Links(term[t])' /\ term[t].pc # "attach"
  /\ \A p \in Live' : procs'[p].ip # NilIP => p \in Live /\ procs'[p] = procs[p]
  /\ LeasedIn(subnets) \subseteq LeasedIn(subnets')
  /\ \A i \in Holders' : \/ i \in Holders /\ info'[i].ip = info[i].ip
                         \/ i = term[t].id /\ info'[i].ip \in Taken(term[t])
  /\ \A a \in Taken(term'[t]) : \/ /\ a \in Taken(term[t])
                                   /\ term'[t].id = term[t].id /\ term'[t].pc # "attach"
                                \/ a \in Block(Net) \ LeasedIn(subnets) /\ term'[t].id \in Ids

LEMMA LinksIdle ==
  ASSUME NEW t \in Terminals, Links(term[t]), ProcsTidy(term[t])',
         ~Begun(term[t]), ~Begun(term'[t]),
         \A p \in Live' : procs'[p].ip # NilIP => p \in Live /\ procs'[p] = procs[p],
         \A i \in DOMAIN info' : /\ i \in DOMAIN info
                                 /\ info'[i].kind = info[i].kind /\ info'[i].ip = info[i].ip,
         term'[t].pc = "kill" =>
           \A p \in Live' : procs'[p].ip # NilIP => procs'[p].owner # term'[t].id
  PROVE  Links(term[t])'
<1> DEFINE e == term'[t]
<1>1. ~Begun(e) /\ (e.pc = "kill" =>
           \A p \in Live' : procs'[p].ip # NilIP => procs'[p].owner # e.id)
  OBVIOUS
<1>2. \A p \in Live' : procs'[p].owner \in DOMAIN info'
  BY DEF ProcsTidy
<1>3. \A p \in Live : procs[p].ip # NilIP =>
        info[procs[p].owner].kind = "bridge" /\ procs[p].ip = info[procs[p].owner].ip
  BY DEF Links
<1>4. \A p \in Live' : procs'[p].ip # NilIP =>
        info'[procs'[p].owner].kind = "bridge" /\ procs'[p].ip = info'[procs'[p].owner].ip
  BY <1>2, <1>3
<1> HIDE DEF e
<1> QED
  BY <1>1, <1>4 DEF Links, e

LEMMA CarryIdle ==
  ASSUME NEW t \in Terminals, Links(term[t]), ProcsTidy(term[t])',
         ~Begun(term[t]), ~Begun(term'[t]), UNCHANGED subnets,
         \A p \in Live' : procs'[p].ip # NilIP => p \in Live /\ procs'[p] = procs[p],
         term[t].pc # "attach",
         \A i \in DOMAIN info' :
           /\ i \in DOMAIN info
           /\ info'[i].kind = info[i].kind /\ info'[i].ip = info[i].ip
           /\ info[i].status = "Paused" => info'[i].status = "Paused",
         term'[t].pc = "kill" =>
           \A p \in Live' : procs'[p].ip # NilIP => procs'[p].owner # term'[t].id
  PROVE  Carries(t)
<1>1. Links(term[t])'
  BY LinksIdle
<1>2. \A i \in Holders' : i \in Holders /\ info'[i].ip = info[i].ip
  BY DEF Holders
<1>3. Taken(term'[t]) = {}
  BY DEF Taken
<1>4. LeasedIn(subnets) = LeasedIn(subnets')
  OBVIOUS
<1> QED
  BY <1>1, <1>2, <1>3, <1>4 DEF Carries

\* The commands that have started no process.
LEMMA IdleSteps ==
  ASSUME Calm, TidyInv, NEW t \in Terminals, NEW c, c = term[t], NEW e, e = term'[t],
         \/ Type(t) \/ Lookup(t) \/ Read(t) \/ Check(t)
         \/ DisconnectHost(t) \/ DisconnectBridge(t) \/ DisconnectNil(t)
         \/ Kill(t) \/ RecordPaused(t) \/ CheckName(t) \/ MakeWorkSpace(t) \/ Health(t)
         \/ Waited(t) \/ RemoveName(t) \/ DeleteWorkSpace(t)
  PROVE  ~Begun(c) /\ ~Begun(e) /\ (e.pc = "kill" => c.pc = "disconnect") /\ c.pc # "attach"
<1> DEFINE Busy(d) == Begun(d) \/ d.pc = "kill"
           Idle == {"rest", "lookup", "read", "check", "disconnect", "paused", "name",
                    "workspace", "health", "spawn", "wait", "delete"}
<1>1. /\ IInv /\ c \in CommandType /\ Place(c) /\ Knows(c, names, info)
      /\ \A d : Become(t, d) => e = d
      /\ \A pc : Goto(t, pc) => e = [c EXCEPT !.pc = pc]
  BY TidyKnown, GotoIsBecome DEF Knows
<1>2. \A d : d.pc \in Idle => ~Busy(d)
  BY DEF Begun
<1>3. ~Begun(c) /\ c.pc # "attach"
  BY <1>1 DEF Type, Lookup, Read, Check, DisconnectHost, DisconnectBridge, DisconnectNil, Kill,
              RecordPaused, CheckName, MakeWorkSpace, Health, Waited, RemoveName,
              DeleteWorkSpace, Begun
<1>4. ~Busy(Rest) /\ (Return(t) => ~Busy(e))
  <2>1. Rest.pc = "rest"
    BY DEF Rest
  <2> QED
    BY <1>1, <1>2, <2>1 DEF Return
<1>5. \A pc \in Idle : ~Busy([c EXCEPT !.pc = pc])
  <2> TAKE pc \in Idle
  <2> DEFINE d == [c EXCEPT !.pc = pc]
  <2>1. d.pc = pc
    BY <1>1 DEF CommandType
  <2> HIDE DEF d, Busy
  <2>2. ~Busy(d)
    BY <1>2, <2>1
  <2> QED
    BY <2>2 DEF d
<1>6. ~Busy(Unregister(c)) /\ ~Busy(StopReturned(c))
  <2>1. Unregister(c).pc = "read"
    BY <1>1, Fields
  <2> QED
    BY <1>2, <1>4, <2>1 DEF StopReturned
<1>7. c.phase \in Phases => ~Busy(NotFound(c))
  BY <1>4, <1>5, <1>6 DEF NotFound, Phases
<1>8. c.phase \in Phases
  BY <1>1 DEF CommandType
<1> HIDE DEF Busy
<1>9. ASSUME Type(t) PROVE ~Busy(e)
  <2>1. ASSUME NEW cmd, NEW pc \in {"name", "lookup", "read"}, NEW key, NEW i
        PROVE  /\ Invocation(cmd, pc, key, i).pc \in Idle
               /\ [Invocation(cmd, pc, key, i) EXCEPT !.force = TRUE].pc \in Idle
               /\ \A nt, r : [Invocation(cmd, pc, key, i) EXCEPT !.net = nt, !.info = r].pc \in Idle
    BY DEF Invocation, Rest
  <2>2. Run(t) => e.pc \in Idle
    <3> SUFFICES ASSUME Run(t) PROVE e.pc \in Idle
      OBVIOUS
    <3>1. PICK i \in FreshIds, nt \in {"host", "bridge"}, tty \in BOOLEAN :
            \E n \in Names \cup {i} :
              Become(t, [Invocation("run", "name", n, i) EXCEPT
                           !.net = nt, !.info = [NoInfo(i) EXCEPT !.name = n, !.tty = tty]])
      BY DEF Run
    <3>2. PICK n, r : Become(t, [Invocation("run", "name", n, i) EXCEPT !.net = nt, !.info = r])
      BY <3>1
    <3> DEFINE d == [Invocation("run", "name", n, i) EXCEPT !.net = nt, !.info = r]
    <3>3. Become(t, d) /\ d.pc \in Idle
      BY <2>1, <3>2
    <3> HIDE DEF d
    <3> QED
      BY <1>1, <3>3
  <2>3. \A cmd : OnContainer(t, cmd) => e.pc \in Idle
    BY <1>1, <2>1 DEF OnContainer
  <2>4. RemoveForced(t) => e.pc \in Idle
    <3> SUFFICES ASSUME RemoveForced(t) PROVE e.pc \in Idle
      OBVIOUS
    <3>1. PICK key : Become(t, [Invocation("rm", "lookup", key, None) EXCEPT !.force = TRUE])
      BY DEF RemoveForced
    <3> DEFINE d == [Invocation("rm", "lookup", key, None) EXCEPT !.force = TRUE]
    <3>2. Become(t, d) /\ d.pc \in Idle
      BY <2>1, <3>1
    <3> HIDE DEF d
    <3> QED
      BY <1>1, <3>2
  <2>5. List(t) => e.pc \in Idle
    BY <1>1, <2>1 DEF List
  <2> QED
    BY <1>2, <1>9, <2>2, <2>3, <2>4, <2>5 DEF Type
<1>10. ASSUME Lookup(t) \/ Read(t) PROVE ~Busy(e)
  <2> DEFINE o == IF c.phase = "self" THEN names[c.key] ELSE c.own
             d == [c EXCEPT !.id = names[c.key], !.pc = "read", !.own = o]
             f == [c EXCEPT !.info = info[c.id], !.pc = "check"]
  <2>1. Lookup(t) => e \in {d, NotFound(c)}
    BY <1>1 DEF Lookup
  <2>2. Read(t) => e \in {f, NotFound(c)}
    BY <1>1 DEF Read
  <2>3. d.pc = "read" /\ f.pc = "check"
    BY <1>1 DEF CommandType
  <2> HIDE DEF d, f
  <2>4. ~Busy(d) /\ ~Busy(f)
    BY <1>2, <2>3
  <2> QED
    BY <1>7, <1>8, <1>10, <2>1, <2>2, <2>4
<1>11. ASSUME Check(t) PROVE ~Busy(e)
  <2> DEFINE r == StatusCheck(c.info)
             d == [c EXCEPT !.info = r]
             At(pc) == [d EXCEPT !.pc = pc]
             l == [At("lookup") EXCEPT !.phase = "stop"]
             u == Unregister(d)
  <2>1. e = Checked(c, r)
    BY <1>1, <1>11 DEF Check
  <2>2. /\ \A pc : At(pc).pc = pc /\ At(pc).phase = c.phase
        /\ l.pc = "lookup" /\ u.pc = "read"
    BY <1>1 DEF CommandType, Unregister
  <2>3. \/ c.phase = "unname" /\ e = At("nameread")
        \/ e \in {At("disconnect"), At("health"), l, u, Rest}
    <3>1. StopReturned(d) \in {u, Rest}
      BY DEF StopReturned
    <3> HIDE DEF r
    <3> QED
      BY <1>1, <2>1, <3>1 DEF Checked
  <2> HIDE DEF At, l, u
  <2>4. At("disconnect").pc \in Idle /\ At("health").pc \in Idle /\ l.pc \in Idle /\ u.pc \in Idle
    BY <2>2
  <2>5. c.phase = "unname" => ~Busy(At("nameread"))
    BY <2>2 DEF Busy, Begun
  <2> QED
    BY <1>2, <1>4, <2>3, <2>4, <2>5
<1>12. ASSUME DisconnectHost(t) \/ DisconnectBridge(t) PROVE ~Begun(e) /\ c.pc = "disconnect"
  <2>1. c.pc = "disconnect" /\ UNCHANGED info
    BY <1>12 DEF DisconnectHost, DisconnectBridge
  <2>2. Live' = Live
    BY <1>12 DEF DisconnectHost, DisconnectBridge, Unlinked, Live
  <2>3. Return(t) \/ e = Disconnected(c)
    BY <1>1, <1>12 DEF DisconnectHost, DisconnectBridge
  <2> QED
    BY <1>4, <2>1, <2>2, <2>3, DisconnectedTidy DEF Busy
<1>13. ASSUME Kill(t) \/ RecordPaused(t) PROVE ~Busy(e)
  BY <1>1, <1>5, <1>6, <1>13 DEF Kill, RecordPaused
<1>14. ASSUME DisconnectNil(t) \/ CheckName(t) \/ MakeWorkSpace(t) \/ Health(t) \/ Waited(t)
             \/ DeleteWorkSpace(t)
       PROVE  ~Busy(e)
  BY <1>1, <1>4, <1>5, <1>14
     DEF DisconnectNil, CheckName, MakeWorkSpace, Health, Waited, DeleteWorkSpace
<1>15. ASSUME RemoveName(t) PROVE ~Busy(e)
  <2>1. e = [c EXCEPT !.copy = NoFile, !.pc = "delete"]
    BY <1>1, <1>15 DEF RemoveName
  <2>2. e.pc \in Idle
    BY <1>1, <2>1, Fields
  <2> QED
    BY <1>2, <2>2
<1> QED
  BY <1>3, <1>9, <1>10, <1>11, <1>12, <1>13, <1>14, <1>15 DEF Busy

\* They carry over what the links and the records say.
LEMMA IdleCarries ==
  ASSUME Calm, TidyInv, TidyInv', NEW t \in Terminals, Links(term[t]),
         \/ Type(t) \/ Lookup(t) \/ Read(t) \/ Check(t)
         \/ DisconnectHost(t) \/ DisconnectNil(t)
         \/ Kill(t) \/ RecordPaused(t) \/ CheckName(t) \/ MakeWorkSpace(t) \/ Health(t)
         \/ Waited(t) \/ RemoveName(t) \/ DeleteWorkSpace(t)
  PROVE  Carries(t)
<1> DEFINE c == term[t]
           e == term'[t]
<1>1. /\ IInv /\ PausedRecords /\ c \in CommandType /\ Place(c) /\ Knows(c, names, info)
      /\ Tidy(t)
      /\ \A d : Become(t, d) => e = d
  BY TidyKnown DEF Knows
<1>2. ~Begun(c) /\ ~Begun(e) /\ (e.pc = "kill" => c.pc = "disconnect") /\ c.pc # "attach"
  BY IdleSteps
<1>3. UNCHANGED subnets /\ ProcsTidy(term[t])'
  <2>1. ProcsTidy(term[t])'
    BY DEF TidyInv, Tidy
  <2> QED
    BY <2>1 DEF Type, Lookup, Read, Check, DisconnectHost, DisconnectNil, Kill, RecordPaused,
                CheckName, MakeWorkSpace, Health, Waited, RemoveName, DeleteWorkSpace
<1>4. \A p \in Live' : p \in Live /\ procs'[p] = procs[p]
  <2>1. Kill(t) \/ UNCHANGED procs
    BY DEF Type, Lookup, Read, Check, DisconnectHost, DisconnectNil, RecordPaused,
           CheckName, MakeWorkSpace, Health, Waited, RemoveName, DeleteWorkSpace
  <2>2. Kill(t) => UNCHANGED procs \/ procs' = Without(procs, {c.info.pid})
    BY DEF Kill
  <2> QED
    BY <2>1, <2>2 DEF Live, Without
<1>5. \A i \in DOMAIN info' :
        /\ i \in DOMAIN info
        /\ info'[i].kind = info[i].kind /\ info'[i].ip = info[i].ip
        /\ info[i].status = "Paused" => info'[i].status = "Paused"
  <2>1. CASE UNCHANGED info
    BY <2>1
  <2>2. CASE DeleteWorkSpace(t)
    BY <2>2 DEF DeleteWorkSpace, Without
  <2>3. ASSUME c.id \in DOMAIN info, c.info = info[c.id], NEW r, info' = With(info, c.id, r),
               r.kind = c.info.kind, r.ip = c.info.ip,
               c.info.status = "Paused" => r.status = "Paused"
        PROVE  \A i \in DOMAIN info' :
                 /\ i \in DOMAIN info
                 /\ info'[i].kind = info[i].kind /\ info'[i].ip = info[i].ip
                 /\ info[i].status = "Paused" => info'[i].status = "Paused"
    BY <2>3 DEF With
  <2>4. CASE Check(t)
    <3>1. c.id \in DOMAIN info /\ c.info = info[c.id] /\ info' = With(info, c.id, StatusCheck(c.info))
      BY <1>1, <2>4 DEF Check, Knows, Current
    <3>2. c.info \in SafeInfo /\ (c.info.status = "Paused" => c.info.pid = NoPid)
      BY <1>1, <3>1 DEF IInv, InfoSafe, IsFile, PausedRecords
    <3> DEFINE r == StatusCheck(c.info)
    <3>3. /\ r.kind = c.info.kind /\ r.ip = c.info.ip
          /\ c.info.status = "Paused" => r.status = "Paused"
      BY <1>1, <3>2, StatusCheckFacts
    <3> HIDE DEF r
    <3> QED
      BY <2>3, <3>1, <3>3 DEF r
  <2>5. CASE RecordPaused(t)
    <3> DEFINE r == [c.info EXCEPT !.status = "Paused", !.pid = NoPid]
    <3>1. c.id \in DOMAIN info /\ c.info = info[c.id] /\ info' = With(info, c.id, r)
      BY <1>1, <2>5 DEF RecordPaused, Knows, Current
    <3>2. c.info \in SafeInfo
      BY <1>1, <3>1 DEF IInv, InfoSafe, IsFile
    <3>3. r.kind = c.info.kind /\ r.ip = c.info.ip /\ r.status = "Paused"
      BY <3>2 DEF SafeInfo, InfoType
    <3> HIDE DEF r
    <3> QED
      BY <2>3, <3>1, <3>3
  <2> QED
    BY <2>1, <2>2, <2>4, <2>5
       DEF Type, Lookup, Read, DisconnectHost, DisconnectNil, Kill, CheckName, MakeWorkSpace,
           Health, Waited, RemoveName
<1>6. e.pc = "kill" => \A p \in Live' : procs'[p].ip # NilIP => procs'[p].owner # e.id
  <2> SUFFICES ASSUME e.pc = "kill", NEW p \in Live', procs'[p].ip # NilIP,
                      procs'[p].owner = e.id
               PROVE  FALSE
    OBVIOUS
  <2>1. c.pc = "disconnect" /\ c.info = info[c.id]
    BY <1>1, <1>2 DEF Knows, Current
  <2>2. e.id = c.id /\ c.info.kind # "bridge"
    <3>1. CASE DisconnectNil(t)
      <4>1. e = Rest
        BY <1>1, <3>1 DEF DisconnectNil, Return
      <4> QED
        BY <4>1 DEF Rest
    <3>2. CASE DisconnectHost(t)
      <4>1. c.info.kind = "host" /\ e = Disconnected(c) /\ UNCHANGED <<info, procs>>
        BY <1>1, <3>2 DEF DisconnectHost
      <4>2. Live' = Live
        BY <4>1 DEF Live
      <4> QED
        BY <2>1, <4>1, <4>2, DisconnectedTidy
    <3>3. DisconnectHost(t) \/ DisconnectNil(t)
      BY <2>1 DEF Type, Lookup, Read, Check, Kill, RecordPaused, CheckName, MakeWorkSpace,
                  Health, Waited, RemoveName, DeleteWorkSpace
    <3> QED
      BY <3>1, <3>2, <3>3
  <2>3. info[c.id].kind = "bridge"
    BY <1>2, <1>4, <2>2 DEF Links
  <2> QED
    BY <2>1, <2>2, <2>3
<1> HIDE DEF e
<1> QED
  BY <1>2, <1>3, <1>4, <1>5, <1>6, CarryIdle DEF e

\* The link of a container goes before its process is signalled.
LEMMA DisconnectLinks ==
  ASSUME Calm, TidyInv, TidyInv', NEW t \in Terminals, Links(term[t]), DisconnectBridge(t)
  PROVE  /\ Links(term[t])'
         /\ \A p \in Live' : procs'[p].ip # NilIP =>
              /\ p \in Live /\ procs'[p] = procs[p]
              /\ procs[p].owner \in DOMAIN info /\ procs[p].owner # term[t].id
<1> DEFINE c == term[t]
           e == term'[t]
<1>1. /\ IInv /\ Tidy(t) /\ Knows(c, names, info) /\ c.pc = "disconnect"
      /\ procs' = Unlinked(c.id, c.info) /\ UNCHANGED info
  BY TidyKnown DEF DisconnectBridge
<1>2. ~Begun(c) /\ ~Begun(e)
  BY IdleSteps
<1>3. ProcsTidy(term[t])'
  BY DEF TidyInv, Tidy
<1>4. c.info = info[c.id]
  BY <1>1 DEF Knows, Current
<1>5. \A p \in Live : procs[p].owner \in DOMAIN info /\ info[procs[p].owner].pid = p
  BY <1>1, <1>2 DEF Tidy, ProcsTidy
<1>6. ASSUME NEW p \in Live', procs'[p].ip # NilIP
      PROVE  /\ p \in Live /\ procs'[p] = procs[p]
             /\ procs[p].owner \in DOMAIN info /\ procs[p].owner # c.id
  <2>1. p \in Live
    BY <1>1 DEF Unlinked, Live
  <2>2. procs[p] \in SafeProc
    BY <1>1, <2>1 DEF IInv, ProcsSafe, IsFile, Live
  <2>3. [procs[p] EXCEPT !.ip = NilIP].ip = NilIP
    BY <2>2 DEF SafeProc, ProcType
  <2>4. ~(p = c.info.pid /\ procs[p].owner = c.id) /\ procs'[p] = procs[p]
    BY <1>1, <1>6, <2>1, <2>3 DEF Unlinked
  <2> QED
    BY <1>4, <1>5, <2>1, <2>4
<1>7. e.id = c.id \/ e.pc # "kill"
  <2>1. CASE Return(t)
    <3>1. e = Rest
      BY <2>1, TidyKnown DEF Return
    <3> QED
      BY <3>1 DEF Rest
  <2>2. CASE e = Disconnected(c)
    <3>1. Live' = Live
      BY <1>1 DEF Unlinked, Live
    <3> QED
      BY <1>1, <2>2, <3>1, DisconnectedTidy
  <2> QED
    BY <2>1, <2>2, TidyKnown DEF DisconnectBridge
<1>8. Links(term[t])'
  <2> HIDE DEF e
  <2>1. e.pc = "kill" => \A p \in Live' : procs'[p].ip # NilIP => procs'[p].owner # e.id
    BY <1>6, <1>7
  <2> QED
    BY <1>1, <1>2, <1>3, <1>6, <2>1, LinksIdle DEF e
<1> QED
  BY <1>6, <1>8

\* A process is started without a link.
LEMMA SpawnCarries ==
  ASSUME Calm, TidyInv, TidyInv', NEW t \in Terminals, Links(term[t]), Spawn(t)
  PROVE  Carries(t)
<1> DEFINE c == term[t]
           e == term'[t]
           Up(p) == [c.info EXCEPT !.status = "Running", !.pid = p]
           Out(p) == [Up(p) EXCEPT !.kind = "host"]
<1>1. /\ Tidy(t) /\ IInv /\ Knows(c, names, info) /\ c.pc = "spawn" /\ c \in CommandType
      /\ UNCHANGED <<info, subnets>> /\ ~Begun(c)
  BY TidyKnown DEF Spawn, Begun
<1>2. c.info \in SafeInfo /\ c.phase = "self"
  BY <1>1, AtBegun
<1>3. PICK p \in FreshPids :
        /\ procs' = With(procs, p, [owner |-> c.id, ip |-> NilIP])
        /\ \/ e = [c EXCEPT !.info = Up(p), !.pc = "allocate"]
           \/ e = [c EXCEPT !.info = Out(p), !.pc = AfterConnect(c)]
  BY TidyKnown DEF Spawn
<1>4. Up(p).pid = p /\ Out(p).pid = p /\ Out(p).kind = "host"
  BY <1>2 DEF SafeInfo, InfoType
<1> HIDE DEF Up, Out
<1>5. /\ e.phase = "self" /\ e.id = c.id /\ e.info.pid = p
      /\ e.pc = "allocate" \/ (e.pc \in {"nameread", "record"} /\ e.info.kind = "host")
  <2>1. PICK r, pc :
          /\ e = [c EXCEPT !.info = r, !.pc = pc]
          /\ r.pid = p
          /\ pc = "allocate" \/ (pc \in {"nameread", "record"} /\ r.kind = "host")
    BY <1>3, <1>4 DEF AfterConnect
  <2>2. e.pc = pc /\ e.phase = c.phase /\ e.id = c.id /\ e.info = r
    BY <1>1, <2>1, Fields
  <2> HIDE DEF e
  <2> QED
    BY <1>2, <2>1, <2>2
<1>6. /\ p \notin Live /\ Live' = Live \cup {p}
      /\ procs'[p].owner = c.id /\ procs'[p].ip = NilIP
      /\ \A q \in Live : procs'[q] = procs[q]
  BY <1>3, NewPid DEF Live, With
<1>7. CommandTidy(term[t])'
  BY DEF TidyInv, Tidy
<1>8. Begun(e) /\ Taken(e) = {}
  <2>1. Begun(e)
    BY <1>5 DEF Begun
  <2>2. e.info.kind = "host" => e.info.ip = NilIP
    BY <1>7, <2>1 DEF CommandTidy, Sane
  <2> HIDE DEF e
  <2> QED
    BY <1>5, <2>1, <2>2 DEF Taken
<1>9. Links(term[t])'
  <2>1. ASSUME NEW q \in Live', procs'[q].ip # NilIP
        PROVE  /\ q # e.info.pid
               /\ info'[procs'[q].owner].kind = "bridge" /\ procs'[q].ip = info'[procs'[q].owner].ip
    <3>1. q \in Live /\ q # p /\ procs'[q] = procs[q]
      BY <1>6, <2>1
    <3>2. info[procs[q].owner].kind = "bridge" /\ procs[q].ip = info[procs[q].owner].ip
      BY <1>1, <2>1, <3>1 DEF Links
    <3> HIDE DEF e
    <3> QED
      BY <1>1, <1>5, <3>1, <3>2
  <2> HIDE DEF e
  <2>2. e.pc # "kill"
    BY <1>5
  <2> QED
    BY <1>5, <1>6, <2>1, <2>2 DEF Links, e
<1>10. Holders' = Holders /\ LeasedIn(subnets) = LeasedIn(subnets')
  BY <1>1 DEF Holders
<1> HIDE DEF e
<1> QED
  BY <1>1, <1>6, <1>8, <1>9, <1>10 DEF Carries, Holders, e

\* A command whose container's process runs goes on.
LEMMA LinksBegun ==
  ASSUME NEW t \in Terminals, Links(term[t]), NEW c, c = term[t], NEW e, e = term'[t],
         Begun(c), Begun(e), e.id = c.id, e.info.pid = c.info.pid, UNCHANGED <<info, procs>>,
         c.info.pid \in Live /\ procs[c.info.pid].ip # NilIP =>
           e.pc \notin {"allocate", "attach"} /\ e.info.ip = c.info.ip
  PROVE  Links(term[t])'
<1>1. Live' = Live /\ e.pc # "kill"
  BY DEF Live, Begun
<1> QED
  BY <1>1 DEF Links

LEMMA AllocateCarries ==
  ASSUME Calm, TidyInv, TidyInv', NEW t \in Terminals, Links(term[t]), AllocateAddress(t)
  PROVE  Carries(t)
<1> DEFINE c == term[t]
           e == term'[t]
           Given(a) == [c EXCEPT !.info.kind = "bridge", !.info.ip = a, !.pc = "attach"]
<1>1. /\ IInv /\ c.pc = "allocate" /\ c \in CommandType /\ Knows(c, names, info)
      /\ UNCHANGED <<info, procs>> /\ Live' = Live /\ Net \in DOMAIN subnets
  BY TidyKnown DEF AllocateAddress, Live
<1>2. c.phase = "self" /\ c.info \in SafeInfo /\ c.id \in Ids
  <2>1. SafeCommand(c)
    BY TidyKnown
  <2> QED
    BY <1>1, <2>1, AtBegun, KnowsIds
<1>3. PICK a :
        /\ e = Given(a)
        /\ \/ a = NilIP /\ UNCHANGED subnets
           \/ /\ FreeBits(subnets, Net) # {} /\ a = AddrOf(Net, FirstFree(subnets, Net))
              /\ subnets' = WithBit(subnets, Net, FirstFree(subnets, Net))
  BY TidyKnown DEF AllocateAddress
<1>4. /\ e.phase = c.phase /\ e.id = c.id /\ e.pc = "attach"
      /\ e.info.pid = c.info.pid /\ e.info.ip = a
  <2> DEFINE r == [c.info EXCEPT !.kind = "bridge", !.ip = a]
  <2>1. r.pid = c.info.pid /\ r.ip = a
    BY <1>2 DEF SafeInfo, InfoType
  <2>2. e = [c EXCEPT !.info = r, !.pc = "attach"]
    BY <1>1, <1>3 DEF CommandType
  <2>3. e.phase = c.phase /\ e.id = c.id /\ e.pc = "attach" /\ e.info = r
    BY <1>1, <2>2, Fields
  <2> HIDE DEF r, e
  <2> QED
    BY <2>1, <2>3
<1>5. /\ LeasedIn(subnets) \subseteq LeasedIn(subnets')
      /\ a # NilIP => a \in Block(Net) \ LeasedIn(subnets)
  <2>1. CASE UNCHANGED subnets /\ a = NilIP
    <3>1. LeasedIn(subnets) = LeasedIn(subnets')
      BY <2>1
    <3> QED
      BY <2>1, <3>1
  <2>2. CASE /\ FreeBits(subnets, Net) # {} /\ a = AddrOf(Net, FirstFree(subnets, Net))
             /\ subnets' = WithBit(subnets, Net, FirstFree(subnets, Net))
    <3> DEFINE o == FirstFree(subnets, Net)
    <3>1. o \in FreeBits(subnets, Net)
      BY <2>2, NetFacts, FirstFreeIsFree
    <3>2. a \notin LeasedIn(subnets) /\ LeasedIn(subnets') = LeasedIn(subnets) \cup {a}
      BY <1>1, <2>2, <3>1, LeasedWithBit DEF IInv, SubnetsSafe
    <3>3. a \in Block(Net)
      BY <2>2, <3>1 DEF FreeBits, Block
    <3> QED
      BY <3>2, <3>3
  <2> QED
    BY <1>3, <2>1, <2>2
<1> HIDE DEF e
<1>6. Begun(c) /\ Begun(e) /\ Taken(e) = (IF a = NilIP THEN {} ELSE {a})
  BY <1>1, <1>2, <1>4 DEF Begun, Taken
<1>7. c.info.pid \in Live => procs[c.info.pid].ip = NilIP
  BY <1>1, <1>6 DEF Links
<1>8. Links(term[t])'
  BY <1>1, <1>4, <1>6, <1>7, LinksBegun DEF e
<1>9. Holders' = Holders
  BY <1>1 DEF Holders
<1> QED
  BY <1>1, <1>2, <1>4, <1>5, <1>6, <1>8, <1>9 DEF Carries, Holders, e

LEMMA NamingCarries ==
  ASSUME Calm, TidyInv, TidyInv', NEW t \in Terminals, Links(term[t]),
         ReadNames(t) \/ RecordName(t)
  PROVE  Carries(t)
<1> DEFINE c == term[t]
           e == term'[t]
<1>1. /\ IInv /\ c \in CommandType /\ Place(c) /\ UNCHANGED <<info, procs, subnets>>
      /\ Live' = Live /\ c.pc \in {"nameread", "namewrite"}
  BY TidyKnown DEF ReadNames, RecordName, Live, Knows
<1>2. /\ e.phase = c.phase /\ e.id = c.id /\ e.info = c.info
      /\ e.pc \in {"namewrite", "record"} /\ (e.pc = "record" => c.phase = "self")
  <2>1. CASE ReadNames(t)
    <3>1. e = [c EXCEPT !.copy = names, !.pc = "namewrite"]
      BY <1>1, <2>1 DEF ReadNames, IInv, TermsSafe
    <3> QED
      BY <1>1, <3>1, Fields
  <2>2. CASE RecordName(t)
    <3>1. e = [c EXCEPT !.copy = NoFile, !.pc = "record"] /\ c.phase = "self"
      BY <2>2, TidyKnown DEF RecordName
    <3> QED
      BY <1>1, <3>1, Fields
  <2> QED
    BY <2>1, <2>2
<1> HIDE DEF e
<1>3. LeasedIn(subnets) = LeasedIn(subnets') /\ Holders' = Holders
  BY <1>1 DEF Holders
<1>4. Links(term[t])'
  <2>1. CASE c.phase = "self"
    <3>1. Begun(c) /\ Begun(e) /\ e.pc \notin {"allocate", "attach"}
      BY <1>1, <1>2, <2>1 DEF Begun
    <3> QED
      BY <1>1, <1>2, <3>1, LinksBegun DEF e
  <2>2. CASE c.phase # "self"
    <3>1. ~Begun(c) /\ ~Begun(e) /\ e.pc # "kill"
      BY <1>1, <1>2, <2>2 DEF Begun
    <3>2. ProcsTidy(term[t])'
      BY DEF TidyInv, Tidy
    <3> QED
      BY <1>1, <3>1, <3>2, LinksIdle DEF e
  <2> QED
    BY <2>1, <2>2
<1>5. Taken(e) = Taken(c)
  BY <1>1, <1>2 DEF Taken, Begun
<1> QED
  BY <1>1, <1>2, <1>3, <1>4, <1>5 DEF Carries, Holders, e

\* The record takes the link over from the command.
LEMMA RecordCarries ==
  ASSUME Calm, TidyInv, TidyInv', NEW t \in Terminals, Links(term[t]), Record(t)
  PROVE  Carries(t)
<1> DEFINE c == term[t]
           e == term'[t]
<1>1. /\ IInv /\ Tidy(t) /\ Knows(c, names, info) /\ c \in CommandType /\ c.pc = "record"
      /\ info' = With(info, c.id, c.info) /\ UNCHANGED <<procs, subnets>> /\ Live' = Live
      /\ SafeCommand(c)
  BY TidyKnown DEF Record, Live
<1>2. /\ Begun(c) /\ Sane(c.info)
      /\ c.id \notin DOMAIN info \/ info[c.id].pid \notin Live
  <2>1. Begun(c) /\ c.own = c.id /\ c.cmd \in {"run", "start"} /\ c.phase = "self"
    BY <1>1 DEF Knows, Place, Begun
  <2>2. c.cmd = "run" => c.id \notin DOMAIN info
    BY <1>1, <2>1 DEF Knows, Fresh
  <2>3. c.cmd = "start" => info[c.id].pid \notin Live
    BY <1>1, <2>1 DEF Tidy, CommandTidy, Starting, Ended
  <2> QED
    BY <1>1, <2>1, <2>2, <2>3 DEF Tidy, CommandTidy
<1>3. e.pc \in {"rest", "wait"}
  <2>1. CASE Goto(t, "wait")
    <3>1. e = [c EXCEPT !.pc = "wait"]
      BY <1>1, <2>1, TidyKnown, GotoIsBecome
    <3> QED
      BY <1>1, <3>1, Fields
  <2>2. CASE Return(t)
    <3>1. e = Rest
      BY <2>2, TidyKnown DEF Return
    <3> QED
      BY <3>1 DEF Rest
  <2> QED
    BY <2>1, <2>2 DEF Record
<1> HIDE DEF e
<1>4. ~Begun(e) /\ Taken(e) = {} /\ e.pc # "kill"
  BY <1>3 DEF Begun, Taken
<1>5. /\ DOMAIN info' = DOMAIN info \cup {c.id} /\ info'[c.id] = c.info
      /\ \A i \in DOMAIN info : i # c.id => info'[i] = info[i]
  BY <1>1 DEF With
<1>6. \A p \in Live : procs[p].ip # NilIP =>
        info'[procs[p].owner].kind = "bridge" /\ procs[p].ip = info'[procs[p].owner].ip
  <2> SUFFICES ASSUME NEW p \in Live, procs[p].ip # NilIP
               PROVE  /\ info'[procs[p].owner].kind = "bridge"
                      /\ procs[p].ip = info'[procs[p].owner].ip
    OBVIOUS
  <2>1. CASE c.info.pid = p
    <3>1. procs[p].owner = c.id /\ procs[p].ip = c.info.ip
      BY <1>2, <2>1 DEF Links
    <3> QED
      BY <1>2, <1>5, <3>1 DEF Sane
  <2>2. CASE c.info.pid # p
    <3>1. procs[p].owner \in DOMAIN info /\ info[procs[p].owner].pid = p
      BY <1>1, <2>2 DEF Tidy, ProcsTidy
    <3>2. procs[p].owner # c.id
      BY <1>2, <3>1
    <3>3. info[procs[p].owner].kind = "bridge" /\ procs[p].ip = info[procs[p].owner].ip
      BY <2>2 DEF Links
    <3> QED
      BY <1>5, <3>1, <3>2, <3>3
  <2> QED
    BY <2>1, <2>2
<1>7. Links(term[t])'
  BY <1>1, <1>4, <1>6 DEF Links, e
<1>8. \A i \in Holders' : \/ i \in Holders /\ info'[i].ip = info[i].ip
                          \/ i = c.id /\ info'[i].ip \in Taken(c)
  <2> TAKE i \in Holders'
  <2>1. i \in DOMAIN info' /\ info'[i].ip # NilIP
    BY DEF Holders
  <2>2. CASE i = c.id
    BY <1>1, <1>2, <1>5, <2>1, <2>2 DEF Taken
  <2>3. CASE i # c.id
    <3>1. i \in DOMAIN info /\ info'[i] = info[i]
      BY <1>5, <2>1, <2>3
    <3> QED
      BY <3>1 DEF Holders
  <2> QED
    BY <2>2, <2>3
<1>9. LeasedIn(subnets) = LeasedIn(subnets')
  BY <1>1
<1> QED
  BY <1>1, <1>4, <1>7, <1>8, <1>9 DEF Carries, e

\* The step that configures the link.
LEMMA AttachLinks ==
  ASSUME Calm, TidyInv, TidyInv', NEW t \in Terminals, Links(term[t]), Attach(t),
         NEW c, c = term[t], NEW e, e = term'[t]
  PROVE  /\ Links(term[t])'
         /\ UNCHANGED <<info, subnets>> /\ Holders' = Holders /\ Taken(e) = Taken(c)
         /\ Begun(c) /\ Begun(e) /\ e.pc \in {"nameread", "record"} /\ e.id = c.id
         /\ c.id \in Ids /\ c.info = e.info
         /\ \A p \in Live' : procs'[p].ip # NilIP =>
              \/ p \in Live /\ procs'[p] = procs[p]
              \/ p = c.info.pid /\ procs'[p].owner = c.id /\ procs'[p].ip = c.info.ip
         /\ procs' # procs => c.info.ip \in Block(Net) /\ c.info.ip # NilIP
<1>1. /\ IInv /\ c.pc = "attach" /\ c \in CommandType /\ Knows(c, names, info)
      /\ UNCHANGED <<info, subnets>> /\ e = [c EXCEPT !.pc = AfterConnect(c)]
      /\ SafeCommand(c)
  BY TidyKnown, GotoIsBecome DEF Attach
<1>2. e.phase = c.phase /\ e.id = c.id /\ e.info = c.info /\ e.pc = AfterConnect(c)
  BY <1>1, Fields
<1>3. c.phase = "self" /\ c.id \in Ids
  BY <1>1, AtBegun, KnowsIds
<1>4. Begun(c) /\ Begun(e) /\ e.pc \in {"nameread", "record"} /\ e.pc # "kill"
  BY <1>1, <1>2, <1>3 DEF Begun, AfterConnect
<1>5. Taken(e) = Taken(c)
  BY <1>1, <1>2, <1>4 DEF Taken
<1>6. Holders' = Holders
  BY <1>1 DEF Holders
<1>7. \A p \in Live : procs[p] \in SafeProc
  BY <1>1 DEF IInv, ProcsSafe, IsFile, Live
<1>8. /\ Live' = Live
      /\ \A p \in Live : p # c.info.pid => procs'[p] = procs[p]
      /\ \A p \in Live : procs'[p].owner = procs[p].owner
      /\ \/ procs' = procs
         \/ c.info.pid \in Live /\ procs'[c.info.pid].ip = c.info.ip
  <2>1. CASE procs' = procs
    BY <2>1 DEF Live
  <2>2. CASE /\ c.info.pid \in Live
             /\ procs' = [procs EXCEPT ![c.info.pid].ip = c.info.ip]
    <3> DEFINE q == [procs[c.info.pid] EXCEPT !.ip = c.info.ip]
    <3>1. q.ip = c.info.ip /\ q.owner = procs[c.info.pid].owner
      BY <1>7, <2>2 DEF SafeProc, ProcType
    <3>2. procs' = [procs EXCEPT ![c.info.pid] = q]
      BY <2>2
    <3> HIDE DEF q
    <3> QED
      BY <2>2, <3>1, <3>2 DEF Live
  <2> QED
    BY <1>1, <2>1, <2>2 DEF Attach
<1>9. c.info.pid \in Live => procs[c.info.pid].ip = NilIP /\ procs[c.info.pid].owner = c.id
  BY <1>1, <1>4 DEF Links
<1>10. \A p \in Live' : procs'[p].ip # NilIP =>
              \/ p \in Live /\ procs'[p] = procs[p]
              \/ p = c.info.pid /\ procs'[p].owner = c.id /\ procs'[p].ip = c.info.ip
  BY <1>8, <1>9
<1>11. Links(term[t])'
  <2>1. \A p \in Live' : procs'[p].ip # NilIP =>
          IF e.info.pid = p
            THEN e.pc \notin {"allocate", "attach"} /\ procs'[p].ip = e.info.ip
            ELSE info'[procs'[p].owner].kind = "bridge" /\ procs'[p].ip = info'[procs'[p].owner].ip
    <3> TAKE p \in Live'
    <3>1. CASE p = c.info.pid
      BY <1>2, <1>4, <1>8, <1>9, <3>1
    <3>2. CASE p # c.info.pid
      <4>1. procs'[p] = procs[p] /\ p \in Live
        BY <1>8, <3>2
      <4>2. procs[p].ip # NilIP =>
              info[procs[p].owner].kind = "bridge" /\ procs[p].ip = info[procs[p].owner].ip
        BY <3>2, <4>1 DEF Links
      <4> QED
        BY <1>1, <1>2, <3>2, <4>1, <4>2
    <3> QED
      BY <3>1, <3>2
  <2>2. e.info.pid \in Live' => procs'[e.info.pid].owner = e.id
    BY <1>2, <1>8, <1>9
  <2> QED
    BY <1>4, <2>1, <2>2 DEF Links
<1>12. ASSUME procs' # procs PROVE c.info.ip \in Block(Net) /\ c.info.ip # NilIP
  <2>1. c.info \in SafeInfo
    BY <1>1, AtBegun
  <2>2. c.info.ip # NilIP
    <3> SUFFICES ASSUME c.info.ip = NilIP PROVE procs' = procs
      BY <1>12
    <3>1. \A p \in Live : procs'[p].ip = procs[p].ip /\ procs'[p].owner = procs[p].owner
      BY <1>8, <1>9
    <3>2. /\ procs = [p \in Live |-> procs[p]] /\ procs' = [p \in Live' |-> procs'[p]]
          /\ \A p \in Live' : procs'[p] \in SafeProc
      BY <1>1 DEF TidyInv, SoloInv, IInv, ProcsSafe, IsFile, Live
    <3>3. \A r, q \in SafeProc : r.ip = q.ip /\ r.owner = q.owner => r = q
      BY DEF SafeProc, ProcType
    <3>4. \A p \in Live : procs'[p] = procs[p]
      BY <1>7, <1>8, <3>1, <3>2, <3>3
    <3> QED
      BY <1>8, <3>2, <3>4
  <2> QED
    BY <2>1, <2>2 DEF SafeInfo, InfoType
<1> QED
  BY <1>1, <1>2, <1>3, <1>4, <1>5, <1>6, <1>8, <1>10, <1>11, <1>12

\* A process that exits takes its link with it.
LEMMA ExitCarries ==
  ASSUME Calm, TidyInv, TidyInv', NEW t \in Terminals, Links(term[t]), NEW q \in Live, Exit(q)
  PROVE  Carries(t)
<1> DEFINE c == term[t]
           e == term'[t]
<1>1. /\ Knows(c, names, info) /\ c.pc \in {"rest", "wait"} /\ procs' = Without(procs, {q})
      /\ UNCHANGED <<info, subnets, term>>
  BY TidyKnown DEF Exit, Calm, AllQuiet, Quiet
<1>2. ~Begun(c) /\ c.pc \notin {"attach", "kill"} /\ e = c
  BY <1>1 DEF Begun
<1>3. ProcsTidy(term[t])'
  BY DEF TidyInv, Tidy
<1>4. \A p \in Live' : p \in Live /\ procs'[p] = procs[p]
  BY <1>1 DEF Live, Without
<1> HIDE DEF e
<1> QED
  BY <1>1, <1>2, <1>3, <1>4, CarryIdle DEF e

\* So for every step that does not configure or delete a link.
LEMMA StepCarries ==
  ASSUME Calm, TidyInv, TidyInv', NEW t \in Terminals, Links(term[t]),
         Type(t) \/ (Step(t) /\ ~Attach(t) /\ ~DisconnectBridge(t))
  PROVE  Carries(t)
<1>1. ~AllocateFails(t)
  BY TidyKnown DEF AllocateFails, Tidy, NetworkTidy
<1>2. CASE Spawn(t)
  BY <1>2, SpawnCarries
<1>3. CASE AllocateAddress(t)
  BY <1>3, AllocateCarries
<1>4. CASE ReadNames(t) \/ RecordName(t)
  BY <1>4, NamingCarries
<1>5. CASE Record(t)
  BY <1>5, RecordCarries
<1>6. CASE \/ Type(t) \/ Lookup(t) \/ Read(t) \/ Check(t)
           \/ DisconnectHost(t) \/ DisconnectNil(t)
           \/ Kill(t) \/ RecordPaused(t) \/ CheckName(t) \/ MakeWorkSpace(t) \/ Health(t)
           \/ Waited(t) \/ RemoveName(t) \/ DeleteWorkSpace(t)
  BY <1>6, IdleCarries
<1> QED
  BY <1>1, <1>2, <1>3, <1>4, <1>5, <1>6 DEF Step

-----------------------------------------------------------------------------
(* The steps that append and delete no rule.                                *)

\* Only the commands that JobOK names are at a rule.
LEMMA DoneElsewhere ==
  ASSUME NEW c, NEW w, JobOK(c, w),
         c.pc \notin {"record", "nameread", "kill", "health", "read"}
  PROVE  w = Done
  BY DEF JobOK

LEMMA DoneFacts == Done.job = "none" /\ \A c : JobOK(c, Done)
  BY DEF Done, JobOK

\* No rules are the rules of any container that has none.
LEMMA NoTraces ==
  ASSUME NEW i \in Ids
  PROVE  Traces(i, NoRules)
<1>1. Counted(i, {}) = NoRules /\ Prefix(i, {}) /\ {} \in SUBSET Positions(i)
  BY CountedNone, PrefixAll
<1> QED
  BY <1>1 DEF Traces

LEMMA CarryTidy ==
  ASSUME NEW t \in Terminals, PortsTidy(t), Carries(t), IInv', 
         todo[t] = Done, todo'[t] = Done, UNCHANGED <<rules, refused>>
  PROVE  PortsTidy(t)'
<1> DEFINE c == term[t]
           e == term'[t]
<1>1. /\ RulesEnough(c, Done) /\ (Tracked => TracesOK(c, Done)) /\ Done.job = "none"
      /\ c.pc # "attach"
  BY DoneFacts DEF PortsTidy, Carries
<1>2. \A o, p, d : Made(o, p, d, Done) = Positions(o)
  BY <1>1 DEF Made
<1>3. RulesEnough(term[t], todo[t])'
  BY <1>1, <1>2 DEF RulesEnough, Carries
<1>4. ASSUME Tracked' PROVE TracesOK(term[t], todo[t])'
  <2>1. /\ \A a \in Block(Net) :
             a = Gateway(Net) \/ a \notin LeasedIn(subnets) => rules[a] = NoRules
        /\ \A i \in Holders : Traces(i, rules[info[i].ip])
        /\ \A a \in Taken(c) : Traces(c.id, rules[a])
    <3>1. Tracked
      BY <1>4 DEF Tracked, LosesTrack
    <3> QED
      BY <1>1, <3>1 DEF TracesOK
  <2>2. \A a \in Block(Net) :
          a = Gateway(Net) \/ a \notin LeasedIn(subnets') => rules'[a] = NoRules
    BY <2>1 DEF Carries
  <2>3. \A i \in Holders' : Traces(i, rules'[info'[i].ip])
    BY <2>1 DEF Carries
  <2>4. ASSUME NEW a \in Taken(e)
        PROVE  IF e.pc = "attach" THEN rules'[a] = NoRules ELSE Traces(e.id, rules'[a])
    <3>1. CASE a \in Taken(c) /\ e.id = c.id /\ e.pc # "attach"
      BY <2>1, <3>1
    <3>2. CASE a \in Block(Net) \ LeasedIn(subnets) /\ e.id \in Ids
      <4>1. rules'[a] = NoRules
        BY <2>1, <3>2
      <4> QED
        BY <3>2, <4>1, NoTraces
    <3> QED
      BY <3>1, <3>2 DEF Carries
  <2> HIDE DEF e
  <2> QED
    BY <1>1, <2>2, <2>3, <2>4 DEF TracesOK, Traces, e
<1>5. Links(term[t])' /\ JobOK(term[t], todo[t])'
  BY DoneFacts DEF Carries, JobOK
<1> QED
  BY <1>3, <1>4, <1>5 DEF PortsTidy

LEMMA ElsewhereTidy ==
  ASSUME Calm, PortsInv, TidyInv', NEW t \in Terminals, Elsewhere
  PROVE  PortsTidy(t)' /\ RulesTyped'
<1>1. TidyInv /\ PortsTidy(t) /\ Links(term[t]) /\ JobOK(term[t], todo[t]) /\ IInv'
  BY DEF PortsInv, PortsTidy, TidyInv, SoloInv
<1>2. /\ todo' = [u \in Terminals |-> IF term'[u] = Rest THEN Done ELSE todo[u]]
      /\ UNCHANGED <<rules, refused>>
  BY DEF Elsewhere
<1>3. RulesTyped'
  BY <1>2 DEF PortsInv, RulesTyped
<1>4. todo[t] = Done => todo'[t] = Done
  BY <1>2
<1>5. \/ Type(t)
      \/ todo[t] = Done /\ Step(t) /\ ~Attach(t) /\ ~DisconnectBridge(t)
      \/ \E p \in Live : Exit(p)
  BY DEF Elsewhere, Calm, Serial, Crash, DeleteNetwork, CreateNetwork
<1>6. CASE Type(t)
  <2>1. todo[t] = Done
    BY <1>1, <1>6, DoneElsewhere DEF Type
  <2> QED
    BY <1>1, <1>2, <1>3, <1>4, <1>6, <2>1, StepCarries, CarryTidy
<1>7. CASE todo[t] = Done /\ Step(t) /\ ~Attach(t) /\ ~DisconnectBridge(t)
  BY <1>1, <1>2, <1>3, <1>4, <1>7, StepCarries, CarryTidy
<1>8. CASE \E p \in Live : Exit(p)
  <2>1. PICK p \in Live : Exit(p)
    BY <1>8
  <2>2. term[t].pc \in {"rest", "wait"}
    BY <2>1 DEF Exit, Calm, AllQuiet, Quiet
  <2>3. todo[t] = Done
    BY <1>1, <2>2, DoneElsewhere
  <2> QED
    BY <1>1, <1>2, <1>3, <1>4, <2>1, <2>3, ExitCarries, CarryTidy
<1> QED
  BY <1>5, <1>6, <1>7, <1>8

-----------------------------------------------------------------------------
(* Connect and Disconnect come to the rules.                                *)

\* The rules of a link that has just been configured are yet to be appended.
LEMMA MapPortsTidy ==
  ASSUME Calm, PortsInv, TidyInv', NEW t \in Terminals, MapPorts(t) \/ MapNothing(t)
  PROVE  PortsTidy(t)' /\ RulesTyped'
<1> DEFINE c == term[t]
           e == term'[t]
           v == todo'[t]
<1>1. /\ TidyInv /\ PortsTidy(t) /\ Links(c) /\ JobOK(c, todo[t]) /\ RulesTyped
      /\ Attach(t) /\ UNCHANGED <<rules, refused>> /\ c.pc = "attach"
  BY DEF PortsInv, PortsTidy, MapPorts, MapNothing, Attach
<1>2. todo[t] = Done
  BY <1>1, DoneElsewhere
<1>3. /\ Links(term[t])'
      /\ UNCHANGED <<info, subnets>> /\ Holders' = Holders /\ Taken(e) = Taken(c)
      /\ Begun(c) /\ Begun(e) /\ e.pc \in {"nameread", "record"} /\ e.id = c.id
      /\ c.id \in Ids /\ c.info = e.info
      /\ \A p \in Live' : procs'[p].ip # NilIP =>
           \/ p \in Live /\ procs'[p] = procs[p]
           \/ p = c.info.pid /\ procs'[p].owner = c.id /\ procs'[p].ip = c.info.ip
      /\ procs' # procs => c.info.ip \in Block(Net) /\ c.info.ip # NilIP
  BY <1>1, AttachLinks
<1>4. RulesTyped'
  BY <1>1 DEF RulesTyped, MapPorts, MapNothing
<1>5. \/ v = Done /\ (procs' = procs \/ Positions(c.id) = {})
      \/ /\ v = [job |-> "append", at |-> <<1, 1>>] /\ v.job = "append" /\ v.at = <<1, 1>>
         /\ <<1, 1>> \in Positions(c.id) /\ Before(c.id, <<1, 1>>) = {} /\ procs' # procs
  <2>1. CASE MapPorts(t)
    <3>1. v = Begin("append", c.id) /\ procs' # procs
      BY <1>1, <2>1 DEF MapPorts, RulesTyped
    <3> HIDE DEF v
    <3> QED
      BY <1>3, <3>1, BeginAt
  <2>2. CASE MapNothing(t)
    BY <1>2, <2>2 DEF MapNothing
  <2> QED
    BY <1>1, <2>1, <2>2 DEF MapPorts, MapNothing
<1>6. /\ RulesEnough(c, Done) /\ Done.job = "none" /\ (Tracked => TracesOK(c, Done))
  BY <1>1, <1>2, DoneFacts DEF PortsTidy
<1> HIDE DEF e, v
<1>7. JobOK(e, v)
  BY <1>3, <1>5, DoneFacts DEF JobOK
<1>8. JobOK(term[t], todo[t])'
  <2>1. v.job # "delete"
    BY <1>5, <1>6
  <2> QED
    BY <1>7, <2>1 DEF JobOK, e, v
<1>9. \A p \in Live' : procs'[p].ip # NilIP /\ procs'[p].owner \notin refused =>
        \A k \in RuleKinds :
          rules[procs'[p].ip][k] >= Counted(procs'[p].owner, Made(procs'[p].owner, p, e, v))[k]
  <2> SUFFICES ASSUME NEW p \in Live', procs'[p].ip # NilIP, procs'[p].owner \notin refused,
                      NEW k \in RuleKinds
               PROVE  rules[procs'[p].ip][k]
                        >= Counted(procs'[p].owner, Made(procs'[p].owner, p, e, v))[k]
    OBVIOUS
  <2>1. CASE Made(procs'[p].owner, p, e, v) = {}
    <3>1. Counted(procs'[p].owner, {})[k] = 0
      BY CountedNone DEF NoRules
    <3>2. procs'[p] \in SafeProc
      BY DEF TidyInv, SoloInv, IInv, ProcsSafe, IsFile, Live
    <3>3. procs'[p].ip \in Block(Net)
      BY <3>2 DEF SafeProc, ProcType
    <3>4. rules[procs'[p].ip][k] \in Nat
      BY <1>1, <3>3 DEF RulesTyped
    <3> QED
      BY <2>1, <3>1, <3>4
  <2>2. CASE p \in Live /\ procs'[p] = procs[p] /\ Made(procs'[p].owner, p, e, v) = Positions(procs'[p].owner)
    <3>1. Made(procs[p].owner, p, c, Done) = Positions(procs[p].owner)
      BY <1>6 DEF Made
    <3> QED
      BY <1>6, <2>2, <3>1 DEF RulesEnough
  <2>3. CASE p = c.info.pid /\ procs' # procs
    <3>1. procs'[p].owner = c.id
      BY <1>3, <2>3 DEF Links, e
    <3> QED
      BY <1>3, <1>5, <1>6, <2>1, <2>3, <3>1 DEF Made
  <2>4. CASE p # c.info.pid \/ procs' = procs
    <3>1. p \in Live /\ procs'[p] = procs[p]
      BY <1>3, <2>4 DEF Live
    <3>2. Made(procs'[p].owner, p, e, v) = Positions(procs'[p].owner)
      BY <1>3, <1>5, <1>6, <2>4 DEF Made
    <3> QED
      BY <2>2, <3>1, <3>2
  <2> QED
    BY <2>3, <2>4
<1>10. RulesEnough(term[t], todo[t])'
  BY <1>1, <1>9 DEF RulesEnough, e, v
<1>11. ASSUME Tracked' PROVE TracesOK(term[t], todo[t])'
  <2>1. /\ \A a \in Block(Net) :
             a = Gateway(Net) \/ a \notin LeasedIn(subnets) => rules[a] = NoRules
        /\ \A i \in Holders : Traces(i, rules[info[i].ip])
        /\ \A a \in Taken(c) : rules[a] = NoRules
    <3>1. Tracked
      BY <1>1, <1>11 DEF Tracked, LosesTrack
    <3> QED
      BY <1>1, <1>6, <3>1 DEF TracesOK
  <2>2. Holders \subseteq DOMAIN info /\ v.job # "delete" /\ e.pc # "attach"
    BY <1>3, <1>5, <1>6 DEF Holders
  <2>3. ASSUME NEW a \in Taken(e)
        PROVE  IF v.job = "append" THEN rules[a] = Counted(e.id, Before(e.id, v.at))
               ELSE Traces(e.id, rules[a])
    <3>1. rules[a] = NoRules
      BY <1>3, <2>1, <2>3
    <3> QED
      BY <1>3, <1>5, <1>6, <3>1, CountedNone, NoTraces
  <2>4. LeasedIn(subnets') = LeasedIn(subnets)
    BY <1>3
  <2>5. \A i \in Holders' : Traces(i, rules'[info'[i].ip])
    BY <1>1, <1>3, <2>1
  <2> QED
    BY <1>1, <2>1, <2>2, <2>3, <2>4, <2>5 DEF TracesOK, Traces, e, v
<1> QED
  BY <1>3, <1>4, <1>8, <1>10, <1>11 DEF PortsTidy

\* The rules of an address that is released are yet to be deleted.
LEMMA UnmapPortsTidy ==
  ASSUME Calm, PortsInv, TidyInv', NEW t \in Terminals, UnmapPorts(t)
  PROVE  PortsTidy(t)' /\ RulesTyped'
<1> DEFINE c == term[t]
           e == term'[t]
           v == todo'[t]
           a == c.info.ip
<1>1. /\ TidyInv /\ PortsTidy(t) /\ Links(c) /\ JobOK(c, todo[t]) /\ RulesTyped
      /\ DisconnectBridge(t) /\ UNCHANGED <<rules, refused, info>>
      /\ c.pc = "disconnect" /\ c.info.kind = "bridge"
      /\ IInv /\ Tidy(t) /\ Knows(c, names, info) /\ c \in CommandType /\ SafeCommand(c)
  BY TidyKnown DEF PortsInv, PortsTidy, UnmapPorts, DisconnectBridge
<1>2. todo[t] = Done
  BY <1>1, DoneElsewhere
<1>3. /\ c.id \in DOMAIN info /\ c.info = info[c.id] /\ c.info.status # "Paused"
      /\ c.info \in SafeInfo /\ ~Begun(c) /\ Taken(c) = {} /\ Gone(c) = {} /\ ~Begun(e)
      /\ c.own = c.id /\ c.id \in Ids
  BY <1>1, AtDisconnect, IdleSteps, KnowsIds DEF Knows
<1>4. /\ Links(term[t])'
      /\ \A p \in Live' : procs'[p].ip # NilIP => p \in Live /\ procs'[p] = procs[p]
  BY <1>1, DisconnectLinks
<1>5. RulesTyped'
  BY <1>1 DEF RulesTyped, UnmapPorts
<1>6. /\ RulesEnough(c, Done) /\ Done.job = "none" /\ (Tracked => TracesOK(c, Done))
      /\ \A o, p, d : Made(o, p, d, Done) = Positions(o)
      /\ SubnetsSafe /\ Net \in DOMAIN subnets /\ Holders' = Holders
      /\ a \in Block(Net) \cup {NilIP} /\ a # Gateway(Net)
  <2>1. /\ RulesEnough(c, Done) /\ Done.job = "none" /\ (Tracked => TracesOK(c, Done))
        /\ \A o, p, d : Made(o, p, d, Done) = Positions(o)
    BY <1>1, <1>2, DoneFacts DEF PortsTidy, Made
  <2>2. SubnetsSafe /\ Net \in DOMAIN subnets /\ Holders' = Holders
    BY <1>1 DEF IInv, Tidy, NetworkTidy, Holders
  <2>3. a \in Block(Net) \cup {NilIP} /\ a # Gateway(Net)
    BY <1>3 DEF SafeInfo, InfoType
  <2> QED
    BY <2>1, <2>2, <2>3
<1>7. Tracked' => /\ \A b \in Block(Net) :
                       b = Gateway(Net) \/ b \notin LeasedIn(subnets) => rules[b] = NoRules
                  /\ \A i \in Holders : Traces(i, rules[info[i].ip])
  <2> SUFFICES ASSUME Tracked'
               PROVE  /\ \A b \in Block(Net) :
                           b = Gateway(Net) \/ b \notin LeasedIn(subnets) => rules[b] = NoRules
                      /\ \A i \in Holders : Traces(i, rules[info[i].ip])
    OBVIOUS
  <2>1. Tracked
    BY <1>1 DEF Tracked, LosesTrack
  <2> QED
    BY <1>6, <2>1 DEF TracesOK
<1>8. CASE ReleasePanics(subnets, Net, a)
  <2>1. v = Done /\ UNCHANGED subnets
    BY <1>2, <1>8 DEF UnmapPorts, DisconnectBridge
  <2>2. Taken(e) = {}
    BY <1>3 DEF Taken
  <2>3. JobOK(term[t], todo[t])'
    BY <2>1, DoneFacts DEF JobOK
  <2>4. RulesEnough(term[t], todo[t])'
    BY <1>1, <1>4, <1>6, <2>1 DEF RulesEnough
  <2>5. (Tracked => TracesOK(term[t], todo[t]))'
    BY <1>1, <1>6, <1>7, <2>1, <2>2 DEF TracesOK, Traces
  <2> QED
    BY <1>4, <1>5, <2>3, <2>4, <2>5 DEF PortsTidy
<1>9. CASE ~ReleasePanics(subnets, Net, a)
  <2>1. e = Disconnected(c) /\ subnets' = Released(subnets, Net, a)
    BY <1>1, <1>9, TidyKnown DEF DisconnectBridge
  <2>2. /\ a # NilIP /\ LeasedIn(subnets') = LeasedIn(subnets) \ {a} /\ a \in Block(Net)
    BY <1>6, <1>9, <2>1, LeasedReleased
  <2>3. e.pc \in {"kill", "health", "read"} /\ e.id = c.id /\ e.info = c.info
    <3>1. /\ [c EXCEPT !.pc = "kill"].pc = "kill" /\ [c EXCEPT !.pc = "kill"].id = c.id
          /\ [c EXCEPT !.pc = "kill"].info = c.info
          /\ [c EXCEPT !.pc = "health"].pc = "health" /\ [c EXCEPT !.pc = "health"].id = c.id
          /\ [c EXCEPT !.pc = "health"].info = c.info
      BY <1>1 DEF CommandType
    <3>2. Unregister(c).pc = "read" /\ Unregister(c).id = c.id /\ Unregister(c).info = c.info
      BY <1>1, <1>3, Fields
    <3>3. e \in {[c EXCEPT !.pc = "kill"], [c EXCEPT !.pc = "health"], Unregister(c)}
      BY <2>1 DEF Disconnected
    <3> HIDE DEF e
    <3> QED
      BY <3>1, <3>2, <3>3
  <2>4. \/ v = Done /\ Positions(c.id) = {}
        \/ /\ v = [job |-> "delete", at |-> <<1, 1>>] /\ v.job = "delete" /\ v.at = <<1, 1>>
           /\ <<1, 1>> \in Positions(c.id) /\ Before(c.id, <<1, 1>>) = {}
    <3>1. v = Begin("delete", c.id)
      BY <1>1, <1>9 DEF UnmapPorts, RulesTyped
    <3> HIDE DEF v
    <3> QED
      BY <1>3, <3>1, BeginAt
  <2>5. c.id \in Holders /\ info[c.id].ip = a
    BY <1>1, <1>3, <2>2 DEF Holders
  <2>6. Taken(e) = {}
    BY <1>3 DEF Taken
  <2> HIDE DEF e, v
  <2>7. \A o, p, d : Made(o, p, d, v) = Positions(o)
    BY <1>6, <2>4 DEF Made
  <2>8. JobOK(term[t], todo[t])'
    <3>1. v.job # "append" /\ (v.job # "none" => v # Done)
      BY <1>6, <2>4
    <3>2. v = Done \/ (v = [job |-> v.job, at |-> v.at] /\ v.job \in {"append", "delete"})
      BY <2>4
    <3> QED
      BY <1>1, <1>3, <1>6, <2>2, <2>3, <2>4, <2>5, <3>1, <3>2 DEF JobOK, e, v
  <2>9. RulesEnough(term[t], todo[t])'
    BY <1>1, <1>4, <1>6, <2>7 DEF RulesEnough, v
  <2>10. ASSUME Tracked' PROVE TracesOK(term[t], todo[t])'
    <3>1. Traces(c.id, rules[a])
      BY <1>7, <2>5, <2>10
    <3>2. v = Done => rules[a] = NoRules
      <4>1. v = Done => \A S \in SUBSET Positions(c.id) : S = {}
        BY <1>6, <2>4
      <4> QED
        BY <3>1, <4>1, CountedNone DEF Traces
    <3>3. \A b \in Block(Net) :
            b = Gateway(Net) \/ b \notin LeasedIn(subnets') =>
              (v.job = "delete" /\ b = e.info.ip) \/ rules[b] = NoRules
      BY <1>7, <2>2, <2>3, <2>4, <2>10, <3>2
    <3>4. v.job = "delete" => Left(e.id, v.at, rules[e.info.ip])
      <4> SUFFICES ASSUME v.job = "delete" PROVE Left(c.id, <<1, 1>>, rules[a])
        BY <1>6, <2>3, <2>4
      <4>1. Before(c.id, <<1, 1>>) = {}
        BY <1>6, <2>4
      <4>2. \A S : S \ {} = S
        OBVIOUS
      <4> QED
        BY <3>1, <4>1, <4>2 DEF Traces, Left
    <3>5. v.job # "append"
      BY <1>6, <2>4
    <3> QED
      BY <1>1, <1>6, <1>7, <2>6, <2>10, <3>3, <3>4, <3>5 DEF TracesOK, Traces, Left, e, v
  <2> QED
    BY <1>4, <1>5, <2>8, <2>9, <2>10 DEF PortsTidy
<1> QED
  BY <1>8, <1>9

-----------------------------------------------------------------------------
(* The calls of iptables.                                                   *)

\* What a command knows that appends rules.
LEMMA AtAppend ==
  ASSUME Calm, PortsInv, NEW t \in Terminals, NEW c, c = term[t], NEW w, w = todo[t],
         w.job = "append"
  PROVE  /\ w = [job |-> w.job, at |-> w.at] /\ w.at \in Positions(c.id) /\ c.id \in Ids
         /\ Begun(c) /\ c.pc \in {"record", "nameread"}
         /\ c.info.ip \in Block(Net) /\ c.info.ip \in LeasedIn(subnets)
         /\ c.info.ip # Gateway(Net) /\ Taken(c) = {c.info.ip}
         /\ \A i \in Holders : info[i].ip = c.info.ip => i = c.id
         /\ Holders \subseteq Ids /\ \A i \in Holders : info[i].ip \in Block(Net)
<1>1. /\ TidyInv /\ PortsTidy(t) /\ JobOK(c, w) /\ IInv /\ Tidy(t) /\ SafeCommand(c)
  BY TidyKnown DEF PortsInv, PortsTidy
<1>2. /\ w = [job |-> w.job, at |-> w.at] /\ w.at \in Positions(c.id) /\ c.id \in Ids
      /\ Begun(c) /\ c.pc \in {"record", "nameread"} /\ c.info.ip \in Block(Net)
  <2>1. w # Done
    BY DoneFacts
  <2> QED
    BY <1>1, <2>1 DEF JobOK
<1>3. c.info.ip # NilIP
  BY <1>2, BlockFacts, NetFacts
<1>4. Taken(c) = {c.info.ip}
  BY <1>2, <1>3 DEF Taken
<1>5. c.info \in SafeInfo
  BY <1>1, <1>2 DEF SafeCommand, HoldsInfo, ControlPoints, Begun
<1>6. /\ c.info.ip \in LeasedIn(subnets)
      /\ \A i \in Holders \ Gone(c) : info[i].ip # c.info.ip
  BY <1>1, <1>4 DEF Tidy, LeasesTidy, Leases
<1>7. Gone(c) \subseteq {c.id}
  BY DEF Gone
<1>8. Holders \subseteq Ids /\ \A i \in Holders : info[i].ip \in Block(Net)
  BY <1>1 DEF IInv, InfoSafe, IsFile, SafeInfo, InfoType, Holders
<1> QED
  BY <1>2, <1>4, <1>5, <1>6, <1>7, <1>8 DEF SafeInfo

\* A rule is appended.
LEMMA AppendDone ==
  ASSUME Calm, PortsInv, TidyInv', NEW t \in Terminals, NEW c, c = term[t], NEW w, w = todo[t],
         w.job = "append", NEW k, k = KindAt(c.id, w.at), NEW a, a = c.info.ip,
         rules' = [rules EXCEPT ![a][k] = @ + 1],
         todo' = [todo EXCEPT ![t] = NextRule(c.id, w)], UNCHANGED <<refused, vars>>
  PROVE  PortsTidy(t)' /\ RulesTyped'
<1> DEFINE v == todo'[t]
           x == w.at
           S == Before(c.id, x) \cup {x}
<1>1. /\ Links(c) /\ RulesTyped /\ RulesEnough(c, w) /\ (Tracked => TracesOK(c, w)) /\ JobOK(c, w)
      /\ UNCHANGED <<info, procs, subnets, term>> /\ v = NextRule(c.id, w) /\ IInv
  BY TidyKnown DEF PortsInv, PortsTidy, RulesTyped, vars
<1>2. /\ w = [job |-> w.job, at |-> w.at] /\ x \in Positions(c.id) /\ c.id \in Ids
      /\ Begun(c) /\ c.pc \in {"record", "nameread"}
      /\ a \in Block(Net) /\ a \in LeasedIn(subnets)
      /\ a # Gateway(Net) /\ Taken(c) = {a}
      /\ \A i \in Holders : info[i].ip = a => i = c.id
      /\ \A i \in Holders : info[i].ip \in Block(Net)
  BY AtAppend
<1>3. k \in RuleKinds
  BY <1>2, PositionsAre
<1>4. /\ rules' \in [Block(Net) -> [RuleKinds -> Nat]]
      /\ rules'[a] = [rules[a] EXCEPT ![k] = @ + 1]
      /\ \A b \in Block(Net) : b # a => rules'[b] = rules[b]
      /\ \A b \in Block(Net), l \in RuleKinds :
           rules[b][l] \in Nat /\ rules'[b][l] \in Nat /\ rules'[b][l] >= rules[b][l]
      /\ rules'[a][k] = rules[a][k] + 1
  <2>1. rules[a] \in [RuleKinds -> Nat] /\ rules[a][k] \in Nat /\ rules \in [Block(Net) -> [RuleKinds -> Nat]]
    BY <1>1, <1>2, <1>3 DEF RulesTyped
  <2> DEFINE r == [rules[a] EXCEPT ![k] = @ + 1]
  <2>2. /\ r \in [RuleKinds -> Nat] /\ r[k] = rules[a][k] + 1
        /\ \A l \in RuleKinds : l # k => r[l] = rules[a][l]
    BY <1>3, <2>1
  <2>3. rules' = [rules EXCEPT ![a] = r]
    BY <1>2, <2>1
  <2> HIDE DEF r
  <2>4. /\ rules' \in [Block(Net) -> [RuleKinds -> Nat]] /\ rules'[a] = r
        /\ \A b \in Block(Net) : b # a => rules'[b] = rules[b]
    BY <1>2, <2>1, <2>2, <2>3
  <2>5. ASSUME NEW b \in Block(Net), NEW l \in RuleKinds
        PROVE  rules[b][l] \in Nat /\ rules'[b][l] \in Nat /\ rules'[b][l] >= rules[b][l]
    <3>1. rules[b][l] \in Nat /\ rules'[b][l] \in Nat
      BY <2>1, <2>4
    <3>2. CASE b # a
      BY <2>4, <3>1, <3>2
    <3>3. CASE b = a /\ l # k
      BY <2>2, <2>4, <3>1, <3>3
    <3>4. CASE b = a /\ l = k
      BY <2>1, <2>2, <2>4, <3>1, <3>4
    <3> QED
      BY <3>1, <3>2, <3>3, <3>4
  <2> QED
    BY <2>2, <2>4, <2>5 DEF r
<1>5. RulesTyped'
  BY <1>1, <1>4 DEF RulesTyped
<1>6. x \notin Before(c.id, x) /\ Prefix(c.id, Before(c.id, x)) /\ S \in SUBSET Positions(c.id)
  BY <1>2, OrderOfRules DEF Before
<1>7. Counted(c.id, S) = [Counted(c.id, Before(c.id, x)) EXCEPT ![k] = @ + 1]
  BY <1>2, <1>6, CountedMore
<1>8. \/ v = Done /\ S = Positions(c.id)
      \/ /\ v = [job |-> v.job, at |-> v.at] /\ v.job = "append"
         /\ v.at \in Positions(c.id) /\ S = Before(c.id, v.at)
  <2> HIDE DEF v
  <2> QED
    BY <1>1, <1>2, RuleAfter
<1>9. Prefix(c.id, S)
  BY <1>2, <1>8, PrefixAll, OrderOfRules
<1> HIDE DEF v, S
<1>10. JobOK(c, v)
  BY <1>2, <1>8, DoneFacts DEF JobOK
<1>11. JobOK(term[t], todo[t])'
  <2>1. v.job # "delete"
    BY <1>8, DoneFacts
  <2> QED
    BY <1>1, <1>10, <2>1 DEF JobOK, v
<1>12. /\ \A o, p : p # c.info.pid => Made(o, p, c, v) = Positions(o) /\ Made(o, p, c, w) = Positions(o)
       /\ Made(c.id, c.info.pid, c, v) = S /\ Made(c.id, c.info.pid, c, w) = Before(c.id, x)
  BY <1>8, DoneFacts DEF Made
<1>13. \A p \in Live : procs[p].ip # NilIP /\ procs[p].owner \notin refused =>
         \A l \in RuleKinds :
           rules'[procs[p].ip][l] >= Counted(procs[p].owner, Made(procs[p].owner, p, c, v))[l]
  <2> SUFFICES ASSUME NEW p \in Live, procs[p].ip # NilIP, procs[p].owner \notin refused,
                      NEW l \in RuleKinds
               PROVE  rules'[procs[p].ip][l]
                        >= Counted(procs[p].owner, Made(procs[p].owner, p, c, v))[l]
    OBVIOUS
  <2>1. rules[procs[p].ip][l] >= Counted(procs[p].owner, Made(procs[p].owner, p, c, w))[l]
    BY <1>1 DEF RulesEnough
  <2>2. procs[p].ip \in Block(Net) /\ procs[p].owner \in Ids
    <3>1. procs[p] \in SafeProc
      BY <1>1 DEF IInv, ProcsSafe, IsFile, Live
    <3> QED
      BY <3>1 DEF SafeProc, ProcType
  <2>3. CASE p # c.info.pid
    <3>1. Counted(procs[p].owner, Positions(procs[p].owner))[l] \in Nat
      BY <2>2, CountedTyped
    <3>2. rules[procs[p].ip][l] \in Nat /\ rules'[procs[p].ip][l] \in Nat
          /\ rules'[procs[p].ip][l] >= rules[procs[p].ip][l]
      BY <1>4, <2>2
    <3> QED
      BY <1>12, <2>1, <2>3, <3>1, <3>2
  <2>4. CASE p = c.info.pid
    <3>1. procs[p].owner = c.id /\ procs[p].ip = a
      BY <1>1, <1>2, <2>4 DEF Links
    <3>2. rules[a][l] >= Counted(c.id, Before(c.id, x))[l]
      BY <1>12, <2>1, <2>4, <3>1
    <3>3. Counted(c.id, Before(c.id, x)) \in [RuleKinds -> Nat]
      BY <1>2, <1>6, CountedTyped DEF Prefix
    <3>4. rules'[a][l] >= Counted(c.id, S)[l]
      <4>1. rules[a][l] \in Nat /\ Counted(c.id, Before(c.id, x))[l] \in Nat
        BY <1>2, <1>4, <3>3
      <4>2. CASE l = k
        <5>1. Counted(c.id, S)[l] = Counted(c.id, Before(c.id, x))[l] + 1
          BY <1>7, <3>3, <4>2
        <5>2. rules'[a][l] = rules[a][l] + 1
          BY <1>4, <4>2
        <5> QED
          BY <3>2, <4>1, <5>1, <5>2
      <4>3. CASE l # k
        <5>1. Counted(c.id, S)[l] = Counted(c.id, Before(c.id, x))[l]
          BY <1>7, <3>3, <4>3
        <5>2. rules'[a][l] \in Nat /\ rules'[a][l] >= rules[a][l]
          BY <1>2, <1>4
        <5> QED
          BY <3>2, <4>1, <5>1, <5>2
      <4> QED
        BY <4>2, <4>3
    <3> QED
      BY <1>12, <2>4, <3>1, <3>4
  <2> QED
    BY <2>3, <2>4
<1>14. RulesEnough(term[t], todo[t])'
  BY <1>1, <1>13 DEF RulesEnough, Made, v, Live
<1>15. ASSUME Tracked' PROVE TracesOK(term[t], todo[t])'
  <2>1. TracesOK(c, w)
    BY <1>1, <1>15 DEF Tracked, LosesTrack
  <2>2. rules'[a] = Counted(c.id, S)
    <3>1. rules[a] = Counted(c.id, Before(c.id, x))
      BY <1>2, <2>1 DEF TracesOK
    <3> QED
      BY <1>4, <1>7, <3>1
  <2>3. Traces(c.id, rules'[a])
    BY <1>9, <2>2 DEF Traces, Prefix
  <2>4. v.job # "delete" /\ w.job # "delete" /\ c.pc # "attach"
    BY <1>2, <1>8, DoneFacts
  <2>5. \A b \in Block(Net) : b = Gateway(Net) \/ b \notin LeasedIn(subnets) => rules'[b] = NoRules
    BY <1>2, <1>4, <2>1, <2>4 DEF TracesOK
  <2>6. \A i \in Holders : Traces(i, rules'[info[i].ip])
    <3> TAKE i \in Holders
    <3>1. CASE info[i].ip = a
      BY <1>2, <2>3, <3>1
    <3>2. CASE info[i].ip # a
      BY <1>2, <1>4, <2>1, <2>4, <3>2 DEF TracesOK
    <3> QED
      BY <3>1, <3>2
  <2>7. v.job = "append" => rules'[a] = Counted(c.id, Before(c.id, v.at))
    BY <1>8, <2>2, DoneFacts
  <2>8. Holders' = Holders
    BY <1>1 DEF Holders
  <2> QED
    BY <1>1, <1>2, <2>3, <2>4, <2>5, <2>6, <2>7, <2>8 DEF TracesOK, Traces, Taken, Begun, v
<1>16. Links(term[t])'
  BY <1>1 DEF Links, Begun, Live
<1> QED
  BY <1>5, <1>11, <1>14, <1>15, <1>16 DEF PortsTidy

\* A rule is refused, and those of its mapping that would follow are not tried.
LEMMA AppendRefused ==
  ASSUME Calm, PortsInv, TidyInv', NEW t \in Terminals, NEW c, c = term[t], NEW w, w = todo[t],
         w.job = "append", refused' = refused \cup {c.id},
         todo' = [todo EXCEPT ![t] = NextMapping(c.id, w)], UNCHANGED <<rules, vars>>
  PROVE  PortsTidy(t)' /\ RulesTyped'
<1> DEFINE v == todo'[t]
           x == w.at
           a == c.info.ip
<1>1. /\ Links(c) /\ RulesTyped /\ RulesEnough(c, w) /\ (Tracked => TracesOK(c, w)) /\ JobOK(c, w)
      /\ UNCHANGED <<info, procs, subnets, term>> /\ v = NextMapping(c.id, w)
  BY DEF PortsInv, PortsTidy, RulesTyped, vars
<1>2. /\ w = [job |-> w.job, at |-> w.at] /\ x \in Positions(c.id) /\ c.id \in Ids
      /\ Begun(c) /\ c.pc \in {"record", "nameread"}
      /\ a \in Block(Net) /\ Taken(c) = {a}
  BY AtAppend
<1>3. RulesTyped'
  BY <1>1, <1>2 DEF RulesTyped
<1>4. /\ \/ v = Done
         \/ v = [job |-> v.job, at |-> v.at] /\ v.job = "append" /\ v.at \in Positions(c.id)
      /\ ~(Len(Publishes[c.id]) > 1) => v = Done
  <2> HIDE DEF v
  <2> QED
    BY <1>1, <1>2, MappingAfter
<1> HIDE DEF v
<1>5. JobOK(c, v)
  BY <1>2, <1>4, DoneFacts DEF JobOK
<1>6. JobOK(term[t], todo[t])'
  <2>1. v.job # "delete"
    BY <1>4, DoneFacts
  <2> QED
    BY <1>1, <1>5, <2>1 DEF JobOK, v
<1>7. RulesEnough(term[t], todo[t])'
  <2>1. ASSUME NEW p \in Live, procs[p].ip # NilIP, procs[p].owner \notin refused'
        PROVE  p # c.info.pid /\ procs[p].owner \notin refused
    BY <1>1, <1>2, <2>1 DEF Links
  <2>2. \A o, p : p # c.info.pid => Made(o, p, c, v) = Made(o, p, c, w)
    BY DEF Made
  <2> QED
    BY <1>1, <2>1, <2>2 DEF RulesEnough, Made, Live, v
<1>8. ASSUME Tracked' PROVE TracesOK(term[t], todo[t])'
  <2>1. Tracked /\ v = Done
    BY <1>2, <1>4, <1>8 DEF Tracked, LosesTrack
  <2>2. TracesOK(c, w) /\ v.job = "none" /\ w.job # "delete" /\ c.pc # "attach"
    BY <1>1, <1>2, <2>1, DoneFacts
  <2>3. Traces(c.id, rules[a])
    <3>1. rules[a] = Counted(c.id, Before(c.id, x))
      BY <1>2, <2>2 DEF TracesOK
    <3>2. Prefix(c.id, Before(c.id, x))
      BY <1>2, OrderOfRules
    <3> QED
      BY <3>1, <3>2 DEF Traces, Prefix
  <2>4. Holders' = Holders
    BY <1>1 DEF Holders
  <2> QED
    BY <1>1, <1>2, <2>1, <2>2, <2>3, <2>4 DEF TracesOK, Traces, Taken, Begun, v
<1>9. Links(term[t])'
  BY <1>1 DEF Links, Begun, Live
<1> QED
  BY <1>3, <1>6, <1>7, <1>8, <1>9 DEF PortsTidy

LEMMA AppendRuleTidy ==
  ASSUME Calm, PortsInv, TidyInv', NEW t \in Terminals, AppendRule(t)
  PROVE  PortsTidy(t)' /\ RulesTyped'
<1>1. todo[t].job = "append" /\ UNCHANGED vars
  BY DEF AppendRule
<1>2. CASE /\ rules' = [rules EXCEPT ![term[t].info.ip][KindAt(term[t].id, todo[t].at)] = @ + 1]
           /\ todo' = [todo EXCEPT ![t] = NextRule(term[t].id, todo[t])]
           /\ UNCHANGED refused
  BY <1>1, <1>2, AppendDone
<1>3. CASE /\ refused' = refused \cup {term[t].id}
           /\ todo' = [todo EXCEPT ![t] = NextMapping(term[t].id, todo[t])]
           /\ UNCHANGED rules
  BY <1>1, <1>3, AppendRefused
<1> QED
  BY <1>2, <1>3 DEF AppendRule

\* The rules that are being deleted are of an address that nobody has.
LEMMA AtDelete ==
  ASSUME Calm, PortsInv, NEW t \in Terminals, NEW c, c = term[t], NEW w, w = todo[t],
         w.job = "delete"
  PROVE  /\ w = [job |-> w.job, at |-> w.at] /\ w.at \in Positions(c.id) /\ c.id \in Ids
         /\ ~Begun(c) /\ Taken(c) = {} /\ c.pc \in {"kill", "health", "read"}
         /\ c.info.ip \in Block(Net) /\ c.info.ip \notin LeasedIn(subnets)
         /\ info[c.id].ip = c.info.ip
         /\ \A i \in Holders : info[i].ip = c.info.ip => i = c.id
         /\ \A p \in Live : procs[p].ip # NilIP => procs[p].ip # c.info.ip
<1>1. /\ TidyInv /\ Links(c) /\ JobOK(c, w) /\ IInv /\ PausedRecords /\ Tidy(t)
      /\ Knows(c, names, info)
  BY TidyKnown DEF PortsInv, PortsTidy
<1>2. /\ w = [job |-> w.job, at |-> w.at] /\ w.at \in Positions(c.id) /\ c.id \in Ids
      /\ c.pc \in {"kill", "health", "read"}
      /\ c.info.ip \in Block(Net) /\ c.info.ip \notin LeasedIn(subnets)
      /\ info[c.id].ip = c.info.ip
  <2>1. w # Done
    BY DoneFacts
  <2> QED
    BY <1>1, <2>1 DEF JobOK
<1>3. ~Begun(c) /\ Taken(c) = {}
  BY <1>2 DEF Begun, Taken
<1>4. \A i \in Holders \ Gone(c) : info[i].ip # c.info.ip
  BY <1>1, <1>2 DEF Tidy, LeasesTidy, Leases
<1>5. Gone(c) \subseteq {c.id}
  BY DEF Gone
<1>6. ASSUME NEW p \in Live, procs[p].ip # NilIP PROVE procs[p].ip # c.info.ip
  <2> DEFINE o == procs[p].owner
  <2>1. /\ o \in DOMAIN info /\ info[o].pid = p /\ info[o].kind = "bridge"
        /\ procs[p].ip = info[o].ip
    BY <1>1, <1>3, <1>6 DEF Tidy, ProcsTidy, Links
  <2>2. p # NoPid
    <3>1. p \in Pids
      BY <1>1 DEF IInv, ProcsSafe, IsFile, Live
    <3> QED
      BY <3>1, ContainerAssumptions DEF NoPid
  <2>3. o \in Holders
    BY <1>1, <1>6, <2>1, <2>2 DEF PausedRecords, Holders
  <2>4. o \notin Gone(c)
    <3>1. CASE c.pc = "kill"
      BY <1>1, <1>5, <1>6, <3>1 DEF Links
    <3>2. CASE c.pc # "kill"
      <4>1. SUFFICES ASSUME o \in Gone(c) PROVE FALSE
        OBVIOUS
      <4>2. Ended(c) /\ c.own = c.id /\ o = c.id
        BY <1>1, <1>2, <1>5, <3>2, <4>1 DEF Gone, Ended, Knows
      <4> QED
        BY <1>1, <2>1, <4>2 DEF Tidy, CommandTidy
    <3> QED
      BY <3>1, <3>2
  <2> QED
    BY <1>4, <2>1, <2>3, <2>4
<1> QED
  BY <1>2, <1>3, <1>4, <1>5, <1>6

\* What follows of a step of a disconnection for everybody else.
LEMMA DeletingTidy ==
  ASSUME Calm, PortsInv, NEW t \in Terminals, NEW c, c = term[t], NEW w, w = todo[t],
         w.job = "delete", UNCHANGED <<refused, vars>>, RulesTyped',
         NEW a, a = c.info.ip, \A b \in Block(Net) : b # a => rules'[b] = rules[b],
         NEW v, v = todo'[t],
         \/ v = Done
         \/ v = [job |-> v.job, at |-> v.at] /\ v.job = "delete" /\ v.at \in Positions(c.id),
         Tracked => IF v = Done THEN rules'[a] = NoRules ELSE Left(c.id, v.at, rules'[a])
  PROVE  PortsTidy(t)' /\ RulesTyped'
<1>1. /\ Links(c) /\ RulesEnough(c, w) /\ (Tracked => TracesOK(c, w)) /\ JobOK(c, w)
      /\ UNCHANGED <<info, procs, subnets, term>> /\ IInv
  BY TidyKnown DEF PortsInv, PortsTidy, vars
<1>2. /\ c.id \in Ids /\ ~Begun(c) /\ Taken(c) = {} /\ c.pc \in {"kill", "health", "read"}
      /\ a \in Block(Net) /\ a \notin LeasedIn(subnets) /\ info[c.id].ip = a
      /\ \A i \in Holders : info[i].ip = a => i = c.id
      /\ \A p \in Live : procs[p].ip # NilIP => procs[p].ip # a
  BY AtDelete
<1>3. JobOK(term[t], todo[t])'
  <2>1. w # Done
    BY DoneFacts
  <2>2. JobOK(c, v)
    BY <1>1, <1>2, <2>1, DoneFacts DEF JobOK
  <2> QED
    BY <1>1, <2>2 DEF JobOK, Begun
<1>4. RulesEnough(term[t], todo[t])'
  <2>1. \A o, p : Made(o, p, c, v) = Positions(o) /\ Made(o, p, c, w) = Positions(o)
    BY DoneFacts DEF Made
  <2>2. \A p \in Live : procs[p].ip # NilIP => rules'[procs[p].ip] = rules[procs[p].ip]
    <3> SUFFICES ASSUME NEW p \in Live, procs[p].ip # NilIP
                 PROVE  rules'[procs[p].ip] = rules[procs[p].ip]
      OBVIOUS
    <3>1. procs[p] \in SafeProc
      BY <1>1 DEF IInv, ProcsSafe, IsFile, Live
    <3> QED
      BY <1>2, <3>1 DEF SafeProc, ProcType
  <2> QED
    BY <1>1, <2>1, <2>2 DEF RulesEnough, Made, Live
<1>5. ASSUME Tracked' PROVE TracesOK(term[t], todo[t])'
  <2>1. TracesOK(c, w) /\ Tracked
    BY <1>1, <1>5 DEF Tracked, LosesTrack
  <2>2. /\ v = Done => rules'[a] = NoRules /\ v.job = "none"
        /\ v # Done => Left(c.id, v.at, rules'[a]) /\ v.job = "delete"
    BY <2>1, DoneFacts
  <2>3. \A b \in Block(Net) :
          b = Gateway(Net) \/ b \notin LeasedIn(subnets) =>
            (v.job = "delete" /\ b = a) \/ rules'[b] = NoRules
    BY <2>1, <2>2 DEF TracesOK
  <2>4. ASSUME NEW i \in Holders PROVE (v.job = "delete" /\ i = c.id) \/ Traces(i, rules'[info[i].ip])
    <3>1. CASE i = c.id
      BY <1>2, <2>2, <3>1, NoTraces
    <3>2. CASE i # c.id
      <4>1. Traces(i, rules[info[i].ip]) /\ info[i].ip # a
        BY <1>2, <2>1, <3>2 DEF TracesOK
      <4>2. info[i].ip \in Block(Net)
        BY <1>1 DEF IInv, InfoSafe, IsFile, SafeInfo, InfoType, Holders
      <4> QED
        BY <4>1, <4>2
    <3> QED
      BY <3>1, <3>2
  <2>5. v.job = "delete" => Left(c.id, v.at, rules'[a])
    BY <2>2
  <2>6. Holders' = Holders
    BY <1>1 DEF Holders
  <2> QED
    BY <1>1, <1>2, <2>3, <2>4, <2>5, <2>6 DEF TracesOK, Traces, Left, Taken, Begun
<1>6. Links(term[t])'
  BY <1>1 DEF Links, Begun, Live
<1> QED
  BY <1>3, <1>4, <1>5, <1>6 DEF PortsTidy

LEMMA DeleteRuleTidy ==
  ASSUME Calm, PortsInv, TidyInv', NEW t \in Terminals, DeleteRule(t)
  PROVE  PortsTidy(t)' /\ RulesTyped'
<1> DEFINE c == term[t]
           w == todo[t]
           v == todo'[t]
           x == w.at
           a == c.info.ip
           k == KindAt(c.id, x)
<1>1. /\ w.job = "delete" /\ UNCHANGED <<vars, refused>> /\ RulesTyped
      /\ (Tracked => TracesOK(c, w))
  BY DEF DeleteRule, PortsInv, PortsTidy
<1>2. /\ w = [job |-> w.job, at |-> w.at] /\ x \in Positions(c.id) /\ c.id \in Ids
      /\ a \in Block(Net) /\ k \in RuleKinds
  BY <1>1, AtDelete, PositionsAre
<1>3. rules[a] \in [RuleKinds -> Nat] /\ rules[a][k] \in Nat
  BY <1>1, <1>2 DEF RulesTyped
<1>4. x \notin Before(c.id, x)
  BY <1>2, OrderOfRules
\* While no container has lost track, the rule that is come to is there, or
\* none is left.
<1>5. ASSUME Tracked
      PROVE  \/ \E S \in SUBSET Positions(c.id) :
                  /\ Prefix(c.id, S) /\ rules[a][k] > 0
                  /\ [rules[a] EXCEPT ![k] = @ - 1] = Counted(c.id, S \ (Before(c.id, x) \cup {x}))
             \/ rules[a] = NoRules /\ ~(rules[a][k] > 0)
  <2>1. Left(c.id, x, rules[a])
    BY <1>1, <1>5 DEF TracesOK
  <2>2. PICK S \in SUBSET Positions(c.id) : Prefix(c.id, S) /\ rules[a] = Counted(c.id, S \ Before(c.id, x))
    BY <2>1 DEF Left
  <2>3. CASE x \in S
    <3> DEFINE T == S \ Before(c.id, x)
    <3>1. T \in SUBSET Positions(c.id) /\ x \in T /\ T \ {x} = S \ (Before(c.id, x) \cup {x})
      BY <1>4, <2>3
    <3> HIDE DEF T, x, k
    <3>2. /\ Counted(c.id, T \ {x}) = [Counted(c.id, T) EXCEPT ![KindAt(c.id, x)] = @ - 1]
          /\ Counted(c.id, T)[KindAt(c.id, x)] > 0
      BY <1>2, <3>1, CountedFewer
    <3>3. rules[a] = Counted(c.id, T)
      BY <2>2 DEF T
    <3>4. k = KindAt(c.id, x)
      BY DEF k
    <3> HIDE DEF a, c
    <3> QED
      BY <2>2, <3>1, <3>2, <3>3, <3>4
  <2>4. CASE x \notin S
    <3>1. rules[a] = NoRules
      BY <1>2, <2>2, <2>4, PrefixRest, CountedNone
    <3> QED
      BY <1>2, <3>1 DEF NoRules
  <2> QED
    BY <2>3, <2>4
<1>6. CASE rules[a][k] > 0
  <2> DEFINE r == [rules[a] EXCEPT ![k] = @ - 1]
  <2>1. rules' = [rules EXCEPT ![a] = r] /\ v = NextRule(c.id, w)
    BY <1>1, <1>6 DEF DeleteRule, RulesTyped
  <2>2. r \in [RuleKinds -> Nat]
    BY <1>2, <1>3, <1>6
  <2>3. \/ v = Done /\ Before(c.id, x) \cup {x} = Positions(c.id)
        \/ /\ v = [job |-> v.job, at |-> v.at] /\ v.job = "delete"
           /\ v.at \in Positions(c.id) /\ Before(c.id, x) \cup {x} = Before(c.id, v.at)
    <3> HIDE DEF v
    <3> QED
      BY <1>1, <1>2, <2>1, RuleAfter
  <2> HIDE DEF r
  <2>4. /\ rules' \in [Block(Net) -> [RuleKinds -> Nat]] /\ rules'[a] = r
        /\ \A b \in Block(Net) : b # a => rules'[b] = rules[b]
    BY <1>1, <1>2, <2>1, <2>2 DEF RulesTyped
  <2>5. RulesTyped'
    <3>1. todo' = [u \in Terminals |-> todo'[u]]
      BY <1>1 DEF DeleteRule, RulesTyped
    <3> QED
      BY <1>1, <2>4, <3>1 DEF RulesTyped
  <2>6. ASSUME Tracked PROVE IF v = Done THEN rules'[a] = NoRules ELSE Left(c.id, v.at, rules'[a])
    <3>1. PICK S \in SUBSET Positions(c.id) :
            Prefix(c.id, S) /\ r = Counted(c.id, S \ (Before(c.id, x) \cup {x}))
      BY <1>5, <1>6, <2>6 DEF r
    <3>2. v = Done /\ Before(c.id, x) \cup {x} = Positions(c.id) => rules'[a] = NoRules
      <4>1. S \ Positions(c.id) = {}
        OBVIOUS
      <4> QED
        BY <2>4, <3>1, <4>1, CountedNone
    <3>3. Before(c.id, x) \cup {x} = Before(c.id, v.at) => Left(c.id, v.at, rules'[a])
      BY <2>4, <3>1 DEF Left
    <3>4. v.job = "delete" => v # Done
      BY DoneFacts
    <3> HIDE DEF v
    <3> QED
      BY <2>3, <3>2, <3>3, <3>4
  <2> HIDE DEF v
  <2>7. v = todo'[t]
    BY DEF v
  <2> QED
    BY <1>1, <2>3, <2>4, <2>5, <2>6, <2>7, DeletingTidy
<1>7. CASE ~(rules[a][k] > 0)
  <2>1. UNCHANGED rules /\ v = NextMapping(c.id, w)
    BY <1>1, <1>7 DEF DeleteRule, RulesTyped
  <2>2. \/ v = Done
        \/ v = [job |-> v.job, at |-> v.at] /\ v.job = "delete" /\ v.at \in Positions(c.id)
    <3> HIDE DEF v
    <3> QED
      BY <1>1, <1>2, <2>1, MappingAfter
  <2>3. RulesTyped'
    <3>1. todo' = [u \in Terminals |-> todo'[u]]
      BY <1>1, <1>7 DEF DeleteRule, RulesTyped
    <3> QED
      BY <1>1, <2>1, <3>1 DEF RulesTyped
  <2>4. ASSUME Tracked PROVE IF v = Done THEN rules'[a] = NoRules ELSE Left(c.id, v.at, rules'[a])
    <3>1. rules[a] = NoRules
      BY <1>5, <1>7, <2>4
    <3>2. Left(c.id, v.at, NoRules)
      <4>1. {} \in SUBSET Positions(c.id) /\ {} \ Before(c.id, v.at) = {}
        OBVIOUS
      <4> QED
        BY <1>2, <4>1, PrefixAll, CountedNone DEF Left
    <3> QED
      BY <2>1, <3>1, <3>2
  <2> HIDE DEF v
  <2>5. v = todo'[t]
    BY DEF v
  <2> QED
    BY <1>1, <2>1, <2>2, <2>3, <2>4, <2>5, DeletingTidy
<1> QED
  BY <1>6, <1>7

-----------------------------------------------------------------------------
(* The invariant, and what it says between commands.                        *)

LEMMA PortsStep ==
  ASSUME Calm, PortsInv, [PortsNext]_portVars
  PROVE  PortsInv'
<1>1. TidyInv'
  BY PortsSteps, TidyStep DEF PortsInv
<1>2. PICK t \in Terminals : TRUE
  BY DEF Calm
<1>3. \A u \in Terminals : u = t
  BY <1>2 DEF Calm, Serial
<1>4. SUFFICES PortsTidy(t)' /\ RulesTyped'
  BY <1>1, <1>3 DEF PortsInv
<1>5. CASE Elsewhere
  BY <1>1, <1>2, <1>5, ElsewhereTidy
<1>6. CASE MapPorts(t) \/ MapNothing(t)
  BY <1>1, <1>2, <1>6, MapPortsTidy
<1>7. CASE AppendRule(t)
  BY <1>1, <1>2, <1>7, AppendRuleTidy
<1>8. CASE UnmapPorts(t)
  BY <1>1, <1>2, <1>8, UnmapPortsTidy
<1>9. CASE DeleteRule(t)
  BY <1>1, <1>2, <1>9, DeleteRuleTidy
<1>10. CASE UNCHANGED portVars
  <2>1. /\ UNCHANGED <<info, procs, subnets, term, rules, refused, todo>>
        /\ PortsTidy(t) /\ RulesTyped
    BY <1>2, <1>10 DEF PortsInv, portVars, vars
  <2>2. RulesTyped'
    BY <2>1 DEF RulesTyped
  <2>3. Links(term[t])'
    BY <2>1 DEF PortsTidy, Links, Begun, Live
  <2>4. JobOK(term[t], todo[t])'
    BY <2>1 DEF PortsTidy, JobOK, Begun
  <2>5. RulesEnough(term[t], todo[t])'
    BY <2>1 DEF PortsTidy, RulesEnough, Made, Live
  <2>6. (Tracked => TracesOK(term[t], todo[t]))'
    <3>1. (Tracked' => Tracked) /\ Holders' = Holders
      BY <2>1 DEF Tracked, LosesTrack, Holders
    <3> QED
      BY <2>1, <3>1 DEF PortsTidy, TracesOK, Traces, Left, Taken, Begun
  <2> QED
    BY <2>2, <2>3, <2>4, <2>5, <2>6 DEF PortsTidy
<1> QED
  BY <1>3, <1>5, <1>6, <1>7, <1>8, <1>9, <1>10 DEF PortsNext

LEMMA PortsStart == PortsInit => PortsInv
<1> SUFFICES ASSUME PortsInit PROVE PortsInv
  OBVIOUS
<1>1. TidyInv
  BY TidyInit DEF PortsInit
<1>2. /\ rules = [a \in Block(Net) |-> NoRules] /\ refused = {}
      /\ todo = [t \in Terminals |-> Done] /\ Live = {} /\ Holders = {} /\ Init
  BY DEF PortsInit, Init, NoRules, NoFile, Live, Holders
<1>3. RulesTyped
  BY <1>2 DEF RulesTyped, NoRules
<1>4. ASSUME NEW t \in Terminals PROVE PortsTidy(t)
  <2> DEFINE c == term[t]
  <2>1. /\ todo[t] = Done /\ JobOK(c, Done) /\ Done.job = "none"
        /\ ~Begun(c) /\ Taken(c) = {} /\ c.pc = "rest"
    BY <1>2, DoneFacts DEF Init, Rest, Begun, Taken
  <2>2. Links(c) /\ RulesEnough(c, Done)
    BY <1>2, <2>1 DEF Links, RulesEnough
  <2>3. TracesOK(c, Done)
    BY <1>2, <2>1 DEF TracesOK
  <2> QED
    BY <2>1, <2>2, <2>3 DEF PortsTidy
<1> QED
  BY <1>1, <1>3, <1>4 DEF PortsInv

LEMMA PortsInvariant == ASSUME Calm PROVE PortsSpec => []PortsInv
<1>1. PortsInv /\ [PortsNext]_portVars => PortsInv'
  BY PortsStep
<1> QED
  BY <1>1, PortsStart, PTL DEF PortsSpec

LEMMA QuietPorts ==
  ASSUME Calm, PortsInv
  PROVE  PortsFollowAddress
<1> SUFFICES ASSUME AllQuiet
             PROVE  /\ Tracked => \A a \in Block(Net) \ {info[i].ip : i \in Holders},
                                     k \in RuleKinds : rules[a][k] = 0
                    /\ \A p \in Live : procs[p].ip # NilIP /\ procs[p].owner \notin refused =>
                         \A k \in RuleKinds :
                           /\ rules[procs[p].ip][k] >= Complete(procs[p].owner)[k]
                           /\ refused = {} =>
                                rules[procs[p].ip][k] = Complete(procs[p].owner)[k]
  BY DEF PortsFollowAddress, Tracked
<1>1. PICK t \in Terminals : TRUE
  BY DEF Calm
<1> DEFINE c == term[t]
<1>2. /\ TidyInv /\ IInv /\ PausedRecords /\ Links(c) /\ JobOK(c, todo[t]) /\ RulesTyped
      /\ RulesEnough(c, todo[t]) /\ (Tracked => TracesOK(c, todo[t]))
  BY <1>1, TidyKnown DEF PortsInv, PortsTidy
<1>3. c.pc \in {"rest", "wait"} /\ ~Begun(c)
  BY <1>1 DEF AllQuiet, Quiet, Begun
<1>4. todo[t] = Done /\ Done.job = "none"
  BY <1>2, <1>3, DoneElsewhere, DoneFacts
<1>5. /\ LeasedIn(subnets) = {Gateway(Net)} \cup {info[i].ip : i \in Holders}
      /\ \A p \in Live : procs[p].owner \in DOMAIN info /\ info[procs[p].owner].pid = p
  BY <1>2, QuietTidy DEF Leases
<1>6. ASSUME Tracked, NEW a \in Block(Net) \ {info[i].ip : i \in Holders}, NEW k \in RuleKinds
      PROVE  rules[a][k] = 0
  <2>1. rules[a] = NoRules
    BY <1>2, <1>4, <1>5, <1>6 DEF TracesOK
  <2> QED
    BY <2>1 DEF NoRules
<1>7. ASSUME NEW p \in Live, procs[p].ip # NilIP, procs[p].owner \notin refused,
             NEW k \in RuleKinds
      PROVE  /\ rules[procs[p].ip][k] >= Complete(procs[p].owner)[k]
             /\ refused = {} => rules[procs[p].ip][k] = Complete(procs[p].owner)[k]
  <2> DEFINE o == procs[p].owner
             a == procs[p].ip
  <2>1. Made(o, p, c, Done) = Positions(o)
    BY <1>4 DEF Made
  <2>2. rules[a][k] >= Complete(o)[k]
    BY <1>2, <1>4, <1>7, <2>1 DEF RulesEnough, Complete
  <2>3. /\ o \in Holders /\ a = info[o].ip /\ o \in Ids /\ a \in Block(Net)
    <3>1. /\ o \in DOMAIN info /\ info[o].pid = p /\ info[o].kind = "bridge" /\ a = info[o].ip
      BY <1>2, <1>3, <1>5, <1>7 DEF Links
    <3>2. p # NoPid /\ procs[p] \in SafeProc
      <4>1. p \in Pids /\ procs[p] \in SafeProc
        BY <1>2 DEF IInv, ProcsSafe, IsFile, Live
      <4> QED
        BY <4>1, ContainerAssumptions DEF NoPid
    <3> QED
      BY <1>2, <1>7, <3>1, <3>2 DEF PausedRecords, Holders, SafeProc, ProcType
  <2>4. ASSUME refused = {} PROVE rules[a][k] <= Complete(o)[k]
    <3>1. Tracked
      BY <2>4 DEF Tracked, LosesTrack
    <3>2. Traces(o, rules[a])
      BY <1>2, <1>4, <2>3, <3>1 DEF TracesOK
    <3>3. PICK S \in SUBSET Positions(o) : rules[a] = Counted(o, S)
      BY <3>2 DEF Traces
    <3>4. S \in SUBSET Positions(o) /\ Positions(o) \in SUBSET Positions(o)
      BY <3>3
    <3> QED
      BY <2>3, <3>3, <3>4, CountedLess DEF Complete
  <2>5. rules[a][k] \in Nat /\ Complete(o)[k] \in Nat
    <3>1. Positions(o) \in SUBSET Positions(o)
      OBVIOUS
    <3>2. Counted(o, Positions(o)) \in [RuleKinds -> Nat]
      BY <2>3, <3>1, CountedTyped
    <3> QED
      BY <1>2, <2>3, <3>2 DEF RulesTyped, Complete
  <2> QED
    BY <2>2, <2>4, <2>5
<1> QED
  BY <1>6, <1>7

\* Between commands the rules of iptables are about the containers that hold
\* the addresses: what is left at an address that nobody has would be inherited
\* by the next container that gets it, and what is missing makes a published
\* port unreachable.  For commands one after the other, whatever iptables
\* refuses to append, and although deleting stops at the first rule of a
\* mapping that is not there; nothing is promised of addresses that nobody has
\* once a container with several mappings was refused a rule.
THEOREM RulesFollowAddress == ASSUME Calm PROVE PortsSpec => []PortsFollowAddress
<1>1. PortsInv => PortsFollowAddress
  BY QuietPorts
<1> QED
  BY <1>1, PortsInvariant, PTL

=============================================================================

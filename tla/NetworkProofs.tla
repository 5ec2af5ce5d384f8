---------------------------- MODULE NetworkProofs ---------------------------
(***************************************************************************)
(* Theorems about Network, for any number of users, networks and subnets,  *)
(* and any interleaving of commands, crashes and reboots: types, the       *)
(* subnets that networks keep, and the agreement of files, subnets,        *)
(* bridges and rules.                                                      *)
(***************************************************************************)
EXTENDS Network, IpamBitmapProofs, FiniteSetTheorems

-----------------------------------------------------------------------------
(* Types. *)

\* The kernel's side of the networks, and the commands.
KernelTyped ==
  /\ links \in [DOMAIN links -> LinkType] /\ DOMAIN links \subseteq NetIds
  /\ chains \subseteq {"filter", "nat", "prerouting", "output"}
  /\ rules \in [NetIds -> [Rules -> Nat]]

CommandsTyped ==
  /\ proc = [u \in Users |-> proc[u]]
  /\ \A u \in Users : IsCommand(proc[u])
  /\ seen \subseteq Mishaps \cup {"kernel"}

\* The map of subnets is more than typed: the manager keeps it well-formed.
TypeInv ==
  /\ WellFormed(subnets)
  /\ files \in NetworkFiles
  /\ KernelTyped
  /\ CommandsTyped

LEMMA TypeInvTypes == TypeInv => TypeOK
  BY DEF TypeInv, TypeOK, KernelTyped, CommandsTyped, WellFormed

LEMMA RuleTyped ==
  ASSUME NEW k \in RuleNumbers, NEW s \in Subnets
  PROVE  Rule(k, s) \in Rules
  BY DEF Rules

LEMMA NothingTyped == NoNetworks \in NetworkFiles
<1>1. NoNetworks \in [{} -> Configs \cup {Torn}]
  BY DEF NoNetworks
<1> QED
  BY <1>1 DEF NetworkFiles

LEMMA IdleTyped == IsCommand(Idle)
  BY NothingTyped, NetworkAssumptions
     DEF IsCommand, CommandType, Idle, ControlPoints, Phases, Drivers, RuleNumbers,
         HasSubnet, HasGateway

\* The updates of a command keep its type.
LEMMA CommandAt ==
  ASSUME NEW c, IsCommand(c), NEW pc \in ControlPoints, pc # "chains",
         pc \in HasSubnet => c.pc \in HasSubnet,
         pc \in HasGateway => c.pc \in HasGateway
  PROVE  /\ IsCommand([c EXCEPT !.pc = pc])
         /\ \A k \in RuleNumbers : IsCommand([c EXCEPT !.k = k, !.pc = pc])
  BY DEF IsCommand, CommandType

LEMMA CommandCount ==
  ASSUME NEW c, IsCommand(c), NEW n, n \in IF c.pc = "chains" THEN 1 .. 4 ELSE RuleNumbers
  PROVE  IsCommand([c EXCEPT !.k = n])
  BY DEF IsCommand, CommandType, RuleNumbers

LEMMA CommandGateway ==
  ASSUME NEW c, IsCommand(c), c.pc = "gateway", NEW a \in Addresses
  PROVE  IsCommand([c EXCEPT !.pc = "link", !.gw = a])
  BY DEF IsCommand, CommandType, ControlPoints, HasSubnet, HasGateway

LEMMA CommandConfig ==
  ASSUME NEW c, IsCommand(c), NEW x \in Configs, NEW n \in NetIds, NEW f \in NetworkFiles
  PROVE  /\ IsCommand([c EXCEPT !.pc = "release", !.subnet = x.subnet, !.gw = x.gw])
         /\ IsCommand([c EXCEPT !.phase = "restore", !.pc = "link", !.id = n,
                                !.subnet = x.subnet, !.gw = x.gw, !.todo = f])
  BY DEF IsCommand, CommandType, Configs, ControlPoints, Phases, HasSubnet, HasGateway

LEMMA CommandWalks ==
  ASSUME NEW c, IsCommand(c), NEW f \in NetworkFiles
  PROVE  /\ c.pc = "restore" => IsCommand([c EXCEPT !.todo = f])
         /\ IsCommand([c EXCEPT !.pc = "restore", !.todo = f])
         /\ IsCommand([c EXCEPT !.phase = "start", !.pc = "walk"])
         /\ IsCommand([c EXCEPT !.phase = "start", !.pc = "restore", !.todo = f])
  BY DEF IsCommand, CommandType, ControlPoints, Phases, HasSubnet, HasGateway

LEMMA CommandTyped ==
  ASSUME NEW c, IsCommand(c), c.k = 1, NEW n \in NetIds, NEW s \in Subnets, NEW d \in Drivers
  PROVE  /\ IsCommand([c EXCEPT !.pc = "chains", !.phase = "create", !.id = n,
                                !.subnet = s, !.driver = d])
         /\ IsCommand([c EXCEPT !.pc = "chains", !.phase = "default", !.id = n, !.subnet = s])
         /\ IsCommand([c EXCEPT !.pc = "load", !.phase = "remove", !.id = n])
         /\ IsCommand([c EXCEPT !.pc = "chains", !.phase = "start"])
<1>1. /\ "chains" \in ControlPoints /\ "chains" \notin HasSubnet /\ "chains" \notin HasGateway
      /\ "load" \in ControlPoints /\ "load" \notin HasSubnet /\ "load" \notin HasGateway
  BY DEF ControlPoints, HasSubnet, HasGateway
<1>2. "create" \in Phases /\ "default" \in Phases /\ "remove" \in Phases /\ "start" \in Phases
  BY DEF Phases
<1>3. c \in CommandType
  BY DEF IsCommand
<1>4. IsCommand([c EXCEPT !.pc = "chains", !.phase = "create", !.id = n,
                          !.subnet = s, !.driver = d])
  <2> DEFINE e == [c EXCEPT !.pc = "chains", !.phase = "create", !.id = n,
                            !.subnet = s, !.driver = d]
  <2>1. e \in CommandType
    BY <1>1, <1>2, <1>3 DEF CommandType
  <2>2. e.pc = "chains" /\ e.subnet = s /\ e.k = 1
    BY <1>3 DEF CommandType
  <2> HIDE DEF e
  <2> QED
    BY <1>1, <2>1, <2>2 DEF IsCommand, e
<1>5. IsCommand([c EXCEPT !.pc = "chains", !.phase = "default", !.id = n, !.subnet = s])
  <2> DEFINE e == [c EXCEPT !.pc = "chains", !.phase = "default", !.id = n, !.subnet = s]
  <2>1. e \in CommandType
    BY <1>1, <1>2, <1>3 DEF CommandType
  <2>2. e.pc = "chains" /\ e.subnet = s /\ e.k = 1
    BY <1>3 DEF CommandType
  <2> HIDE DEF e
  <2> QED
    BY <1>1, <2>1, <2>2 DEF IsCommand, e
<1>6. IsCommand([c EXCEPT !.pc = "load", !.phase = "remove", !.id = n])
  <2> DEFINE e == [c EXCEPT !.pc = "load", !.phase = "remove", !.id = n]
  <2>1. e \in CommandType
    BY <1>1, <1>2, <1>3 DEF CommandType
  <2>2. e.pc = "load"
    BY <1>3 DEF CommandType
  <2> HIDE DEF e
  <2> QED
    BY <1>1, <2>1, <2>2 DEF IsCommand, e
<1>7. IsCommand([c EXCEPT !.pc = "chains", !.phase = "start"])
  <2> DEFINE e == [c EXCEPT !.pc = "chains", !.phase = "start"]
  <2>1. e \in CommandType
    BY <1>1, <1>2, <1>3 DEF CommandType
  <2>2. e.pc = "chains" /\ e.phase = "start" /\ e.k = 1
    BY <1>3 DEF CommandType
  <2> HIDE DEF e
  <2> QED
    BY <1>1, <2>1, <2>2 DEF IsCommand, e
<1> QED
  BY <1>4, <1>5, <1>6, <1>7

\* At the start there is nothing.
LEMMA InitTyped == Init => TypeInv
<1> SUFFICES ASSUME Init PROVE TypeInv
  OBVIOUS
<1>1. WellFormed(subnets) /\ IsMap(subnets)
  BY NoSubnetsWellFormed DEF Init, WellFormed
<1>2. links \in [{} -> LinkType]
  BY DEF Init, NoNetworks
<1>3. rules \in [NetIds -> [Rules -> Nat]]
  BY DEF Init
<1> QED
  BY <1>1, <1>2, <1>3, IdleTyped, NothingTyped
     DEF Init, TypeInv, KernelTyped, CommandsTyped

\* A step that continues one command with a typed one keeps every command typed.
LEMMA ContinueTyped ==
  ASSUME CommandsTyped, NEW u \in Users, NEW c, IsCommand(c), Continue(u, c)
  PROVE  /\ proc' = [v \in Users |-> proc'[v]]
         /\ \A v \in Users : IsCommand(proc'[v])
  BY DEF CommandsTyped, Continue

\* So does an error or a panic, and it leaves a known tag.
LEMMA EndTyped ==
  ASSUME CommandsTyped, NEW u \in Users, Failed(u) \/ Panicked(u)
  PROVE  CommandsTyped'
<1>1. CutShort(proc[u]) \subseteq Mishaps \cup {"kernel"}
  BY DEF CutShort, Mishaps
<1>2. IsCommand([Idle EXCEPT !.phase = "start", !.pc = "walk"])
  BY IdleTyped, NothingTyped, CommandWalks
<1> QED
  BY <1>1, <1>2, IdleTyped, ContinueTyped DEF Failed, Panicked, CommandsTyped

\* A file, a bridge or what is left of them.
LEMMA FileTyped ==
  ASSUME NEW f \in NetworkFiles, NEW n \in NetIds, NEW x \in Configs \cup {Torn}
  PROVE  /\ [m \in DOMAIN f \cup {n} |-> IF m = n THEN x ELSE f[m]] \in NetworkFiles
         /\ [m \in DOMAIN f \ {n} |-> f[m]] \in NetworkFiles
         /\ \A m \in DOMAIN f : m \in NetIds /\ f[m] \in Configs \cup {Torn}
         /\ n \in DOMAIN f => [f EXCEPT ![n] = x] \in NetworkFiles
<1>1. PICK S \in SUBSET NetIds : f \in [S -> Configs \cup {Torn}]
  BY DEF NetworkFiles
<1> DEFINE Put == [m \in S \cup {n} |-> IF m = n THEN x ELSE f[m]]
           Cut == [m \in S \ {n} |-> f[m]]
<1>2. Put \in [S \cup {n} -> Configs \cup {Torn}] /\ S \cup {n} \in SUBSET NetIds
  BY <1>1
<1>3. Cut \in [S \ {n} -> Configs \cup {Torn}] /\ S \ {n} \in SUBSET NetIds
  BY <1>1
<1>4. n \in S => [f EXCEPT ![n] = x] \in [S -> Configs \cup {Torn}]
  BY <1>1
<1>5. DOMAIN f = S
  BY <1>1
<1> HIDE DEF Put, Cut
<1>6. Put \in NetworkFiles /\ Cut \in NetworkFiles
  BY <1>2, <1>3 DEF NetworkFiles
<1> QED
  BY <1>1, <1>4, <1>5, <1>6 DEF NetworkFiles, Put, Cut

-----------------------------------------------------------------------------
(* Every step keeps the types. *)

\* Steps that change the command only.
LEMMA ControlTyped ==
  ASSUME TypeInv, NEW u \in Users,
         \/ Type(u) \/ Exists(u) \/ NoGateway(u) \/ CheckDefault(u) \/ Walk(u)
         \/ Initialised(u) \/ Load(u) \/ FindLink(u) \/ Crash(u)
  PROVE  TypeInv'
<1> DEFINE c == proc[u]
<1>1. IsCommand(c) /\ c \in CommandType /\ CommandsTyped /\ files \in NetworkFiles
  BY DEF TypeInv, CommandsTyped, IsCommand
<1>2. UNCHANGED <<subnets, files, links, chains, rules>>
  BY DEF Type, Exists, NoGateway, CheckDefault, Walk, Initialised, Load, FindLink, Crash
<1>3. ASSUME NEW d, IsCommand(d), Continue(u, d), seen' \subseteq Mishaps \cup {"kernel"}
      PROVE  CommandsTyped'
  BY <1>1, <1>3, ContinueTyped DEF CommandsTyped
<1>4. ASSUME Failed(u) \/ Panicked(u) PROVE CommandsTyped'
  BY <1>1, <1>4, EndTyped
<1>5. seen \subseteq Mishaps \cup {"kernel"} /\ IsCommand(Idle)
  BY <1>1, IdleTyped DEF CommandsTyped
<1> HIDE DEF c
<1>6. ASSUME Type(u) PROVE CommandsTyped'
  <2>1. seen' \subseteq Mishaps \cup {"kernel"}
    BY <1>5, <1>6 DEF Type, Mishaps
  <2>2. Idle.k = 1
    BY DEF Idle
  <2>3. \A n \in NetIds, s \in Subnets, d \in Drivers :
          /\ IsCommand([Idle EXCEPT !.pc = "chains", !.phase = "create", !.id = n,
                                    !.subnet = s, !.driver = d])
          /\ IsCommand([Idle EXCEPT !.pc = "load", !.phase = "remove", !.id = n])
          /\ IsCommand([Idle EXCEPT !.pc = "chains", !.phase = "start"])
    BY <1>5, <2>2, CommandTyped
  <2>4. \E n \in NetIds : TRUE
    BY NetworkAssumptions
  <2>5. \E s \in Subnets : TRUE
    BY NetworkAssumptions
  <2>6. "nil" \in Drivers
    BY DEF Drivers
  <2>7. /\ \A n \in NetIds : IsCommand([Idle EXCEPT !.pc = "load", !.phase = "remove", !.id = n])
        /\ IsCommand([Idle EXCEPT !.pc = "chains", !.phase = "start"])
    BY <2>3, <2>4, <2>5, <2>6
  <2> QED
    BY <1>3, <1>6, <2>1, <2>3, <2>7 DEF Type
<1>7. ASSUME Exists(u) PROVE CommandsTyped'
  <2>1. "subnet" \in ControlPoints /\ "subnet" \notin HasGateway /\ "exists" \in HasSubnet
    BY DEF ControlPoints, HasSubnet, HasGateway
  <2>2. c.pc = "exists" => IsCommand([c EXCEPT !.pc = "subnet"])
    BY <1>1, <2>1, CommandAt
  <2> QED
    BY <1>3, <1>4, <1>5, <1>7, <2>2 DEF Exists, Goto, c
<1>8. ASSUME NoGateway(u) \/ Crash(u) PROVE CommandsTyped'
  BY <1>4, <1>8 DEF NoGateway, Crash
<1>9. ASSUME CheckDefault(u) PROVE CommandsTyped'
  <2>4. "walk" \in ControlPoints /\ "walk" \notin HasSubnet \cup HasGateway
    BY DEF ControlPoints, HasSubnet, HasGateway
  <2>1. IsCommand([c EXCEPT !.pc = "walk"])
    BY <1>1, <2>4, CommandAt
  <2>2. "nil" \in Drivers /\ Idle.k = 1
    BY DEF Drivers, Idle
  <2>3. IsCommand([Idle EXCEPT !.pc = "chains", !.phase = "default",
                               !.id = Default, !.subnet = DefaultSubnet])
    BY <1>5, <2>2, NetworkAssumptions, CommandTyped
  <2> QED
    BY <1>3, <1>5, <1>9, <2>1, <2>3 DEF CheckDefault, c
<1>10. ASSUME Walk(u) PROVE CommandsTyped'
  <2>1. IsCommand([c EXCEPT !.pc = "restore", !.todo = files])
    BY <1>1, CommandWalks
  <2> QED
    BY <1>3, <1>5, <1>10, <2>1 DEF Walk, c
<1>11. ASSUME Initialised(u) PROVE CommandsTyped'
  BY <1>3, <1>5, <1>11 DEF Initialised
<1>12. ASSUME Load(u) PROVE CommandsTyped'
  <2>1. ASSUME c.id \in DOMAIN files, files[c.id] # Torn
        PROVE  IsCommand([c EXCEPT !.pc = "release", !.subnet = files[c.id].subnet,
                                   !.gw = files[c.id].gw])
    <3>1. c.id \in NetIds
      BY <1>1 DEF CommandType
    <3>2. files[c.id] \in Configs
      BY <1>1, <2>1, <3>1, FileTyped
    <3> QED
      BY <1>1, <3>1, <3>2, CommandConfig
  <2> QED
    BY <1>3, <1>5, <1>12, <2>1 DEF Load, c
<1>13. ASSUME FindLink(u) PROVE CommandsTyped'
  <2>1. "unrule" \in ControlPoints /\ "unlink" \in HasSubnet \cap HasGateway
    BY DEF ControlPoints, HasSubnet, HasGateway
  <2>2. c.pc = "unlink" => IsCommand([c EXCEPT !.pc = "unrule"])
    BY <1>1, <2>1, CommandAt
  <2> QED
    BY <1>3, <1>4, <1>5, <1>13, <2>2 DEF FindLink, Goto, c
<1>14. CommandsTyped'
  BY <1>6, <1>7, <1>8, <1>9, <1>10, <1>11, <1>12, <1>13
<1> QED
  BY <1>2, <1>14 DEF TypeInv, KernelTyped

\* Steps on the map of subnets.
LEMMA SubnetTyped ==
  ASSUME TypeInv, NEW u \in Users, TakeSubnet(u) \/ TakeGateway(u) \/ ReleaseSubnet(u)
  PROVE  TypeInv'
<1> DEFINE c == proc[u]
<1>1. /\ IsCommand(c) /\ c \in CommandType /\ CommandsTyped
      /\ WellFormed(subnets)
  BY DEF TypeInv, CommandsTyped, IsCommand
<1>2. UNCHANGED <<files, links, chains, rules>>
  BY DEF TakeSubnet, TakeGateway, ReleaseSubnet
<1>3. ASSUME NEW d, IsCommand(d), Continue(u, d), seen' = seen PROVE CommandsTyped'
  BY <1>1, <1>3, ContinueTyped DEF CommandsTyped
<1>4. ASSUME Failed(u) \/ Panicked(u) PROVE CommandsTyped'
  BY <1>1, <1>4, EndTyped
<1> HIDE DEF c
<1>5. ASSUME TakeSubnet(u) PROVE CommandsTyped' /\ WellFormed(subnets)'
  <2>1. /\ "gateway" \in ControlPoints /\ "gateway" \notin HasGateway
        /\ {"subnet", "gateway"} \subseteq HasSubnet
    BY DEF ControlPoints, HasSubnet, HasGateway
  <2>2. c.pc = "subnet" => IsCommand([c EXCEPT !.pc = "gateway"]) /\ c.subnet \in Subnets
    BY <1>1, <2>1, CommandAt DEF IsCommand
  <2>3. CASE CanCreate(subnets, c.subnet)
    <3>1. WellFormed(WithSubnet(subnets, c.subnet))
      BY <1>1, <1>5, <2>2, <2>3, CreateWellFormed DEF TakeSubnet, c
    <3> QED
      BY <1>3, <1>5, <2>2, <2>3, <3>1 DEF TakeSubnet, Goto, c
  <2>4. CASE ~CanCreate(subnets, c.subnet)
    <3>1. subnets' = subnets /\ Failed(u)
      BY <1>5, <2>4 DEF TakeSubnet, c
    <3> QED
      BY <1>1, <1>4, <3>1
  <2> QED
    BY <2>3, <2>4
<1>6. ASSUME TakeGateway(u) PROVE CommandsTyped' /\ WellFormed(subnets)'
  <2> DEFINE o == FirstFree(subnets, c.subnet)
  <2>1. /\ c.pc = "gateway" /\ c.subnet \in DOMAIN subnets /\ FreeBits(subnets, c.subnet) # {}
        /\ subnets' = WithBit(subnets, c.subnet, o)
    BY <1>6 DEF TakeGateway, c
  <2>2. WellFormed(WithBit(subnets, c.subnet, o))
    BY <1>1, <2>1, AllocateWellFormed
  <2>3. c.subnet \in Small /\ o \in Offsets(c.subnet)
    BY <1>1, <2>1, FirstFreeIsFree DEF WellFormed, FreeBits
  <2>4. AddrOf(c.subnet, o) \in Addresses
    BY <2>3, OffsetOfAddrOf
  <2>5. IsCommand([c EXCEPT !.pc = "link", !.gw = AddrOf(c.subnet, o)])
    BY <1>1, <2>1, <2>4, CommandGateway
  <2> QED
    BY <1>3, <1>4, <1>6, <2>1, <2>2, <2>5 DEF TakeGateway, c
<1>7. ASSUME ReleaseSubnet(u) PROVE CommandsTyped' /\ WellFormed(subnets)'
  <2>1. "unlink" \in ControlPoints /\ {"release", "unlink"} \subseteq HasSubnet \cap HasGateway
    BY DEF ControlPoints, HasSubnet, HasGateway
  <2>2. c.pc = "release" => IsCommand([c EXCEPT !.pc = "unlink"])
    BY <1>1, <2>1, CommandAt
  <2>3. CASE ReleasePanics(subnets, c.subnet, c.gw)
    <3>1. subnets' = subnets /\ Panicked(u)
      BY <1>7, <2>3 DEF ReleaseSubnet, c
    <3> QED
      BY <1>1, <1>4, <3>1
  <2>4. CASE ~ReleasePanics(subnets, c.subnet, c.gw)
    <3>1. WellFormed(Released(subnets, c.subnet, c.gw))
      BY <1>1, <2>4, ReleaseWellFormed
    <3> QED
      BY <1>3, <1>7, <2>2, <2>4, <3>1 DEF ReleaseSubnet, Goto, c
  <2> QED
    BY <2>3, <2>4
<1> QED
  BY <1>2, <1>5, <1>6, <1>7 DEF TypeInv, KernelTyped

\* Steps on the network files.
LEMMA FilesTyped ==
  ASSUME TypeInv, NEW u \in Users, Truncate(u) \/ Write(u) \/ RemoveFile(u) \/ Restore(u)
  PROVE  TypeInv'
<1> DEFINE c == proc[u]
<1>1. /\ IsCommand(c) /\ c.id \in NetIds /\ c.todo \in NetworkFiles /\ CommandsTyped
      /\ files \in NetworkFiles /\ WellFormed(subnets)
  BY DEF TypeInv, CommandsTyped, IsCommand, CommandType
<1>2. UNCHANGED <<subnets, links, chains, rules, seen>>
  BY DEF Truncate, Write, RemoveFile, Restore
<1>3. ASSUME NEW d, IsCommand(d), Continue(u, d) PROVE CommandsTyped'
  BY <1>1, <1>2, <1>3, ContinueTyped DEF CommandsTyped
<1> HIDE DEF c
<1>4. ASSUME Truncate(u) PROVE CommandsTyped' /\ files' \in NetworkFiles
  <2>1. "write" \in ControlPoints /\ {"truncate", "write"} \subseteq HasSubnet \cap HasGateway
    BY DEF ControlPoints, HasSubnet, HasGateway
  <2>2. c.pc = "truncate" => IsCommand([c EXCEPT !.pc = "write"])
    BY <1>1, <2>1, CommandAt
  <2> QED
    BY <1>1, <1>3, <1>4, <2>2, FileTyped DEF Truncate, Goto, c
<1>5. ASSUME Write(u) PROVE CommandsTyped' /\ files' \in NetworkFiles
  <2>1. c.pc = "write" => Config(c) \in Configs
    BY <1>1 DEF IsCommand, Config, Configs, HasSubnet, HasGateway
  <2>2. /\ IsCommand([Idle EXCEPT !.phase = "start", !.pc = "walk"])
        /\ IsCommand([Idle EXCEPT !.phase = "start", !.pc = "restore", !.todo = c.todo])
    BY <1>1, IdleTyped, NothingTyped, CommandWalks
  <2>3. IsCommand(Made(c))
    BY <2>2, IdleTyped DEF Made
  <2> QED
    BY <1>1, <1>3, <1>5, <2>1, <2>3, FileTyped DEF Write, c
<1>6. ASSUME RemoveFile(u) PROVE CommandsTyped' /\ files' \in NetworkFiles
  BY <1>1, <1>3, <1>6, IdleTyped, FileTyped DEF RemoveFile, c
<1>7. ASSUME Restore(u) PROVE CommandsTyped' /\ files' \in NetworkFiles
  <2>1. PICK n \in DOMAIN c.todo :
          LET rest == [m \in DOMAIN c.todo \ {n} |-> c.todo[m]] IN
          Continue(u,
            CASE n \in DOMAIN links -> [c EXCEPT !.todo = rest]
              [] n \notin DOMAIN links /\ c.todo[n] = Torn -> Idle
              [] OTHER -> [c EXCEPT !.phase = "restore", !.pc = "link", !.id = n,
                                    !.subnet = c.todo[n].subnet, !.gw = c.todo[n].gw,
                                    !.todo = rest])
    BY <1>7 DEF Restore, c
  <2> DEFINE rest == [m \in DOMAIN c.todo \ {n} |-> c.todo[m]]
  <2>2. n \in NetIds /\ c.todo[n] \in Configs \cup {Torn}
    BY <1>1, FileTyped
  <2>3. rest \in NetworkFiles
    BY <1>1, <2>2, FileTyped
  <2>4. c.pc = "restore"
    BY <1>7 DEF Restore, c
  <2> HIDE DEF rest
  <2>5. IsCommand([c EXCEPT !.todo = rest])
    BY <1>1, <2>3, <2>4, CommandWalks
  <2>6. c.todo[n] # Torn =>
          IsCommand([c EXCEPT !.phase = "restore", !.pc = "link", !.id = n,
                              !.subnet = c.todo[n].subnet, !.gw = c.todo[n].gw,
                              !.todo = rest])
    BY <1>1, <2>2, <2>3, CommandConfig
  <2> QED
    BY <1>1, <1>3, <1>7, <2>1, <2>5, <2>6, IdleTyped DEF Restore, rest
<1> QED
  BY <1>1, <1>2, <1>4, <1>5, <1>6, <1>7 DEF TypeInv, KernelTyped

\* Steps on the kernel's side.
LEMMA KernelStepTyped ==
  ASSUME TypeInv, NEW u \in Users,
         MakeChain(u) \/ AddLink(u) \/ AddAddress(u) \/ SetUp(u) \/ AddRule(u)
           \/ DeleteRule(u) \/ DeleteLink(u)
  PROVE  TypeInv'
<1> DEFINE c == proc[u]
<1>1. /\ IsCommand(c) /\ c.id \in NetIds /\ c.k \in RuleNumbers /\ CommandsTyped
      /\ KernelTyped
  BY DEF TypeInv, CommandsTyped, IsCommand, CommandType
<1>2. UNCHANGED <<subnets, files>>
  BY DEF MakeChain, AddLink, AddAddress, SetUp, AddRule, DeleteRule, DeleteLink
<1>3. ASSUME NEW d, IsCommand(d), Continue(u, d), seen' = seen PROVE CommandsTyped'
  BY <1>1, <1>3, ContinueTyped DEF CommandsTyped
<1>4. ASSUME Failed(u) \/ Panicked(u) PROVE CommandsTyped'
  BY <1>1, <1>4, EndTyped
<1>5. ASSUME NEW pc \in {"address", "up", "rules", "truncate", "unrule", "dellink", "rmfile"},
             c.pc \in HasGateway
      PROVE  /\ IsCommand([c EXCEPT !.pc = pc])
             /\ \A k \in RuleNumbers : IsCommand([c EXCEPT !.k = k, !.pc = pc])
  <2>1. pc \in ControlPoints /\ pc # "chains"
    BY DEF ControlPoints
  <2>2. c.pc \in HasSubnet
    BY <1>5 DEF HasSubnet
  <2> QED
    BY <1>1, <1>5, <2>1, <2>2, CommandAt
<1>6. /\ "link" \in HasGateway /\ "address" \in HasGateway /\ "up" \in HasGateway
      /\ "rules" \in HasGateway /\ "unrule" \in HasGateway /\ "dellink" \in HasGateway
  BY DEF HasGateway
<1>7. 1 \in RuleNumbers /\ \A k \in RuleNumbers : k < 6 => k + 1 \in RuleNumbers
  BY DEF RuleNumbers
<1>8. c.pc \in HasGateway => Config(c) \in Configs /\ Rule(c.k, c.subnet) \in Rules
  BY <1>1, RuleTyped DEF IsCommand, Config, Configs, HasSubnet
<1> DEFINE S == DOMAIN links
<1>9. links \in [S -> LinkType] /\ S \in SUBSET NetIds
  BY <1>1 DEF KernelTyped
<1> HIDE DEF S
<1>10. ASSUME NEW T \in SUBSET NetIds, links' \in [T -> LinkType],
              UNCHANGED <<chains, rules>>
       PROVE  KernelTyped'
  BY <1>1, <1>10 DEF KernelTyped
<1> HIDE DEF c
<1>11. ASSUME MakeChain(u) PROVE CommandsTyped' /\ KernelTyped'
  <2>1. c.pc = "chains" /\ c.k \in 1 .. 4
    BY <1>1, <1>11 DEF MakeChain, IsCommand, RuleNumbers, c
  <2>2. ChainSteps[c.k] \in {"filter", "nat", "prerouting", "output"}
    BY <2>1 DEF ChainSteps
  <2>3. KernelTyped'
    BY <1>1, <1>11, <2>2 DEF MakeChain, KernelTyped, c
  <2>4. /\ "default" \in ControlPoints /\ "default" \notin HasSubnet /\ "default" \notin HasGateway
        /\ "exists" \in ControlPoints /\ "exists" \in HasSubnet /\ "exists" \notin HasGateway
    BY DEF ControlPoints, HasSubnet, HasGateway
  <2>5. IsCommand(ChainsDone(c))
    <3>1. CASE c.phase = "start"
      <4>1. IsCommand([c EXCEPT !.k = 1, !.pc = "default"])
        BY <1>1, <1>7, <2>4, CommandAt
      <4> QED
        BY <3>1, <4>1 DEF ChainsDone
    <3>2. CASE c.phase # "start"
      <4> DEFINE e == [c EXCEPT !.k = 1, !.pc = "exists"]
      <4>1. e \in CommandType
        BY <1>1, <1>7, <2>4 DEF IsCommand, CommandType
      <4>2. e.pc = "exists" /\ e.subnet = c.subnet
        BY <1>1 DEF IsCommand, CommandType
      <4>3. c.subnet \in Subnets
        BY <1>1, <2>1, <3>2 DEF IsCommand
      <4> HIDE DEF e
      <4>4. IsCommand(e)
        BY <2>4, <4>1, <4>2, <4>3 DEF IsCommand
      <4> QED
        BY <3>2, <4>4 DEF ChainsDone, e
    <3> QED
      BY <3>1, <3>2
  <2>6. c.k # 4 => IsCommand([c EXCEPT !.k = c.k + 1])
    <3>1. c.k # 4 => c.k + 1 \in 1 .. 4
      BY <2>1
    <3> QED
      BY <1>1, <2>1, <3>1, CommandCount
  <2>7. CommandsTyped'
    BY <1>3, <1>11, <2>5, <2>6 DEF MakeChain, c
  <2> QED
    BY <2>3, <2>7
<1>12. ASSUME AddLink(u) PROVE CommandsTyped' /\ KernelTyped'
  <2>1. CommandsTyped'
    BY <1>3, <1>5, <1>6, <1>12 DEF AddLink, Goto, c
  <2>2. /\ [addrs |-> {}, up |-> FALSE] \in LinkType
        /\ S \cup {c.id} \in SUBSET NetIds
    BY <1>1, <1>9 DEF LinkType
  <2>3. CASE c.id \in DOMAIN links
    BY <1>9, <1>10, <1>12, <2>1, <2>3 DEF AddLink, c, S
  <2>4. CASE c.id \notin DOMAIN links
    <3>1. links' = [n \in S \cup {c.id} |->
                      IF n = c.id THEN [addrs |-> {}, up |-> FALSE] ELSE links[n]]
      BY <1>12, <2>4 DEF AddLink, c, S
    <3>2. links' \in [S \cup {c.id} -> LinkType]
      BY <1>9, <2>2, <3>1
    <3> QED
      BY <1>10, <1>12, <2>1, <2>2, <3>2 DEF AddLink
  <2> QED
    BY <2>1, <2>3, <2>4
<1>13. ASSUME AddAddress(u) PROVE CommandsTyped' /\ KernelTyped'
  <2>1. CommandsTyped'
    BY <1>3, <1>4, <1>5, <1>6, <1>13 DEF AddAddress, Goto, c
  <2>2. links' = links \/ (c.pc \in HasGateway /\ c.id \in DOMAIN links
           /\ links' = [links EXCEPT ![c.id].addrs = @ \cup {Config(c)}])
    BY <1>6, <1>13 DEF AddAddress, c
  <2>3. links' \in [S -> LinkType]
    BY <1>8, <1>9, <2>2 DEF LinkType, S
  <2> QED
    BY <1>9, <1>10, <1>13, <2>1, <2>3 DEF AddAddress
<1>14. ASSUME SetUp(u) PROVE CommandsTyped' /\ KernelTyped'
  <2>1. CommandsTyped'
    BY <1>3, <1>4, <1>5, <1>6, <1>14 DEF SetUp, Goto, c
  <2>2. links' = links \/ (c.id \in DOMAIN links /\ links' = [links EXCEPT ![c.id].up = TRUE])
    BY <1>14 DEF SetUp, c
  <2>3. links' \in [S -> LinkType]
    BY <1>9, <2>2 DEF LinkType, S
  <2> QED
    BY <1>9, <1>10, <1>14, <2>1, <2>3 DEF SetUp
<1>15. ASSUME AddRule(u) PROVE CommandsTyped' /\ KernelTyped'
  <2>1. c.pc = "rules"
    BY <1>15 DEF AddRule, c
  <2>2. /\ c.k < 6 => IsCommand([c EXCEPT !.k = c.k + 1])
        /\ IsCommand([c EXCEPT !.k = 1, !.pc = "truncate"])
    BY <1>1, <1>5, <1>6, <1>7, <2>1, CommandCount
  <2>3. CommandsTyped'
    BY <1>3, <1>4, <1>15, <2>2 DEF AddRule, c
  <2>4. rules' \in [NetIds -> [Rules -> Nat]]
    <3>1. rules \in [NetIds -> [Rules -> Nat]] /\ Rule(c.k, c.subnet) \in Rules
      BY <1>1, <1>6, <1>8, <2>1 DEF KernelTyped
    <3> QED
      BY <1>1, <1>15, <3>1 DEF AddRule, c
  <2> QED
    BY <1>1, <1>15, <2>3, <2>4 DEF AddRule, KernelTyped
<1>16. ASSUME DeleteRule(u) PROVE CommandsTyped' /\ KernelTyped'
  <2>1. c.pc = "unrule"
    BY <1>16 DEF DeleteRule, c
  <2>2. /\ c.k < 6 => IsCommand([c EXCEPT !.k = c.k + 1])
        /\ IsCommand([c EXCEPT !.pc = "dellink"])
    BY <1>1, <1>5, <1>6, <1>7, <2>1, CommandCount
  <2>3. CommandsTyped'
    BY <1>3, <1>4, <1>16, <2>2 DEF DeleteRule, c
  <2>4. rules' \in [NetIds -> [Rules -> Nat]]
    <3>1. rules \in [NetIds -> [Rules -> Nat]] /\ Rule(c.k, c.subnet) \in Rules
      BY <1>1, <1>6, <1>8, <2>1 DEF KernelTyped
    <3> QED
      BY <1>1, <1>16, <3>1 DEF DeleteRule, c
  <2> QED
    BY <1>1, <1>16, <2>3, <2>4 DEF DeleteRule, KernelTyped
<1>17. ASSUME DeleteLink(u) PROVE CommandsTyped' /\ KernelTyped'
  <2>1. CommandsTyped'
    BY <1>3, <1>4, <1>5, <1>6, <1>17 DEF DeleteLink, Goto, c
  <2>2. CASE c.id \notin DOMAIN links
    BY <1>9, <1>10, <1>17, <2>1, <2>2 DEF DeleteLink, c, S
  <2>3. CASE c.id \in DOMAIN links
    <3>1. links' = [n \in S \ {c.id} |-> links[n]]
      BY <1>17, <2>3 DEF DeleteLink, c, S
    <3>2. links' \in [S \ {c.id} -> LinkType] /\ S \ {c.id} \in SUBSET NetIds
      BY <1>9, <3>1
    <3> QED
      BY <1>10, <1>17, <2>1, <3>2 DEF DeleteLink
  <2> QED
    BY <2>1, <2>2, <2>3
<1> QED
  BY <1>2, <1>11, <1>12, <1>13, <1>14, <1>15, <1>16, <1>17 DEF TypeInv

LEMMA RebootTyped ==
  ASSUME TypeInv, Reboot
  PROVE  TypeInv'
<1>1. \A u \in Users : CutShort(proc[u]) \subseteq Mishaps \cup {"kernel"}
  BY DEF CutShort, Mishaps
<1>2. CommandsTyped'
  BY <1>1, IdleTyped DEF Reboot, TypeInv, CommandsTyped, Busy, Mishaps
<1>3. links' \in [{} -> LinkType] /\ {} \in SUBSET NetIds
  BY DEF Reboot, NoNetworks
<1>4. KernelTyped'
  BY <1>3 DEF Reboot, KernelTyped
<1> QED
  BY <1>2, <1>4 DEF Reboot, TypeInv

LEMMA TypeStep == TypeInv /\ [Next]_vars => TypeInv'
<1> SUFFICES ASSUME TypeInv, [Next]_vars PROVE TypeInv'
  OBVIOUS
<1>1. ASSUME UNCHANGED vars PROVE TypeInv'
  BY <1>1 DEF vars, TypeInv, KernelTyped, CommandsTyped
<1>2. ASSUME NEW u \in Users, Type(u) \/ Step(u) \/ Crash(u) PROVE TypeInv'
  BY <1>2, ControlTyped, SubnetTyped, FilesTyped, KernelStepTyped DEF Step
<1> QED
  BY <1>1, <1>2, RebootTyped DEF Next

\* Whatever overlaps, is killed or reboots, files, bridges, rules and the map
\* of subnets keep their types, no rule is deleted that is not there, and a
\* command that works on a subnet or a gateway has one.
THEOREM NetworkTypeCorrect == Spec => []TypeOK
<1>1. Spec => []TypeInv
  BY InitTyped, TypeStep, PTL DEF Spec
<1> QED
  BY <1>1, TypeInvTypes, PTL

-----------------------------------------------------------------------------
(* A network keeps its subnet. *)

Undoing == {"unlink", "unrule", "dellink", "rmfile"}
Making == {"link", "address", "up", "rules", "truncate", "write"}

\* While no removal ends half way and commands do not overlap.
Clean == seen \cap {"delete", "overlap"} = {}

Whole(f) == {n \in DOMAIN f : f[n] # Torn}

\* The map m knows the subnet of x, and x has its gateway's address.
Sound(m, x) ==
  /\ x.subnet \in DOMAIN m
  /\ GatewayBit \in m[x.subnet]
  /\ x.gw = Gateway(x.subnet)

Unique(f) == \A n, k \in Whole(f) : f[n].subnet = f[k].subnet => n = k

Removes(c, n) == c.id = n /\ c.pc \in Undoing

\* Whoever creates a network rather than restores it.
Creates(c) == c.phase = "create" \/ c.phase = "default"

\* What a command knows at each of its points: the map m and the files f have
\* not changed behind its back.
CommandOK(m, f, c) ==
  /\ c.pc = "chains" => Creates(c) \/ c.phase = "start"
  /\ c.pc \in {"exists", "subnet", "gateway"} => Creates(c)
  /\ c.pc = "gateway" => c.subnet \in DOMAIN m /\ m[c.subnet] = {}
  /\ c.pc \in Making =>
       /\ Sound(m, Config(c))
       /\ \A n \in Whole(f) : f[n].subnet = c.subnet => n = c.id
  /\ c.pc = "release" => c.id \in Whole(f) /\ f[c.id] = Config(c)
  /\ c.pc = "restore" \/ (c.pc \in Making /\ ~Creates(c)) =>
       \A n \in DOMAIN c.todo :
         /\ n \in DOMAIN f /\ f[n] = c.todo[n]
         /\ c.pc \in Making => n # c.id

Serial(p) == \A u, v \in Users : p[u].pc = "idle" \/ p[v].pc = "idle" \/ u = v

\* The inductive invariant: one command at a time, no subnet twice, every file
\* sound but for the one being removed.
Keeps(m, f, p) ==
  /\ Serial(p)
  /\ Unique(f)
  /\ \A n \in Whole(f) : Sound(m, f[n]) \/ \E u \in Users : Removes(p[u], n)
  /\ \A u \in Users : CommandOK(m, f, p[u])

HInv == TypeInv /\ (Clean => Keeps(subnets, files, proc))

\* Everyone but u is idle.
Alone(p, u) == \A v \in Users : v # u => p[v].pc = "idle"

LEMMA IdleOK ==
  ASSUME NEW m, NEW f, NEW c, c.pc \in {"idle", "walk", "default", "load"}
  PROVE  CommandOK(m, f, c)
  BY DEF CommandOK, Making

\* The one busy command goes on as d, in a map m and files f that are sound.
LEMMA KeepsStep ==
  ASSUME NEW m, NEW f, NEW u \in Users, NEW d, Alone(proc, u), CommandsTyped,
         Continue(u, d), Unique(f), CommandOK(m, f, d),
         \A n \in Whole(f) : Sound(m, f[n]) \/ Removes(d, n)
  PROVE  Keeps(m, f, proc')
<1>1. \A v \in Users : proc'[v] = IF v = u THEN d ELSE proc[v]
  BY DEF CommandsTyped, Continue
<1>2. Serial(proc')
  BY <1>1 DEF Serial, Alone
<1>3. \A v \in Users : CommandOK(m, f, proc'[v])
  BY <1>1, IdleOK DEF Alone
<1>4. \A n \in Whole(f) : Sound(m, f[n]) \/ \E v \in Users : Removes(proc'[v], n)
  BY <1>1
<1> QED
  BY <1>2, <1>3, <1>4 DEF Keeps

\* What is known when a busy command takes a step.
LEMMA KeepsNow ==
  ASSUME HInv, Clean, NEW u \in Users, proc[u].pc # "idle"
  PROVE  /\ Alone(proc, u)
         /\ Unique(files)
         /\ CommandOK(subnets, files, proc[u])
         /\ \A n \in Whole(files) : Sound(subnets, files[n]) \/ Removes(proc[u], n)
         /\ proc[u].pc \notin Undoing => \A n \in Whole(files) : Sound(subnets, files[n])
<1>1. Keeps(subnets, files, proc)
  BY DEF HInv
<1>2. Alone(proc, u)
  BY <1>1 DEF Keeps, Serial, Alone
<1>3. \A n \in Whole(files) : Sound(subnets, files[n]) \/ Removes(proc[u], n)
  BY <1>1, <1>2 DEF Keeps, Alone, Removes, Undoing
<1> QED
  BY <1>1, <1>2, <1>3 DEF Keeps, Removes

\* The tags only grow, but for "kernel".
LEMMA CleanBefore ==
  ASSUME Clean', seen \subseteq seen'
  PROVE  Clean
  BY DEF Clean

\* A command that ends where it is: not in a removal that has begun.
LEMMA KeepsEnd ==
  ASSUME HInv, Clean', NEW u \in Users, proc[u].pc # "idle", Failed(u) \/ Panicked(u),
         NEW m, \A n \in Whole(files) : Sound(subnets, files[n]) => Sound(m, files[n])
  PROVE  Keeps(m, files, proc')
<1>1. seen' = seen \cup CutShort(proc[u])
  BY DEF Failed, Panicked
<1>2. Clean /\ proc[u].pc \notin Undoing
  BY <1>1 DEF Clean, CutShort, Undoing
<1>3. CommandsTyped
  BY DEF HInv, TypeInv
<1> DEFINE w == [Idle EXCEPT !.phase = "start", !.pc = "walk"]
<1>4. Idle.pc = "idle" /\ w.pc = "walk"
  BY DEF Idle
<1>5. Continue(u, Idle) \/ Continue(u, w)
  BY DEF Failed, Panicked
<1> HIDE DEF w
<1>6. CommandOK(m, files, Idle) /\ CommandOK(m, files, w)
  BY <1>4, IdleOK
<1>7. Alone(proc, u) /\ Unique(files) /\ \A n \in Whole(files) : Sound(m, files[n])
  BY <1>2, KeepsNow
<1> QED
  BY <1>3, <1>5, <1>6, <1>7, KeepsStep

\* A file that is torn or removed.
LEMMA FewerFiles ==
  ASSUME NEW f, NEW g, NEW n, Unique(f), DOMAIN g \subseteq DOMAIN f \cup {n},
         \A k \in DOMAIN g : k # n => g[k] = f[k],
         n \in DOMAIN g => g[n] = Torn
  PROVE  /\ Unique(g)
         /\ Whole(g) \subseteq Whole(f) \ {n}
         /\ \A k \in Whole(g) : g[k] = f[k]
<1>1. \A k \in Whole(g) : k # n /\ k \in Whole(f) /\ g[k] = f[k]
  BY DEF Whole
<1> QED
  BY <1>1 DEF Unique

\* Steps that leave subnets and files alone.
LEMMA KeepsControl ==
  ASSUME HInv, Clean', NEW u \in Users,
         \/ Type(u) \/ MakeChain(u) \/ Exists(u) \/ NoGateway(u) \/ AddLink(u)
         \/ AddAddress(u) \/ SetUp(u) \/ AddRule(u) \/ CheckDefault(u) \/ Walk(u)
         \/ Initialised(u) \/ Load(u) \/ FindLink(u) \/ DeleteRule(u)
         \/ DeleteLink(u) \/ Crash(u) \/ Restore(u)
  PROVE  Keeps(subnets, files, proc')
<1> DEFINE c == proc[u]
<1>1. CommandsTyped /\ IsCommand(c) /\ c \in CommandType /\ files \in NetworkFiles
  BY DEF HInv, TypeInv, CommandsTyped, IsCommand
<1>2. ASSUME Failed(u) \/ Panicked(u), c.pc # "idle"
      PROVE  Keeps(subnets, files, proc')
  BY <1>2, KeepsEnd
<1> HIDE DEF c
<1>3. ASSUME NEW d, Continue(u, d), c.pc # "idle", seen' = seen,
             c.pc \in Undoing => d.pc \in Undoing /\ d.id = c.id,
             CommandOK(subnets, files, c) => CommandOK(subnets, files, d)
      PROVE  Keeps(subnets, files, proc')
  <2>1. Clean
    BY <1>3 DEF Clean
  <2>2. /\ Alone(proc, u) /\ Unique(files) /\ CommandOK(subnets, files, c)
        /\ \A n \in Whole(files) : Sound(subnets, files[n]) \/ Removes(c, n)
    BY <1>3, <2>1, KeepsNow DEF c
  <2>3. \A n \in Whole(files) : Sound(subnets, files[n]) \/ Removes(d, n)
    BY <1>3, <2>2 DEF Removes
  <2> QED
    BY <1>1, <1>3, <2>2, <2>3, KeepsStep
<1>4. ASSUME Type(u) PROVE Keeps(subnets, files, proc')
  <2>1. Busy = {} /\ seen' = seen
    BY <1>4 DEF Type, Clean
  <2>2. Keeps(subnets, files, proc) /\ \A v \in Users : proc[v].pc = "idle"
    BY <2>1 DEF HInv, Clean, Busy
  <2>3. \A n \in Whole(files) : Sound(subnets, files[n])
    BY <2>2 DEF Keeps, Removes, Undoing
  <2>4. ASSUME NEW d, Continue(u, d),
               d.pc = "load" \/ (d.pc = "chains" /\ (Creates(d) \/ d.phase = "start"))
        PROVE  Keeps(subnets, files, proc')
    <3>1. CommandOK(subnets, files, d)
      BY <2>4 DEF CommandOK, Making
    <3>2. Alone(proc, u) /\ Unique(files)
      BY <2>2 DEF Alone, Keeps
    <3> QED
      BY <1>1, <2>3, <2>4, <3>1, <3>2, KeepsStep
  <2>5. ASSUME NEW n \in NetIds, NEW s \in Subnets, NEW e \in Drivers,
               Continue(u, [Idle EXCEPT !.pc = "chains", !.phase = "create", !.id = n,
                                        !.subnet = s, !.driver = e])
        PROVE  Keeps(subnets, files, proc')
    <3> DEFINE d == [Idle EXCEPT !.pc = "chains", !.phase = "create", !.id = n,
                                 !.subnet = s, !.driver = e]
    <3>1. d.pc = "chains" /\ d.phase = "create"
      BY DEF Idle
    <3> HIDE DEF d
    <3> QED
      BY <2>4, <2>5, <3>1 DEF Creates, d
  <2>6. ASSUME NEW n \in NetIds,
               Continue(u, [Idle EXCEPT !.pc = "load", !.phase = "remove", !.id = n])
        PROVE  Keeps(subnets, files, proc')
    <3> DEFINE d == [Idle EXCEPT !.pc = "load", !.phase = "remove", !.id = n]
    <3>1. d.pc = "load"
      BY DEF Idle
    <3> HIDE DEF d
    <3> QED
      BY <2>4, <2>6, <3>1 DEF d
  <2>7. ASSUME Continue(u, [Idle EXCEPT !.pc = "chains", !.phase = "start"])
        PROVE  Keeps(subnets, files, proc')
    <3> DEFINE d == [Idle EXCEPT !.pc = "chains", !.phase = "start"]
    <3>1. d.pc = "chains" /\ d.phase = "start"
      BY DEF Idle
    <3> HIDE DEF d
    <3> QED
      BY <2>4, <2>7, <3>1 DEF d
  <2> QED
    BY <1>4, <2>5, <2>6, <2>7 DEF Type
<1>5. ASSUME MakeChain(u) PROVE Keeps(subnets, files, proc')
  <2>1. c.pc = "chains" /\ seen' = seen
    BY <1>5 DEF MakeChain, c
  <2>2. CommandOK(subnets, files, c) =>
          /\ CommandOK(subnets, files, ChainsDone(c))
          /\ CommandOK(subnets, files, [c EXCEPT !.k = c.k + 1])
    BY <1>1, <2>1 DEF CommandOK, Making, ChainsDone, Creates, CommandType
  <2>3. Continue(u, ChainsDone(c)) \/ Continue(u, [c EXCEPT !.k = c.k + 1])
    BY <1>5 DEF MakeChain, c
  <2> QED
    BY <1>3, <2>1, <2>2, <2>3 DEF Undoing
<1>6. ASSUME Exists(u) PROVE Keeps(subnets, files, proc')
  <2>1. CommandOK(subnets, files, c) => CommandOK(subnets, files, [c EXCEPT !.pc = "subnet"])
    BY <1>1, <1>6 DEF Exists, CommandOK, Making, Creates, CommandType, c
  <2> QED
    BY <1>2, <1>3, <1>6, <2>1 DEF Exists, Goto, Undoing, c
<1>7. ASSUME NoGateway(u) \/ Crash(u) PROVE Keeps(subnets, files, proc')
  BY <1>2, <1>7 DEF NoGateway, Crash, Busy, c
<1>8. ASSUME AddLink(u) \/ AddAddress(u) \/ SetUp(u) \/ AddRule(u)
      PROVE  Keeps(subnets, files, proc')
  <2>1. c.pc \in Making /\ c.pc # "idle" /\ c.pc \notin Undoing
    BY <1>8 DEF AddLink, AddAddress, SetUp, AddRule, Making, Undoing, c
  <2>2. ASSUME NEW pc \in Making, NEW k
        PROVE  CommandOK(subnets, files, c) =>
                 /\ CommandOK(subnets, files, [c EXCEPT !.pc = pc])
                 /\ CommandOK(subnets, files, [c EXCEPT !.k = k])
                 /\ CommandOK(subnets, files, [c EXCEPT !.k = k, !.pc = pc])
    BY <1>1, <2>1, <2>2 DEF CommandOK, Making, Creates, Config, CommandType
  <2>3. {"address", "up", "rules", "truncate"} \subseteq Making
    BY DEF Making
  <2>4. \/ Failed(u) \/ Panicked(u)
        \/ seen' = seen /\ \E pc \in Making, k \in Nat :
             \/ Continue(u, [c EXCEPT !.pc = pc])
             \/ Continue(u, [c EXCEPT !.k = k])
             \/ Continue(u, [c EXCEPT !.k = k, !.pc = pc])
    <3>1. 1 \in Nat /\ c.k + 1 \in Nat
      BY <1>1 DEF CommandType, RuleNumbers
    <3> QED
      BY <1>8, <2>3, <3>1 DEF AddLink, AddAddress, SetUp, AddRule, Goto, c
  <2> QED
    BY <1>2, <1>3, <2>1, <2>2, <2>4
<1>9. ASSUME FindLink(u) \/ DeleteRule(u) \/ DeleteLink(u)
      PROVE  Keeps(subnets, files, proc')
  <2>1. c.pc \in Undoing /\ c.pc # "idle"
    BY <1>9 DEF FindLink, DeleteRule, DeleteLink, Undoing, c
  <2>2. ASSUME NEW d, d.pc \in Undoing
        PROVE  CommandOK(subnets, files, d)
    BY <2>2 DEF CommandOK, Making, Undoing
  <2>3. ASSUME NEW k, NEW pc \in {"unrule", "dellink", "rmfile"}
        PROVE  /\ [c EXCEPT !.k = k].pc \in Undoing /\ [c EXCEPT !.k = k].id = c.id
               /\ [c EXCEPT !.pc = pc].pc \in Undoing /\ [c EXCEPT !.pc = pc].id = c.id
    BY <1>1, <2>1 DEF CommandType, Undoing
  <2>4. \/ Failed(u)
        \/ seen' = seen /\ \E pc \in {"unrule", "dellink", "rmfile"}, k \in Int :
             Continue(u, [c EXCEPT !.pc = pc]) \/ Continue(u, [c EXCEPT !.k = k])
    <3>1. c.k + 1 \in Int
      BY <1>1 DEF CommandType, RuleNumbers
    <3> QED
      BY <1>9, <3>1 DEF FindLink, DeleteRule, DeleteLink, Goto, c
  <2>5. ASSUME NEW pc \in {"unrule", "dellink", "rmfile"}, NEW k, seen' = seen,
               Continue(u, [c EXCEPT !.pc = pc]) \/ Continue(u, [c EXCEPT !.k = k])
        PROVE  Keeps(subnets, files, proc')
    <3> DEFINE d == [c EXCEPT !.pc = pc]
               e == [c EXCEPT !.k = k]
    <3>1. /\ d.pc \in Undoing /\ d.id = c.id /\ e.pc \in Undoing /\ e.id = c.id
          /\ Continue(u, d) \/ Continue(u, e)
      BY <2>3, <2>5
    <3> HIDE DEF d, e
    <3> QED
      BY <1>3, <2>1, <2>2, <2>5, <3>1
  <2> QED
    BY <1>2, <2>1, <2>4, <2>5
<1>10. ASSUME CheckDefault(u) PROVE Keeps(subnets, files, proc')
  <2>1. ASSUME NEW d, d.pc = "walk" \/ (d.pc = "chains" /\ d.phase = "default")
        PROVE  CommandOK(subnets, files, d)
    BY <2>1 DEF CommandOK, Making, Creates
  <2>2. c.pc = "default" /\ seen' = seen
    BY <1>10 DEF CheckDefault, c
  <2> DEFINE w == [c EXCEPT !.pc = "walk"]
             d == [Idle EXCEPT !.pc = "chains", !.phase = "default", !.id = Default,
                               !.subnet = DefaultSubnet]
  <2>3. w.pc = "walk" /\ d.pc = "chains" /\ d.phase = "default"
    BY <1>1 DEF CommandType, Idle
  <2>4. Continue(u, w) \/ Continue(u, d)
    BY <1>10 DEF CheckDefault, c
  <2> HIDE DEF w, d
  <2> QED
    BY <1>3, <2>1, <2>2, <2>3, <2>4 DEF Undoing
<1>11. ASSUME Walk(u) PROVE Keeps(subnets, files, proc')
  <2> DEFINE d == [c EXCEPT !.pc = "restore", !.todo = files]
  <2>1. d.pc = "restore" /\ d.todo = files
    BY <1>1 DEF CommandType
  <2>2. c.pc = "walk" /\ seen' = seen /\ Continue(u, d)
    BY <1>11 DEF Walk, c
  <2> HIDE DEF d
  <2>3. CommandOK(subnets, files, d)
    BY <2>1 DEF CommandOK, Making
  <2> QED
    BY <1>3, <2>2, <2>3 DEF Undoing
<1>12. ASSUME Initialised(u) PROVE Keeps(subnets, files, proc')
  <2>1. Idle.pc = "idle"
    BY DEF Idle
  <2> QED
    BY <1>3, <1>12, <2>1, IdleOK DEF Initialised, Undoing, c
<1>13. ASSUME Load(u) PROVE Keeps(subnets, files, proc')
  <2>1. c.pc = "load" /\ seen' = seen
    BY <1>13 DEF Load, c
  <2>2. CASE c.id \in DOMAIN files /\ files[c.id] # Torn
    <3> DEFINE d == [c EXCEPT !.pc = "release", !.subnet = files[c.id].subnet,
                              !.gw = files[c.id].gw]
    <3>1. d.pc = "release" /\ d.id = c.id /\ d.subnet = files[c.id].subnet
          /\ d.gw = files[c.id].gw
      BY <1>1 DEF CommandType
    <3>2. files[c.id] \in Configs
      <4>1. c.id \in NetIds
        BY <1>1 DEF CommandType
      <4> QED
        BY <1>1, <2>2, <4>1, FileTyped
    <3>3. Continue(u, d)
      BY <1>13, <2>2 DEF Load, c
    <3> HIDE DEF d
    <3>4. files[c.id] = Config(d) /\ c.id \in Whole(files)
      BY <2>2, <3>1, <3>2 DEF Config, Configs, Whole
    <3>5. CommandOK(subnets, files, d)
      BY <3>1, <3>4 DEF CommandOK, Making
    <3> QED
      BY <1>3, <2>1, <3>3, <3>5 DEF Undoing
  <2>3. CASE ~(c.id \in DOMAIN files /\ files[c.id] # Torn)
    <3>1. Continue(u, Idle) /\ Idle.pc = "idle"
      BY <1>13, <2>3 DEF Load, Idle, c
    <3> QED
      BY <1>3, <2>1, <3>1, IdleOK DEF Undoing
  <2> QED
    BY <2>2, <2>3
<1>14. ASSUME Restore(u) PROVE Keeps(subnets, files, proc')
  <2>1. c.pc = "restore" /\ seen' = seen /\ Clean
    BY <1>14 DEF Restore, Clean, c
  <2>2. PICK n \in DOMAIN c.todo :
          LET rest == [k \in DOMAIN c.todo \ {n} |-> c.todo[k]] IN
          Continue(u,
            CASE n \in DOMAIN links -> [c EXCEPT !.todo = rest]
              [] n \notin DOMAIN links /\ c.todo[n] = Torn -> Idle
              [] OTHER -> [c EXCEPT !.phase = "restore", !.pc = "link", !.id = n,
                                    !.subnet = c.todo[n].subnet, !.gw = c.todo[n].gw,
                                    !.todo = rest])
    BY <1>14 DEF Restore, c
  <2> DEFINE rest == [k \in DOMAIN c.todo \ {n} |-> c.todo[k]]
             d == [c EXCEPT !.phase = "restore", !.pc = "link", !.id = n,
                            !.subnet = c.todo[n].subnet, !.gw = c.todo[n].gw,
                            !.todo = rest]
             e == [c EXCEPT !.todo = rest]
  <2>3. /\ CommandOK(subnets, files, c) /\ Unique(files)
        /\ \A k \in Whole(files) : Sound(subnets, files[k])
    BY <2>1, KeepsNow DEF Undoing, c
  <2>4. \A k \in DOMAIN c.todo : k \in DOMAIN files /\ files[k] = c.todo[k]
    BY <2>1, <2>3 DEF CommandOK
  <2>5. \A k \in DOMAIN rest : k \in DOMAIN files /\ files[k] = rest[k] /\ k # n
    BY <2>4
  <2>6. /\ e.pc = "restore" /\ e.todo = rest
        /\ d.pc = "link" /\ d.phase = "restore" /\ d.id = n /\ d.todo = rest
        /\ d.subnet = files[n].subnet /\ d.gw = files[n].gw
    BY <1>1, <2>1, <2>4 DEF CommandType
  <2>7. \/ Continue(u, e)
        \/ Continue(u, Idle)
        \/ files[n] # Torn /\ Continue(u, d)
    BY <2>2, <2>4
  <2> HIDE DEF d, e, rest
  <2>8. CommandOK(subnets, files, e)
    BY <2>5, <2>6 DEF CommandOK, Making
  <2>9. CommandOK(subnets, files, Idle) /\ Idle.pc = "idle"
    BY IdleOK DEF Idle
  <2>10. files[n] # Torn => CommandOK(subnets, files, d)
    <3> SUFFICES ASSUME files[n] # Torn PROVE CommandOK(subnets, files, d)
      OBVIOUS
    <3>1. n \in Whole(files)
      BY <2>4 DEF Whole
    <3>2. Sound(subnets, Config(d))
      BY <2>3, <2>6, <3>1 DEF Sound, Config
    <3>3. \A k \in Whole(files) : files[k].subnet = d.subnet => k = n
      BY <2>3, <2>6, <3>1 DEF Unique
    <3> QED
      BY <2>5, <2>6, <3>2, <3>3 DEF CommandOK, Making
  <2> QED
    BY <1>3, <2>1, <2>7, <2>8, <2>9, <2>10 DEF Undoing
<1> QED
  BY <1>4, <1>5, <1>6, <1>7, <1>8, <1>9, <1>10, <1>11, <1>12, <1>13, <1>14

\* Steps on the map of subnets.
LEMMA KeepsSubnets ==
  ASSUME HInv, Clean', NEW u \in Users, TakeSubnet(u) \/ TakeGateway(u) \/ ReleaseSubnet(u)
  PROVE  Keeps(subnets', files, proc')
<1> DEFINE c == proc[u]
<1>1. /\ CommandsTyped /\ IsCommand(c) /\ c \in CommandType
      /\ WellFormed(subnets)
  BY DEF HInv, TypeInv, CommandsTyped, IsCommand
<1>2. c.pc \in {"subnet", "gateway", "release"}
  BY DEF TakeSubnet, TakeGateway, ReleaseSubnet
<1>3. seen \subseteq seen'
  BY DEF TakeSubnet, TakeGateway, ReleaseSubnet, Failed, Panicked
<1>4. /\ Alone(proc, u) /\ Unique(files) /\ CommandOK(subnets, files, c)
      /\ \A n \in Whole(files) : Sound(subnets, files[n])
  BY <1>2, <1>3, CleanBefore, KeepsNow DEF Undoing
<1>5. ASSUME Failed(u) \/ Panicked(u),
             \A n \in Whole(files) : Sound(subnets', files[n])
      PROVE  Keeps(subnets', files, proc')
  BY <1>2, <1>5, KeepsEnd
<1> HIDE DEF c
<1>6. ASSUME TakeSubnet(u) PROVE Keeps(subnets', files, proc')
  <2>1. CASE ~CanCreate(subnets, c.subnet)
    BY <1>4, <1>5, <1>6, <2>1 DEF TakeSubnet, c
  <2>2. CASE CanCreate(subnets, c.subnet)
    <3> DEFINE d == [c EXCEPT !.pc = "gateway"]
    <3>1. d.pc = "gateway" /\ d.subnet = c.subnet /\ d.phase = c.phase
      BY <1>1 DEF CommandType
    <3>2. Continue(u, d) /\ subnets' = WithSubnet(subnets, c.subnet) /\ c.pc = "subnet"
      BY <1>6, <2>2 DEF TakeSubnet, Goto, c
    <3> HIDE DEF d
    <3>3. /\ DOMAIN subnets' = DOMAIN subnets \cup {c.subnet}
          /\ subnets'[c.subnet] = {}
          /\ \A s \in DOMAIN subnets : s # c.subnet /\ subnets'[s] = subnets[s]
      BY <2>2, <3>2 DEF WithSubnet, CanCreate
    <3>4. \A n \in Whole(files) : Sound(subnets', files[n])
      BY <1>4, <3>3 DEF Sound
    <3>5. CommandOK(subnets', files, d)
      BY <1>4, <3>1, <3>2, <3>3 DEF CommandOK, Making, Creates
    <3> QED
      BY <1>1, <1>4, <3>2, <3>4, <3>5, KeepsStep
  <2> QED
    BY <2>1, <2>2
<1>7. ASSUME TakeGateway(u) PROVE Keeps(subnets', files, proc')
  <2> DEFINE o == FirstFree(subnets, c.subnet)
             d == [c EXCEPT !.pc = "link", !.gw = AddrOf(c.subnet, o)]
  <2>1. /\ c.pc = "gateway" /\ c.subnet \in DOMAIN subnets
        /\ FreeBits(subnets, c.subnet) # {}
        /\ subnets' = WithBit(subnets, c.subnet, o)
        /\ Panicked(u) \/ Continue(u, d)
    BY <1>7 DEF TakeGateway, c
  <2>2. subnets[c.subnet] = {} /\ Creates(c)
    BY <1>4, <2>1 DEF CommandOK
  <2>3. o = GatewayBit
    BY <1>1, <2>1, <2>2, FirstFreeIsFree DEF WellFormed
  <2>4. /\ d.pc = "link" /\ d.subnet = c.subnet /\ d.gw = Gateway(c.subnet)
        /\ d.phase = c.phase
    BY <1>1, <2>3 DEF CommandType, Gateway
  <2>5. /\ DOMAIN subnets' = DOMAIN subnets
        /\ \A s \in DOMAIN subnets : subnets[s] \subseteq subnets'[s]
        /\ GatewayBit \in subnets'[c.subnet]
    <3>1. subnets = [s \in DOMAIN subnets |-> subnets[s]]
      BY <1>1 DEF WellFormed, IsMap
    <3> QED
      BY <2>1, <2>3, <3>1 DEF WithBit
  <2> HIDE DEF d, o
  <2>6. \A n \in Whole(files) : Sound(subnets', files[n]) /\ files[n].subnet # c.subnet
    BY <1>4, <2>2, <2>5 DEF Sound
  <2>7. CommandOK(subnets', files, d)
    <3>1. Sound(subnets', Config(d))
      BY <2>1, <2>4, <2>5 DEF Sound, Config
    <3> QED
      BY <2>2, <2>4, <2>6, <3>1 DEF CommandOK, Making, Creates
  <2> QED
    BY <1>1, <1>4, <1>5, <2>1, <2>6, <2>7, KeepsStep
<1>8. ASSUME ReleaseSubnet(u) PROVE Keeps(subnets', files, proc')
  <2>1. CASE ReleasePanics(subnets, c.subnet, c.gw)
    BY <1>4, <1>5, <1>8, <2>1 DEF ReleaseSubnet, c
  <2>2. CASE ~ReleasePanics(subnets, c.subnet, c.gw)
    <3> DEFINE d == [c EXCEPT !.pc = "unlink"]
    <3>1. d.pc = "unlink" /\ d.id = c.id
      BY <1>1 DEF CommandType
    <3>2. Continue(u, d) /\ subnets' = Released(subnets, c.subnet, c.gw) /\ c.pc = "release"
      BY <1>8, <2>2 DEF ReleaseSubnet, Goto, c
    <3> HIDE DEF d
    <3>3. c.id \in Whole(files) /\ files[c.id] = Config(c)
      BY <1>4, <3>2 DEF CommandOK
    <3>4. c.subnet \in DOMAIN subnets /\ GatewayBit \in subnets[c.subnet]
          /\ c.gw = Gateway(c.subnet)
      BY <1>4, <3>3 DEF Sound, Config
    <3>5. c.subnet \in Small /\ GatewayBit \in Offsets(c.subnet)
      BY <1>1, <3>4 DEF WellFormed, IsMap
    <3>6. OffsetOf(c.subnet, c.gw) = GatewayBit
      BY <3>4, <3>5, OffsetOfAddrOf DEF Gateway
    <3>7. /\ DOMAIN subnets' = DOMAIN subnets \ {c.subnet}
          /\ \A s \in DOMAIN subnets' : subnets'[s] = subnets[s]
      BY <3>2, <3>6 DEF Released, WithoutSubnet
    <3>8. \A n \in Whole(files) : n # c.id => files[n].subnet # c.subnet
      BY <1>4, <3>3 DEF Unique, Config
    <3>9. \A n \in Whole(files) : Sound(subnets', files[n]) \/ n = c.id
      BY <1>4, <3>7, <3>8 DEF Sound
    <3>10. \A n \in Whole(files) : Sound(subnets', files[n]) \/ Removes(d, n)
      BY <3>1, <3>9 DEF Removes, Undoing
    <3>11. CommandOK(subnets', files, d)
      BY <3>1 DEF CommandOK, Making
    <3> QED
      BY <1>1, <1>4, <3>2, <3>10, <3>11, KeepsStep
  <2> QED
    BY <2>1, <2>2
<1> QED
  BY <1>6, <1>7, <1>8

\* Steps on the network files.
LEMMA KeepsFiles ==
  ASSUME HInv, Clean', NEW u \in Users, Truncate(u) \/ Write(u) \/ RemoveFile(u)
  PROVE  Keeps(subnets, files', proc')
<1> DEFINE c == proc[u]
<1>1. /\ CommandsTyped /\ IsCommand(c) /\ c \in CommandType /\ c.id \in NetIds
      /\ files \in NetworkFiles
  BY DEF HInv, TypeInv, CommandsTyped, IsCommand, CommandType
<1>2. c.pc \in {"truncate", "write", "rmfile"} /\ Clean
  BY DEF Truncate, Write, RemoveFile, Clean
<1>3. /\ Alone(proc, u) /\ Unique(files) /\ CommandOK(subnets, files, c)
      /\ \A n \in Whole(files) : Sound(subnets, files[n]) \/ Removes(c, n)
      /\ c.pc # "rmfile" => \A n \in Whole(files) : Sound(subnets, files[n])
  BY <1>2, KeepsNow DEF Undoing
<1> HIDE DEF c
<1>4. ASSUME Truncate(u) PROVE Keeps(subnets, files', proc')
  <2> DEFINE d == [c EXCEPT !.pc = "write"]
  <2>1. d.pc = "write" /\ d.id = c.id /\ d.subnet = c.subnet /\ d.gw = c.gw
        /\ d.phase = c.phase /\ d.todo = c.todo
    BY <1>1 DEF CommandType
  <2>2. /\ c.pc = "truncate" /\ Continue(u, d)
        /\ files' = [m \in DOMAIN files \cup {c.id} |-> IF m = c.id THEN Torn ELSE files[m]]
    BY <1>4 DEF Truncate, Goto, c
  <2> HIDE DEF d
  <2>3. /\ Unique(files') /\ Whole(files') \subseteq Whole(files) \ {c.id}
        /\ \A n \in Whole(files') : files'[n] = files[n]
    BY <1>3, <2>2, FewerFiles
  <2>4. CommandOK(subnets, files', d)
    <3>1. Config(d) = Config(c) /\ (Creates(d) <=> Creates(c))
      BY <2>1 DEF Config, Creates
    <3>2. Sound(subnets, Config(d)) /\ \A n \in Whole(files') : files'[n].subnet = d.subnet => n = d.id
      BY <1>3, <2>1, <2>2, <2>3, <3>1 DEF CommandOK, Making
    <3>3. ~Creates(d) => \A n \in DOMAIN d.todo :
                           n \in DOMAIN files' /\ files'[n] = d.todo[n] /\ n # d.id
      BY <1>3, <2>1, <2>2, <3>1 DEF CommandOK, Making
    <3> QED
      BY <2>1, <3>2, <3>3 DEF CommandOK, Making
  <2> QED
    BY <1>1, <1>3, <2>2, <2>3, <2>4, KeepsStep
<1>5. ASSUME Write(u) PROVE Keeps(subnets, files', proc')
  <2>1. c.pc = "write" /\ Continue(u, Made(c))
    BY <1>5 DEF Write, c
  <2>2. /\ DOMAIN files' = DOMAIN files
        /\ \A n \in DOMAIN files : files'[n] = IF n = c.id THEN Config(c) ELSE files[n]
    <3>1. \E S : files \in [S -> Configs \cup {Torn}]
      BY <1>1 DEF NetworkFiles
    <3> QED
      BY <1>5, <3>1 DEF Write, c
  <2>3. /\ Sound(subnets, Config(c))
        /\ \A n \in Whole(files) : files[n].subnet = c.subnet => n = c.id
    BY <1>3, <2>1 DEF CommandOK, Making
  <2>4. Config(c).subnet = c.subnet
    BY DEF Config
  <2>5. Unique(files') /\ \A n \in Whole(files') : Sound(subnets, files'[n])
    BY <1>3, <2>1, <2>2, <2>3, <2>4 DEF Unique, Whole
  <2>6. CommandOK(subnets, files', Made(c))
    <3>1. CASE Creates(c)
      <4>1. Made(c).pc = "idle" \/ Made(c).pc = "walk"
        BY <3>1 DEF Made, Creates, Idle
      <4> QED
        BY <4>1, IdleOK
    <3>2. CASE ~Creates(c)
      <4>1. Made(c).pc = "restore" /\ Made(c).todo = c.todo
        BY <3>2 DEF Made, Creates, Idle
      <4>2. \A n \in DOMAIN c.todo : n \in DOMAIN files' /\ files'[n] = c.todo[n]
        BY <1>3, <2>1, <2>2, <3>2 DEF CommandOK, Making
      <4> QED
        BY <4>1, <4>2 DEF CommandOK, Making
    <3> QED
      BY <3>1, <3>2
  <2> QED
    BY <1>1, <1>3, <2>1, <2>5, <2>6, KeepsStep
<1>6. ASSUME RemoveFile(u) PROVE Keeps(subnets, files', proc')
  <2>1. /\ Continue(u, Idle)
        /\ files' = [m \in DOMAIN files \ {c.id} |-> files[m]]
    BY <1>6 DEF RemoveFile, c
  <2>2. /\ Unique(files') /\ Whole(files') \subseteq Whole(files) \ {c.id}
        /\ \A n \in Whole(files') : files'[n] = files[n]
    <3>1. /\ DOMAIN files' = DOMAIN files \ {c.id}
          /\ \A n \in DOMAIN files' : n # c.id /\ files'[n] = files[n]
      BY <2>1
    <3> QED
      BY <1>3, <3>1, FewerFiles
  <2>3. CommandOK(subnets, files', Idle)
    BY IdleOK DEF Idle
  <2>4. \A n \in Whole(files') : Sound(subnets, files'[n])
    BY <1>3, <2>2 DEF Removes
  <2> QED
    BY <1>1, <1>3, <2>1, <2>2, <2>3, <2>4, KeepsStep
<1> QED
  BY <1>4, <1>5, <1>6

\* A reboot does not come in the middle of a removal that has begun.
LEMMA KeepsReboot ==
  ASSUME HInv, Clean', Reboot
  PROVE  Keeps(subnets, files, proc')
<1>1. /\ \A u \in Users : proc'[u] = Idle
      /\ seen' = (seen \cup {"reboot"} \cup UNION {CutShort(proc[u]) : u \in Busy}) \ {"kernel"}
  BY DEF Reboot
<1>2. Clean
  BY <1>1 DEF Clean
<1>3. Keeps(subnets, files, proc)
  BY <1>2 DEF HInv
<1>4. ASSUME NEW u \in Users PROVE proc[u].pc \notin Undoing
  <2> SUFFICES ASSUME proc[u].pc \in Undoing PROVE FALSE
    OBVIOUS
  <2>1. u \in Busy /\ "delete" \in CutShort(proc[u])
    BY DEF Busy, Undoing, CutShort
  <2>2. "delete" \in UNION {CutShort(proc[v]) : v \in Busy}
    BY <2>1
  <2>3. "delete" \in seen'
    BY <1>1, <2>2
  <2> QED
    BY <2>3 DEF Clean
<1>5. \A n \in Whole(files) : Sound(subnets, files[n])
  BY <1>3, <1>4 DEF Keeps, Removes
<1>6. Idle.pc = "idle" /\ CommandOK(subnets, files, Idle)
  BY IdleOK DEF Idle
<1> QED
  BY <1>1, <1>3, <1>5, <1>6 DEF Keeps, Serial

\* Every step keeps the invariant.
LEMMA HoldsStep == HInv /\ [Next]_vars => HInv'
<1> SUFFICES ASSUME HInv, [Next]_vars PROVE HInv'
  OBVIOUS
<1>1. TypeInv'
  BY TypeStep DEF HInv
<1>2. ASSUME Clean' PROVE Keeps(subnets', files', proc')
  <2>1. ASSUME UNCHANGED vars PROVE Keeps(subnets', files', proc')
    BY <1>2, <2>1 DEF HInv, Clean, vars
  <2>2. ASSUME NEW u \in Users, Type(u) \/ Step(u) \/ Crash(u)
        PROVE  Keeps(subnets', files', proc')
    <3>1. CASE TakeSubnet(u) \/ TakeGateway(u) \/ ReleaseSubnet(u)
      <4>1. files' = files
        BY <3>1 DEF TakeSubnet, TakeGateway, ReleaseSubnet
      <4> QED
        BY <1>2, <3>1, <4>1, KeepsSubnets
    <3>2. CASE Truncate(u) \/ Write(u) \/ RemoveFile(u)
      <4>1. subnets' = subnets
        BY <3>2 DEF Truncate, Write, RemoveFile
      <4> QED
        BY <1>2, <3>2, <4>1, KeepsFiles
    <3> DEFINE Other ==
          \/ Type(u) \/ MakeChain(u) \/ Exists(u) \/ NoGateway(u) \/ AddLink(u)
          \/ AddAddress(u) \/ SetUp(u) \/ AddRule(u) \/ CheckDefault(u) \/ Walk(u)
          \/ Initialised(u) \/ Load(u) \/ FindLink(u) \/ DeleteRule(u)
          \/ DeleteLink(u) \/ Crash(u) \/ Restore(u)
    <3>3. CASE Other
      <4>1. subnets' = subnets /\ files' = files
        BY <3>3 DEF Type, MakeChain, Exists, NoGateway, AddLink, AddAddress, SetUp,
                    AddRule, CheckDefault, Walk, Initialised, Load, FindLink, DeleteRule,
                    DeleteLink, Crash, Restore
      <4> QED
        BY <1>2, <3>3, <4>1, KeepsControl
    <3> QED
      BY <2>2, <3>1, <3>2, <3>3 DEF Step
  <2>3. ASSUME Reboot PROVE Keeps(subnets', files', proc')
    <3>1. subnets' = subnets /\ files' = files
      BY <2>3 DEF Reboot
    <3> QED
      BY <1>2, <2>3, <3>1, KeepsReboot
  <2> QED
    BY <2>1, <2>2, <2>3 DEF Next
<1> QED
  BY <1>1, <1>2 DEF HInv, Keeps, Serial, CommandOK, Sound, Unique, Whole, Removes

\* At the start there is nothing.
LEMMA HoldsInit == Init => HInv
<1> SUFFICES ASSUME Init PROVE HInv
  OBVIOUS
<1>1. \A u \in Users : proc[u] = Idle
  BY DEF Init
<1>2. Whole(files) = {}
  BY DEF Init, NoNetworks, Whole
<1>3. Idle.pc = "idle" /\ CommandOK(subnets, files, Idle)
  BY IdleOK DEF Idle
<1> QED
  BY <1>1, <1>2, <1>3, InitTyped DEF HInv, Keeps, Serial, Unique

\* The invariant gives the property.
LEMMA HoldsKeeps == HInv => NetworkHoldsSubnet
<1> SUFFICES ASSUME HInv, Clean PROVE
      /\ \A n \in Held : /\ files[n].subnet \in DOMAIN subnets
                         /\ GatewayBit \in subnets[files[n].subnet]
                         /\ files[n].gw = Gateway(files[n].subnet)
      /\ \A m, n \in Held : files[m].subnet = files[n].subnet => m = n
  BY DEF NetworkHoldsSubnet, Clean
<1>1. Keeps(subnets, files, proc)
  BY DEF HInv
<1>2. \A n \in Held : n \in Whole(files) /\ ~\E u \in Users : Removes(proc[u], n)
  BY DEF Held, Whole, Removes, Undoing
<1> QED
  BY <1>1, <1>2 DEF Keeps, Sound, Unique

\* For any networks, subnets and users, and any number of reboots and of
\* creations that are cut short: a network that has a file has its subnet and
\* its gateway's address to itself, as long as commands do not overlap and no
\* removal has ended half way.
THEOREM NetworkKeepsSubnet == Spec => []NetworkHoldsSubnet
<1>1. Spec => []HInv
  BY HoldsInit, HoldsStep, PTL DEF Spec
<1> QED
  BY <1>1, HoldsKeeps, PTL

-----------------------------------------------------------------------------
(* Files, subnets, bridges and rules agree, but for what the running       *)
(* command has made so far, or has left to remove.                          *)

\* The command that runs, when commands do not overlap.
CurrentOf(p) ==
  IF \E u \in Users : p[u].pc # "idle" THEN p[CHOOSE u \in Users : p[u].pc # "idle"] ELSE Idle

AllChains == {"filter", "nat", "prerouting", "output"}
ChainsBefore(k) == {ChainSteps[j] : j \in 1 .. k - 1}

RulesFor(s) == {Rule(k, s) : k \in RuleNumbers}
RulesBefore(k, s) == {Rule(j, s) : j \in 1 .. k - 1}
RulesFrom(k, s) == {Rule(j, s) : j \in k .. 6}

\* The counts of rules in t are those of the set R, or of a part of it.
Exactly(t, R) == \A r \in Rules : t[r] = IF r \in R THEN 1 ELSE 0
AtMost(t, R) == \A r \in Rules : t[r] = 0 \/ (t[r] = 1 /\ r \in R)

\* A creation or restoration between two of its steps.
OwnBridge(l, t, c) ==
  IF c.pc = "link" THEN c.id \notin DOMAIN l
  ELSE /\ c.id \in DOMAIN l
       /\ l[c.id] = CASE c.pc = "address" -> [addrs |-> {}, up |-> FALSE]
                      [] c.pc = "up" -> [addrs |-> {Config(c)}, up |-> FALSE]
                      [] OTHER -> [addrs |-> {Config(c)}, up |-> TRUE]
       /\ Exactly(t[c.id], IF c.pc \in {"truncate", "write"} THEN RulesFor(c.subnet)
                           ELSE RulesBefore(c.k, c.subnet))

\* A removal between two of its steps.
OwnRemoval(f, l, t, c) ==
  /\ c.phase = "remove"
  /\ c.id \in DOMAIN f /\ f[c.id] = Config(c)
  /\ c.pc = "unrule" => AtMost(t[c.id], RulesFrom(c.k, c.subnet))
  /\ c.pc = "dellink" => AtMost(t[c.id], {})
  /\ c.pc = "rmfile" => c.id \notin DOMAIN l

\* The chains are there as a whole, or the running command is making them.
ChainsOK(l, ch, c) ==
  /\ DOMAIN l # {} => ch = AllChains
  /\ IF c.pc = "chains" /\ c.k > 1 THEN ch = ChainsBefore(c.k)
     ELSE ch = {} \/ ch = AllChains
  /\ c.pc \in {"exists", "subnet", "gateway", "default", "walk", "restore"} \cup Making =>
       ch = AllChains

\* Bridges have files and rules have bridges, but for what the running command
\* has in hand.
KernelOK(f, l, ch, t, c) ==
  /\ \A n \in NetIds \ DOMAIN l : AtMost(t[n], {})
  /\ \A n \in DOMAIN l : (c.pc \in Making /\ n = c.id)
                           \/ (n \in DOMAIN f /\ AtMost(t[n], RulesFor(f[n].subnet)))
  /\ ChainsOK(l, ch, c)
  /\ c.pc = "chains" => Creates(c) \/ c.phase = "start"
  /\ c.pc = "load" => c.phase = "remove"
  /\ c.pc \in {"exists", "subnet", "gateway"} => Creates(c)
  /\ c.pc \in {"subnet", "gateway"} => c.id \notin DOMAIN f
  /\ c.pc = "write" => c.id \in DOMAIN f
  /\ c.pc \notin {"chains", "rules", "unrule", "dellink", "rmfile"} => c.k = 1
  /\ c.pc \in Making => OwnBridge(l, t, c)
  /\ c.pc \in Undoing \cup {"release"} => OwnRemoval(f, l, t, c)

\* Network n is whole in the bridges l and the rules t, as the files f say.
WholeIn(f, l, t, n) ==
  /\ n \in DOMAIN f
  /\ l[n] = [addrs |-> {f[n]}, up |-> TRUE]
  /\ Exactly(t[n], RulesFor(f[n].subnet))

\* What is in the kernel is whole, and what a run has not come to yet is on its list.
WholeOK(f, l, t, c) ==
  /\ \A n \in DOMAIN l :
       (n = c.id /\ c.pc \in Making \cup {"unrule", "dellink"}) \/ WholeIn(f, l, t, n)
  /\ c.pc = "restore" \/ (c.pc \in Making /\ ~Creates(c)) =>
       \A n \in DOMAIN f :
         n \in DOMAIN c.todo \cup DOMAIN l \/ (c.pc \in Making /\ n = c.id)

\* Every subnet that is taken belongs to a file, or to the running command.
SubnetsOK(m, f, c) ==
  /\ \A n \in DOMAIN f :
       \/ f[n] # Torn /\ OffsetOf(f[n].subnet, f[n].gw) = GatewayBit
       \/ c.pc = "write" /\ n = c.id
  /\ \A s \in DOMAIN m :
       \/ c.pc \in Making \cup {"gateway"} /\ s = c.subnet
       \/ \E n \in Whole(f) : f[n].subnet = s /\ ~(n = c.id /\ c.pc \in Making \cup Undoing)
  /\ c.pc = "gateway" => c.subnet \in DOMAIN m /\ m[c.subnet] = {}
  /\ c.pc \in Making => OffsetOf(c.subnet, c.gw) = GatewayBit
  /\ c.pc = "restore" \/ (c.pc \in Making /\ ~Creates(c)) =>
       \A n \in DOMAIN c.todo : n \in DOMAIN f /\ f[n] = c.todo[n] /\ (c.pc \in Making => n # c.id)

\* Every file has its bridge, and no address but gateways' are taken.
FilesOK(m, f, l, c) ==
  /\ \A n \in DOMAIN f : n \in DOMAIN l \/ (c.pc = "rmfile" /\ n = c.id)
  /\ \A s \in DOMAIN m : m[s] \subseteq {GatewayBit}

\* Nothing is half made in the kernel; no creation was cut short.
Settled == "kernel" \notin seen
Created == seen \cap {"create", "overlap"} = {}

Agree ==
  /\ Settled \/ Created =>
       Serial(proc) /\ KernelOK(files, links, chains, rules, CurrentOf(proc))
  /\ Settled => WholeOK(files, links, rules, CurrentOf(proc))
  /\ Created => SubnetsOK(subnets, files, CurrentOf(proc))
  /\ seen = {} => FilesOK(subnets, files, links, CurrentOf(proc))

AInv == HInv /\ Agree

\* Who runs is who is not idle.
LEMMA CurrentIs ==
  ASSUME NEW p, NEW u \in Users, Alone(p, u), p[u].pc # "idle" \/ p[u] = Idle
  PROVE  CurrentOf(p) = p[u] /\ Serial(p)
<1>1. Idle.pc = "idle"
  BY DEF Idle
<1>2. CASE p[u].pc # "idle"
  <2>1. (CHOOSE v \in Users : p[v].pc # "idle") = u
    BY <1>2 DEF Alone
  <2> QED
    BY <1>2, <2>1 DEF CurrentOf, Serial, Alone
<1>3. CASE p[u] = Idle
  BY <1>1, <1>3 DEF CurrentOf, Serial, Alone
<1> QED
  BY <1>2, <1>3

LEMMA CurrentNext ==
  ASSUME CommandsTyped, NEW u \in Users, NEW d, Alone(proc, u), Continue(u, d),
         d.pc # "idle" \/ d = Idle
  PROVE  CurrentOf(proc') = d /\ Serial(proc')
<1>1. proc'[u] = d /\ \A v \in Users : v # u => proc'[v] = proc[v]
  BY DEF CommandsTyped, Continue
<1>2. Alone(proc', u)
  BY <1>1 DEF Alone
<1> QED
  BY <1>1, <1>2, CurrentIs

\* What the invariant says of the command that takes a step.
LEMMA AgreeNow ==
  ASSUME AInv, NEW u \in Users, proc[u].pc # "idle"
  PROVE  /\ Settled \/ Created =>
              Alone(proc, u) /\ KernelOK(files, links, chains, rules, proc[u])
         /\ Settled => WholeOK(files, links, rules, proc[u])
         /\ Created => SubnetsOK(subnets, files, proc[u])
         /\ seen = {} => FilesOK(subnets, files, links, proc[u])
<1>1. Settled \/ Created => Alone(proc, u)
  BY DEF AInv, Agree, Serial, Alone
<1>2. Settled \/ Created => CurrentOf(proc) = proc[u]
  BY <1>1, CurrentIs
<1>3. seen = {} => Settled
  BY DEF Settled
<1> QED
  BY <1>1, <1>2, <1>3 DEF AInv, Agree

\* The one command goes on as d; each part of the invariant is shown for d when
\* it can still be asked for.
LEMMA AgreeStep ==
  ASSUME CommandsTyped, NEW u \in Users, NEW d, Continue(u, d), d.pc # "idle" \/ d = Idle,
         Settled' \/ Created' =>
           Alone(proc, u) /\ KernelOK(files', links', chains', rules', d),
         Settled' => WholeOK(files', links', rules', d),
         Created' => SubnetsOK(subnets', files', d),
         seen' = {} => FilesOK(subnets', files', links', d)
  PROVE  Agree'
<1>1. Settled' \/ Created' => CurrentOf(proc') = d /\ Serial(proc')
  BY CurrentNext
<1>2. seen' = {} => Settled'
  BY DEF Settled
<1> QED
  BY <1>1, <1>2 DEF Agree

\* A step at which nothing goes wrong.
LEMMA AgreeGo ==
  ASSUME AInv, NEW u \in Users, proc[u].pc # "idle", NEW d, Continue(u, d),
         d.pc # "idle" \/ d = Idle, seen' = seen,
         KernelOK(files, links, chains, rules, proc[u]) =>
           KernelOK(files', links', chains', rules', d),
         KernelOK(files, links, chains, rules, proc[u])
           /\ WholeOK(files, links, rules, proc[u]) => WholeOK(files', links', rules', d),
         KernelOK(files, links, chains, rules, proc[u])
           /\ SubnetsOK(subnets, files, proc[u]) => SubnetsOK(subnets', files', d),
         KernelOK(files, links, chains, rules, proc[u])
           /\ SubnetsOK(subnets, files, proc[u])
           /\ FilesOK(subnets, files, links, proc[u]) => FilesOK(subnets', files', links', d)
  PROVE  Agree'
<1>1. CommandsTyped
  BY DEF AInv, HInv, TypeInv
<1>2. (Settled' <=> Settled) /\ (Created' <=> Created) /\ (seen = {} => Settled /\ Created)
  BY DEF Settled, Created
<1> QED
  BY <1>1, <1>2, AgreeNow, AgreeStep

\* Which rules, and which chains, are before and after the k-th.
LEMMA RulesInOrder ==
  ASSUME NEW s \in Subnets, NEW k \in RuleNumbers
  PROVE  /\ Rule(k, s) \in Rules /\ Rule(k, s) \in RulesFor(s)
         /\ RulesBefore(1, s) = {} /\ RulesBefore(7, s) = RulesFor(s)
         /\ Rule(k, s) \notin RulesBefore(k, s)
         /\ RulesBefore(k + 1, s) = RulesBefore(k, s) \cup {Rule(k, s)}
         /\ RulesBefore(k, s) \subseteq RulesFor(s)
         /\ RulesFrom(1, s) = RulesFor(s) /\ RulesFrom(7, s) = {}
         /\ RulesFrom(k + 1, s) = RulesFrom(k, s) \ {Rule(k, s)}
         /\ RulesFrom(k, s) \subseteq RulesFor(s)
<1>1. \A i, j \in Int : Rule(i, s) = Rule(j, s) <=> i = j
  BY DEF Rule
<1>2. k \in 1 .. 6 /\ 1 .. 7 - 1 = 1 .. 6 /\ 1 .. 1 - 1 = {}
  BY DEF RuleNumbers
<1>3. 1 .. (k + 1) - 1 = (1 .. k - 1) \cup {k} /\ k \notin 1 .. k - 1
  BY <1>2
<1>4. (k + 1) .. 6 = (k .. 6) \ {k} /\ 7 .. 6 = {}
  BY <1>2
<1>5. Rule(k, s) \in Rules
  BY DEF Rules
<1>6. RulesBefore(1, s) = {} /\ RulesBefore(7, s) = RulesFor(s)
  BY <1>2 DEF RulesBefore, RulesFor, RuleNumbers
<1>7. Rule(k, s) \in RulesFor(s)
  BY DEF RulesFor
<1>8. Rule(k, s) \notin RulesBefore(k, s)
  BY <1>1, <1>2, <1>3 DEF RulesBefore
<1>9. RulesBefore(k + 1, s) = RulesBefore(k, s) \cup {Rule(k, s)}
  BY <1>3 DEF RulesBefore
<1>10. RulesBefore(k, s) \subseteq RulesFor(s)
  BY <1>2 DEF RulesBefore, RulesFor, RuleNumbers
<1>11. RulesFrom(1, s) = RulesFor(s) /\ RulesFrom(7, s) = {}
  BY <1>4 DEF RulesFrom, RulesFor, RuleNumbers
<1>12. RulesFrom(k + 1, s) = RulesFrom(k, s) \ {Rule(k, s)}
  <2>1. \A i \in k .. 6 : i \in Int
    BY <1>2
  <2>2. k \in k .. 6
    BY <1>2
  <2> QED
    BY <1>1, <1>2, <1>4, <2>1, <2>2 DEF RulesFrom
<1>13. RulesFrom(k, s) \subseteq RulesFor(s)
  BY <1>2 DEF RulesFrom, RulesFor, RuleNumbers
<1> QED
  BY <1>5, <1>6, <1>7, <1>8, <1>9, <1>10, <1>11, <1>12, <1>13

LEMMA ChainsInOrder ==
  /\ ChainsBefore(1) = {} /\ ChainsBefore(2) = {"filter"}
  /\ ChainsBefore(3) = {"filter", "nat"} /\ ChainsBefore(4) = {"filter", "nat", "prerouting"}
  /\ ChainSteps[1] = "filter" /\ ChainSteps[2] = "nat"
  /\ ChainSteps[3] = "prerouting" /\ ChainSteps[4] = "output"
<1>1. /\ ChainSteps[1] = "filter" /\ ChainSteps[2] = "nat"
      /\ ChainSteps[3] = "prerouting" /\ ChainSteps[4] = "output"
  BY DEF ChainSteps
<1>2. 1 .. 1 - 1 = {} /\ 1 .. 2 - 1 = {1} /\ 1 .. 3 - 1 = {1, 2} /\ 1 .. 4 - 1 = {1, 2, 3}
  OBVIOUS
<1>3. ChainsBefore(1) = {} /\ ChainsBefore(2) = {"filter"}
  BY <1>1, <1>2 DEF ChainsBefore
<1>4. ChainsBefore(3) = {"filter", "nat"}
  BY <1>1, <1>2 DEF ChainsBefore
<1>5. ChainsBefore(4) = {"filter", "nat", "prerouting"}
  BY <1>1, <1>2 DEF ChainsBefore
<1> QED
  BY <1>1, <1>3, <1>4, <1>5

\* A command that does nothing more, or goes on to the walk, in a kernel and
\* with files that no command has in hand.
LEMMA EndKernel ==
  ASSUME NEW f, NEW l, NEW ch, NEW t, NEW c, NEW d, KernelOK(f, l, ch, t, c),
         c.pc \notin Making, ~(c.pc = "chains" /\ c.k > 1),
         d.pc \in {"idle", "walk"}, d.k = 1, d.pc = "walk" => ch = AllChains
  PROVE  KernelOK(f, l, ch, t, d)
<1>1. ChainsOK(l, ch, d)
  BY DEF KernelOK, ChainsOK, Making
<1> QED
  BY <1>1 DEF KernelOK, Making, Undoing, Creates

LEMMA EndWhole ==
  ASSUME NEW f, NEW l, NEW t, NEW c, NEW d, WholeOK(f, l, t, c),
         c.pc \notin Making \cup {"unrule", "dellink"}, d.pc \in {"idle", "walk"}
  PROVE  WholeOK(f, l, t, d)
  BY DEF WholeOK, Making

LEMMA EndSubnets ==
  ASSUME NEW m, NEW f, NEW c, NEW d, SubnetsOK(m, f, c),
         c.pc \notin Making \cup {"gateway"}, d.pc \in {"idle", "walk"}
  PROVE  SubnetsOK(m, f, d)
  BY DEF SubnetsOK, Making, Undoing

LEMMA EndFiles ==
  ASSUME NEW m, NEW f, NEW l, NEW c, NEW d, FilesOK(m, f, l, c), c.pc # "rmfile"
  PROVE  FilesOK(m, f, l, d)
  BY DEF FilesOK

\* A command that ends where it is.
LEMMA AgreeEnd ==
  ASSUME AInv, NEW u \in Users, proc[u].pc # "idle", UNCHANGED <<files, links, chains, rules>>,
         subnets' = subnets \/ proc[u].pc = "gateway",
         \/ Panicked(u)
         \/ Failed(u) /\ proc[u].pc \in {"exists", "subnet", "gateway"} \cup Making \cup Undoing
  PROVE  Agree'
<1> DEFINE c == proc[u]
           w == [Idle EXCEPT !.phase = "start", !.pc = "walk"]
<1>1. seen' = seen \cup CutShort(c)
  BY DEF Failed, Panicked
<1>2. /\ c.pc \in Making \cup {"gateway"} \/ (c.pc = "chains" /\ c.k > 1) =>
           "create" \in CutShort(c) /\ "kernel" \in CutShort(c)
      /\ c.pc \in Undoing => "kernel" \in CutShort(c)
  BY DEF CutShort, Making, Undoing
<1>3. /\ Settled' => Settled /\ c.pc \notin Making \cup Undoing \cup {"gateway"}
      /\ Created' => Created
      /\ Settled' \/ Created' => c.pc \notin Making \cup {"gateway"} /\ ~(c.pc = "chains" /\ c.k > 1)
      /\ seen' = {} => seen = {} /\ c.pc \notin Making \cup Undoing \cup {"gateway"}
  BY <1>1, <1>2 DEF Settled, Created
<1>4. /\ Settled \/ Created => Alone(proc, u) /\ KernelOK(files, links, chains, rules, c)
      /\ Settled => WholeOK(files, links, rules, c)
      /\ Created => SubnetsOK(subnets, files, c)
      /\ seen = {} => FilesOK(subnets, files, links, c)
  BY AgreeNow
<1>5. Continue(u, Idle) \/ (Continue(u, w) /\ c.phase = "default" /\ Failed(u) /\ ~Panicked(u))
  BY DEF Failed, Panicked
<1>6. Idle.pc = "idle" /\ Idle.k = 1 /\ w.pc = "walk" /\ w.k = 1
  BY DEF Idle
<1>7. ASSUME Settled' \/ Created', c.phase = "default", ~Panicked(u) PROVE chains = AllChains
  <2>1. c.pc \notin Undoing
    BY <1>3, <1>4, <1>7 DEF KernelOK, OwnRemoval
  <2>2. c.pc \in {"exists", "subnet"}
    BY <1>3, <1>7, <2>1 DEF Failed
  <2> QED
    BY <1>3, <1>4, <1>7, <2>2 DEF KernelOK, ChainsOK
<1>8. CommandsTyped
  BY DEF AInv, HInv, TypeInv
<1> HIDE DEF c, w
<1>9. ASSUME NEW d, Continue(u, d), d = Idle \/ (d = w /\ c.phase = "default" /\ ~Panicked(u))
      PROVE  Agree'
  <2>1. d.pc \in {"idle", "walk"} /\ d.k = 1 /\ (d.pc # "idle" \/ d = Idle)
    BY <1>6, <1>9
  <2>2. Settled' \/ Created' =>
          Alone(proc, u) /\ KernelOK(files', links', chains', rules', d)
    <3>1. Settled' \/ Created' => (d.pc = "walk" => chains = AllChains)
      BY <1>6, <1>7, <1>9
    <3> QED
      BY <1>3, <1>4, <2>1, <3>1, EndKernel
  <2>3. Settled' => WholeOK(files', links', rules', d)
    BY <1>3, <1>4, <2>1, EndWhole DEF Undoing
  <2>4. Created' => SubnetsOK(subnets', files', d)
    BY <1>3, <1>4, <2>1, EndSubnets DEF c
  <2>5. seen' = {} => FilesOK(subnets', files', links', d)
    BY <1>3, <1>4, <2>1, EndFiles DEF Undoing, c
  <2> QED
    BY <1>8, <1>9, <2>1, <2>2, <2>3, <2>4, <2>5, AgreeStep
<1> QED
  BY <1>5, <1>9

\* A command is typed when none runs.
LEMMA AgreeType ==
  ASSUME AInv, NEW u \in Users, Type(u)
  PROVE  Agree'
<1> DEFINE Typed ==
      \/ \E n \in NetIds, s \in Subnets, d \in Drivers :
           Continue(u, [Idle EXCEPT !.pc = "chains", !.phase = "create", !.id = n,
                                    !.subnet = s, !.driver = d])
      \/ \E n \in NetIds :
           Continue(u, [Idle EXCEPT !.pc = "load", !.phase = "remove", !.id = n])
      \/ Continue(u, [Idle EXCEPT !.pc = "chains", !.phase = "start"])
<1>4. /\ proc[u] = Idle
      /\ seen' = IF Busy = {} THEN seen ELSE seen \cup {"overlap", "kernel"}
      /\ UNCHANGED <<subnets, files, links, chains, rules>>
      /\ Typed
  BY Zenon DEF Type
<1> HIDE DEF Typed
<1>1. CommandsTyped /\ Idle.pc = "idle" /\ Idle.k = 1
  BY DEF AInv, HInv, TypeInv, Idle
<1>2. CASE Busy # {}
  <2>1. ~Settled' /\ ~Created' /\ seen' # {}
    BY <1>2, <1>4 DEF Settled, Created
  <2> QED
    BY <2>1 DEF Agree
<1>3. CASE Busy = {}
  <2>1. seen' = seen /\ Alone(proc, u)
    BY <1>3, <1>4 DEF Busy, Alone
  <2>2. CurrentOf(proc) = Idle
    BY <1>4, <1>1, <2>1, CurrentIs
  <2>3. /\ Settled' \/ Created' => KernelOK(files, links, chains, rules, Idle)
        /\ Settled' => WholeOK(files, links, rules, Idle)
        /\ Created' => SubnetsOK(subnets, files, Idle)
        /\ seen' = {} => FilesOK(subnets, files, links, Idle)
    BY <2>1, <2>2 DEF AInv, Agree, Settled, Created
  <2>4. ASSUME NEW d, Continue(u, d), d.k = 1,
               \/ d.pc = "chains" /\ d.phase \in {"create", "start"}
               \/ d.pc = "load" /\ d.phase = "remove"
        PROVE  Agree'
    <3>1. Settled' \/ Created' => KernelOK(files, links, chains, rules, d)
      BY <1>1, <2>3, <2>4 DEF KernelOK, ChainsOK, Making, Undoing, Creates
    <3>2. Settled' => WholeOK(files, links, rules, d)
      BY <1>1, <2>3, <2>4 DEF WholeOK, Making
    <3>3. Created' => SubnetsOK(subnets, files, d)
      BY <1>1, <2>3, <2>4 DEF SubnetsOK, Making, Undoing
    <3>4. seen' = {} => FilesOK(subnets, files, links, d)
      BY <1>1, <2>3, <2>4 DEF FilesOK
    <3>5. d.pc # "idle"
      BY <2>4
    <3> QED
      BY <1>4, <1>1, <2>1, <2>4, <3>1, <3>2, <3>3, <3>4, <3>5, AgreeStep
  <2>5. ASSUME NEW n \in NetIds, NEW s \in Subnets, NEW e \in Drivers,
               Continue(u, [Idle EXCEPT !.pc = "chains", !.phase = "create", !.id = n,
                                        !.subnet = s, !.driver = e])
        PROVE  Agree'
    <3> DEFINE d == [Idle EXCEPT !.pc = "chains", !.phase = "create", !.id = n,
                                 !.subnet = s, !.driver = e]
    <3>1. d.pc = "chains" /\ d.phase = "create" /\ d.k = 1
      BY DEF Idle
    <3> HIDE DEF d
    <3> QED
      BY <2>4, <2>5, <3>1 DEF d
  <2>6. ASSUME NEW n \in NetIds,
               Continue(u, [Idle EXCEPT !.pc = "load", !.phase = "remove", !.id = n])
        PROVE  Agree'
    <3> DEFINE d == [Idle EXCEPT !.pc = "load", !.phase = "remove", !.id = n]
    <3>1. d.pc = "load" /\ d.phase = "remove" /\ d.k = 1
      BY DEF Idle
    <3> HIDE DEF d
    <3> QED
      BY <2>4, <2>6, <3>1 DEF d
  <2>7. ASSUME Continue(u, [Idle EXCEPT !.pc = "chains", !.phase = "start"])
        PROVE  Agree'
    <3> DEFINE d == [Idle EXCEPT !.pc = "chains", !.phase = "start"]
    <3>1. d.pc = "chains" /\ d.phase = "start" /\ d.k = 1
      BY DEF Idle
    <3> HIDE DEF d
    <3> QED
      BY <2>4, <2>7, <3>1 DEF d
  <2> QED
    BY <1>4, <2>5, <2>6, <2>7, Zenon DEF Typed
<1> QED
  BY <1>2, <1>3

\* What is typed, for the lemmas that follow.
LEMMA AgreeTypes ==
  ASSUME AInv, NEW u \in Users
  PROVE  /\ proc[u] \in CommandType /\ IsCommand(proc[u])
         /\ proc[u].id \in NetIds /\ proc[u].k \in RuleNumbers
         /\ files \in NetworkFiles
         /\ links = [n \in DOMAIN links |-> links[n]] /\ DOMAIN links \subseteq NetIds
         /\ rules \in [NetIds -> [Rules -> Nat]]
         /\ WellFormed(subnets)
  BY DEF AInv, HInv, TypeInv, KernelTyped, CommandsTyped, IsCommand, CommandType

LEMMA AgreeChain ==
  ASSUME AInv, NEW u \in Users, MakeChain(u)
  PROVE  Agree'
<1> DEFINE c == proc[u]
<1>1. c \in CommandType /\ c.pc = "chains" /\ c.k \in 1 .. 4
  BY AgreeTypes DEF MakeChain, IsCommand, RuleNumbers
<1>2. /\ UNCHANGED <<subnets, files, links, rules, seen>>
      /\ chains' = chains \cup {ChainSteps[c.k]}
  BY DEF MakeChain
<1> DEFINE d == IF (c.k <= 2 /\ ChainSteps[c.k] \in chains) \/ c.k = 4
                  THEN ChainsDone(c) ELSE [c EXCEPT !.k = @ + 1]
<1>3. Continue(u, d)
  BY DEF MakeChain
<1>4. /\ d.phase = c.phase /\ d.id = c.id /\ d.todo = c.todo /\ d.subnet = c.subnet
      /\ IF (c.k <= 2 /\ ChainSteps[c.k] \in chains) \/ c.k = 4
           THEN d.k = 1 /\ d.pc = IF c.phase = "start" THEN "default" ELSE "exists"
           ELSE d.k = c.k + 1 /\ d.pc = "chains"
  BY <1>1 DEF ChainsDone, CommandType
<1> HIDE DEF c, d
<1>5. ASSUME KernelOK(files, links, chains, rules, c)
      PROVE  KernelOK(files', links', chains', rules', d)
  <2>1. /\ DOMAIN links # {} => chains = AllChains
        /\ IF c.k > 1 THEN chains = ChainsBefore(c.k) ELSE chains = {} \/ chains = AllChains
    BY <1>1, <1>5 DEF KernelOK, ChainsOK
  <2>2. c.k = 1 \/ c.k = 2 \/ c.k = 3 \/ c.k = 4
    BY <1>1
  <2>3. ChainsOK(links, chains', d)
    <3>1. CASE c.k = 1
      BY <1>2, <1>4, <2>1, <3>1, ChainsInOrder DEF ChainsOK, AllChains, Making
    <3>2. CASE c.k = 2
      BY <1>2, <1>4, <2>1, <3>2, ChainsInOrder DEF ChainsOK, AllChains, Making
    <3>3. CASE c.k = 3
      BY <1>2, <1>4, <2>1, <3>3, ChainsInOrder DEF ChainsOK, AllChains, Making
    <3>4. CASE c.k = 4
      BY <1>2, <1>4, <2>1, <3>4, ChainsInOrder DEF ChainsOK, AllChains, Making
    <3> QED
      BY <2>2, <3>1, <3>2, <3>3, <3>4
  <2> QED
    BY <1>1, <1>2, <1>4, <1>5, <2>3 DEF KernelOK, Making, Undoing, Creates
<1>6. WholeOK(files, links, rules, c) => WholeOK(files', links', rules', d)
  BY <1>1, <1>2, <1>4 DEF WholeOK, Making
<1>7. SubnetsOK(subnets, files, c) => SubnetsOK(subnets', files', d)
  BY <1>1, <1>2, <1>4 DEF SubnetsOK, Making, Undoing
<1>8. FilesOK(subnets, files, links, c) => FilesOK(subnets', files', links', d)
  BY <1>1, <1>2, <1>4 DEF FilesOK
<1>9. c.pc # "idle" /\ d.pc # "idle"
  BY <1>1, <1>4
<1> QED
  BY <1>2, <1>3, <1>5, <1>6, <1>7, <1>8, <1>9, AgreeGo DEF c

LEMMA AgreeExists ==
  ASSUME AInv, NEW u \in Users, Exists(u)
  PROVE  Agree'
<1> DEFINE c == proc[u]
           d == [c EXCEPT !.pc = "subnet"]
<1>1. c \in CommandType /\ c.pc = "exists" /\ UNCHANGED <<subnets, files, links, chains, rules>>
  BY AgreeTypes DEF Exists
<1>2. d = [c EXCEPT !.pc = "subnet"] /\ d.pc = "subnet" /\ d.phase = c.phase /\ d.id = c.id
      /\ d.todo = c.todo /\ d.subnet = c.subnet /\ d.k = c.k
  BY <1>1 DEF CommandType
<1>3. CASE c.id \in DOMAIN files
  BY <1>1, <1>3, AgreeEnd DEF Exists
<1>4. CASE c.id \notin DOMAIN files
  <2>1. Continue(u, d) /\ seen' = seen
    BY <1>4 DEF Exists, Goto
  <2> HIDE DEF c, d
  <2>2. KernelOK(files, links, chains, rules, c) => KernelOK(files', links', chains', rules', d)
    BY <1>1, <1>2, <1>4 DEF KernelOK, ChainsOK, Making, Undoing, Creates
  <2>3. WholeOK(files, links, rules, c) => WholeOK(files', links', rules', d)
    BY <1>1, <1>2 DEF WholeOK, Making
  <2>4. SubnetsOK(subnets, files, c) => SubnetsOK(subnets', files', d)
    BY <1>1, <1>2 DEF SubnetsOK, Making, Undoing
  <2>5. FilesOK(subnets, files, links, c) => FilesOK(subnets', files', links', d)
    BY <1>1, <1>2 DEF FilesOK
  <2>6. c.pc # "idle" /\ d.pc # "idle"
    BY <1>1, <1>2
  <2> QED
    BY <2>1, <2>2, <2>3, <2>4, <2>5, <2>6, AgreeGo DEF c
<1> QED
  BY <1>3, <1>4

LEMMA AgreeSubnet ==
  ASSUME AInv, NEW u \in Users, TakeSubnet(u)
  PROVE  Agree'
<1> DEFINE c == proc[u]
           d == [c EXCEPT !.pc = "gateway"]
<1>1. /\ c \in CommandType /\ c.pc = "subnet" /\ UNCHANGED <<files, links, chains, rules>>
  BY AgreeTypes DEF TakeSubnet
<1>2. d.pc = "gateway" /\ d.phase = c.phase /\ d.id = c.id
      /\ d.todo = c.todo /\ d.subnet = c.subnet /\ d.k = c.k
  BY <1>1 DEF CommandType
<1>3. CASE ~CanCreate(subnets, c.subnet)
  BY <1>1, <1>3, AgreeEnd DEF TakeSubnet
<1>4. CASE CanCreate(subnets, c.subnet)
  <2>1. Continue(u, d) /\ seen' = seen /\ subnets' = WithSubnet(subnets, c.subnet)
    BY <1>4 DEF TakeSubnet, Goto
  <2>2. /\ DOMAIN subnets' = DOMAIN subnets \cup {c.subnet}
        /\ subnets'[c.subnet] = {}
        /\ \A s \in DOMAIN subnets : s # c.subnet /\ subnets'[s] = subnets[s]
    BY <1>4, <2>1 DEF WithSubnet, CanCreate
  <2> HIDE DEF c, d
  <2>3. KernelOK(files, links, chains, rules, c) => KernelOK(files', links', chains', rules', d)
    BY <1>1, <1>2 DEF KernelOK, ChainsOK, Making, Undoing, Creates
  <2>4. WholeOK(files, links, rules, c) => WholeOK(files', links', rules', d)
    BY <1>1, <1>2 DEF WholeOK, Making
  <2>5. SubnetsOK(subnets, files, c) => SubnetsOK(subnets', files', d)
    BY <1>1, <1>2, <2>2 DEF SubnetsOK, Making, Undoing
  <2>6. FilesOK(subnets, files, links, c) => FilesOK(subnets', files', links', d)
    BY <1>1, <1>2, <2>2 DEF FilesOK
  <2>7. c.pc # "idle" /\ d.pc # "idle"
    BY <1>1, <1>2
  <2> QED
    BY <2>1, <2>3, <2>4, <2>5, <2>6, <2>7, AgreeGo DEF c
<1> QED
  BY <1>3, <1>4

LEMMA AgreeGateway ==
  ASSUME AInv, NEW u \in Users, TakeGateway(u)
  PROVE  Agree'
<1> DEFINE c == proc[u]
           o == FirstFree(subnets, c.subnet)
           d == [c EXCEPT !.pc = "link", !.gw = AddrOf(c.subnet, o)]
<1>1. /\ c \in CommandType /\ c.pc = "gateway" /\ UNCHANGED <<files, links, chains, rules>>
      /\ c.subnet \in DOMAIN subnets /\ FreeBits(subnets, c.subnet) # {}
      /\ subnets' = WithBit(subnets, c.subnet, o) /\ WellFormed(subnets)
  BY AgreeTypes DEF TakeGateway
<1>2. d.pc = "link" /\ d.phase = c.phase /\ d.id = c.id /\ d.gw = AddrOf(c.subnet, o)
      /\ d.todo = c.todo /\ d.subnet = c.subnet /\ d.k = c.k
  BY <1>1 DEF CommandType
<1>3. CASE Panicked(u)
  BY <1>1, <1>3, AgreeEnd
<1>4. CASE Continue(u, d) /\ seen' = seen
  <2>1. c.subnet \in Small /\ o \in Offsets(c.subnet)
    BY <1>1, FirstFreeIsFree DEF WellFormed, FreeBits
  <2>2. OffsetOf(c.subnet, d.gw) = o /\ (subnets[c.subnet] = {} => o = GatewayBit)
    BY <1>1, <1>2, <2>1, OffsetOfAddrOf, FirstFreeIsFree
  <2>3. /\ DOMAIN subnets' = DOMAIN subnets
        /\ subnets'[c.subnet] = subnets[c.subnet] \cup {o}
        /\ \A s \in DOMAIN subnets : s # c.subnet => subnets'[s] = subnets[s]
    <3>1. subnets = [s \in DOMAIN subnets |-> subnets[s]]
      BY <1>1 DEF WellFormed, IsMap
    <3> QED
      BY <1>1, <3>1 DEF WithBit
  <2> HIDE DEF c, d, o
  <2>4. KernelOK(files, links, chains, rules, c) => KernelOK(files', links', chains', rules', d)
    BY <1>1, <1>2 DEF KernelOK, ChainsOK, OwnBridge, Making, Undoing, Creates
  <2>5. KernelOK(files, links, chains, rules, c) /\ WholeOK(files, links, rules, c) =>
          WholeOK(files', links', rules', d)
    BY <1>1, <1>2 DEF KernelOK, WholeOK, Making, Creates
  <2>6. KernelOK(files, links, chains, rules, c) /\ SubnetsOK(subnets, files, c) =>
          SubnetsOK(subnets', files', d)
    BY <1>1, <1>2, <2>2, <2>3 DEF KernelOK, SubnetsOK, Making, Undoing, Creates, Whole
  <2>7. SubnetsOK(subnets, files, c) /\ FilesOK(subnets, files, links, c) =>
          FilesOK(subnets', files', links', d)
    BY <1>1, <1>2, <2>2, <2>3 DEF FilesOK, SubnetsOK
  <2>8. c.pc # "idle" /\ d.pc # "idle"
    BY <1>1, <1>2
  <2> QED
    BY <1>4, <2>4, <2>5, <2>6, <2>7, <2>8, AgreeGo DEF c
<1> QED
  BY <1>3, <1>4 DEF TakeGateway

\* BridgeNetworkDriver.Create, for a new network and for one to restore.
LEMMA AgreeLink ==
  ASSUME AInv, NEW u \in Users, AddLink(u)
  PROVE  Agree'
<1> DEFINE c == proc[u]
           d == [c EXCEPT !.pc = "address"]
<1>1. /\ c \in CommandType /\ c.pc = "link" /\ c.id \in NetIds /\ IsCommand(c)
      /\ UNCHANGED <<subnets, files, chains, rules, seen>> /\ Continue(u, d)
  BY AgreeTypes DEF AddLink, Goto
<1>2. d.pc = "address" /\ d.phase = c.phase /\ d.id = c.id /\ d.gw = c.gw
      /\ d.todo = c.todo /\ d.subnet = c.subnet /\ d.k = c.k
  BY <1>1 DEF CommandType
<1>3. c.subnet \in Subnets /\ "link" \in Making /\ "address" \in Making
  BY <1>1 DEF IsCommand, HasSubnet, HasGateway, Making
<1>4. c.id \notin DOMAIN links =>
        /\ DOMAIN links' = DOMAIN links \cup {c.id}
        /\ links'[c.id] = [addrs |-> {}, up |-> FALSE]
        /\ \A n \in DOMAIN links : n # c.id /\ links'[n] = links[n]
  BY DEF AddLink
<1> HIDE DEF c, d
<1>5. KernelOK(files, links, chains, rules, c) => c.id \notin DOMAIN links /\ c.k = 1
        /\ chains = AllChains
  BY <1>1, <1>3 DEF KernelOK, OwnBridge, ChainsOK
<1>6. ASSUME KernelOK(files, links, chains, rules, c)
      PROVE  KernelOK(files', links', chains', rules', d)
  <2>1. AtMost(rules[c.id], {})
    BY <1>1, <1>5, <1>6 DEF KernelOK
  <2>2. Exactly(rules[c.id], RulesBefore(1, c.subnet))
    <3>1. 1 \in RuleNumbers
      BY DEF RuleNumbers
    <3> QED
      BY <1>3, <2>1, <3>1, RulesInOrder DEF AtMost, Exactly
  <2>3. OwnBridge(links', rules', d)
    BY <1>1, <1>2, <1>4, <1>5, <1>6, <2>2 DEF OwnBridge
  <2>4. ChainsOK(links', chains', d)
    BY <1>1, <1>2, <1>5, <1>6 DEF ChainsOK, Making
  <2> QED
    BY <1>1, <1>2, <1>3, <1>4, <1>5, <1>6, <2>3, <2>4 DEF KernelOK, Undoing
<1>7. KernelOK(files, links, chains, rules, c) /\ WholeOK(files, links, rules, c) =>
        WholeOK(files', links', rules', d)
  BY <1>1, <1>2, <1>3, <1>4, <1>5 DEF WholeOK, WholeIn, Creates
<1>8. SubnetsOK(subnets, files, c) => SubnetsOK(subnets', files', d)
  BY <1>1, <1>2, <1>3 DEF SubnetsOK, Creates
<1>9. KernelOK(files, links, chains, rules, c) /\ FilesOK(subnets, files, links, c) =>
        FilesOK(subnets', files', links', d)
  BY <1>1, <1>2, <1>4, <1>5 DEF FilesOK
<1>10. c.pc # "idle" /\ d.pc # "idle"
  BY <1>1, <1>2
<1> QED
  BY <1>1, <1>6, <1>7, <1>8, <1>9, <1>10, AgreeGo DEF c

LEMMA AgreeAddress ==
  ASSUME AInv, NEW u \in Users, AddAddress(u)
  PROVE  Agree'
<1> DEFINE c == proc[u]
           d == [c EXCEPT !.pc = "up"]
<1>1. /\ c \in CommandType /\ c.pc = "address" /\ c.id \in NetIds
      /\ UNCHANGED <<subnets, files, chains, rules>>
      /\ links = [n \in DOMAIN links |-> links[n]]
  BY AgreeTypes DEF AddAddress
<1>2. d.pc = "up" /\ d.phase = c.phase /\ d.id = c.id /\ d.gw = c.gw
      /\ d.todo = c.todo /\ d.subnet = c.subnet /\ d.k = c.k /\ Config(d) = Config(c)
  BY <1>1 DEF CommandType, Config
<1>3. {"address", "up"} \subseteq Making
  BY DEF Making
<1>4. CASE c.id \notin DOMAIN links \/ Config(c) \in links[c.id].addrs
  BY <1>1, <1>3, <1>4, AgreeEnd DEF AddAddress
<1>5. CASE ~(c.id \notin DOMAIN links \/ Config(c) \in links[c.id].addrs)
  <2>1. Continue(u, d) /\ seen' = seen
        /\ links' = [links EXCEPT ![c.id].addrs = @ \cup {Config(c)}]
    BY <1>5 DEF AddAddress, Goto
  <2> HIDE DEF c, d
  <2>2. /\ DOMAIN links' = DOMAIN links
        /\ \A n \in DOMAIN links : n # c.id => links'[n] = links[n]
        /\ links'[c.id] = [links[c.id] EXCEPT !.addrs = @ \cup {Config(c)}]
    BY <1>1, <1>5, <2>1
  <2>3. ASSUME KernelOK(files, links, chains, rules, c)
        PROVE  KernelOK(files', links', chains', rules', d)
    <3>1. /\ c.id \in DOMAIN links /\ links[c.id] = [addrs |-> {}, up |-> FALSE]
          /\ Exactly(rules[c.id], RulesBefore(c.k, c.subnet))
      BY <1>1, <1>3, <2>3 DEF KernelOK, OwnBridge
    <3>2. links'[c.id] = [addrs |-> {Config(c)}, up |-> FALSE]
      <4>1. ASSUME NEW x, NEW b
            PROVE  [[addrs |-> {}, up |-> b] EXCEPT !.addrs = @ \cup {x}]
                     = [addrs |-> {x}, up |-> b]
        OBVIOUS
      <4>2. links'[c.id] = [[addrs |-> {}, up |-> FALSE] EXCEPT !.addrs = @ \cup {Config(c)}]
        BY <2>2, <3>1
      <4> QED
        BY <4>1, <4>2
    <3>3. OwnBridge(links', rules', d)
      BY <1>1, <1>2, <2>2, <3>1, <3>2 DEF OwnBridge
    <3>4. ChainsOK(links', chains', d)
      BY <1>1, <1>2, <2>2, <2>3 DEF KernelOK, ChainsOK, Making
    <3> QED
      BY <1>1, <1>2, <1>3, <2>2, <2>3, <3>3, <3>4 DEF KernelOK, Undoing
  <2>4. WholeOK(files, links, rules, c) => WholeOK(files', links', rules', d)
    BY <1>1, <1>2, <1>3, <2>2 DEF WholeOK, WholeIn, Creates
  <2>5. SubnetsOK(subnets, files, c) => SubnetsOK(subnets', files', d)
    BY <1>1, <1>2, <1>3 DEF SubnetsOK, Creates
  <2>6. FilesOK(subnets, files, links, c) => FilesOK(subnets', files', links', d)
    BY <1>1, <1>2, <2>2 DEF FilesOK
  <2>7. c.pc # "idle" /\ d.pc # "idle"
    BY <1>1, <1>2
  <2> QED
    BY <2>1, <2>3, <2>4, <2>5, <2>6, <2>7, AgreeGo DEF c
<1> QED
  BY <1>4, <1>5

LEMMA AgreeUp ==
  ASSUME AInv, NEW u \in Users, SetUp(u)
  PROVE  Agree'
<1> DEFINE c == proc[u]
           d == [c EXCEPT !.pc = "rules"]
<1>1. /\ c \in CommandType /\ c.pc = "up" /\ c.id \in NetIds
      /\ UNCHANGED <<subnets, files, chains, rules>>
      /\ links = [n \in DOMAIN links |-> links[n]]
  BY AgreeTypes DEF SetUp
<1>2. d.pc = "rules" /\ d.phase = c.phase /\ d.id = c.id /\ d.gw = c.gw
      /\ d.todo = c.todo /\ d.subnet = c.subnet /\ d.k = c.k /\ Config(d) = Config(c)
  BY <1>1 DEF CommandType, Config
<1>3. {"up", "rules"} \subseteq Making
  BY DEF Making
<1>4. CASE c.id \notin DOMAIN links
  BY <1>1, <1>4, AgreeEnd DEF SetUp
<1>5. CASE c.id \in DOMAIN links
  <2>1. Continue(u, d) /\ seen' = seen /\ links' = [links EXCEPT ![c.id].up = TRUE]
    BY <1>5 DEF SetUp, Goto
  <2> HIDE DEF c, d
  <2>2. /\ DOMAIN links' = DOMAIN links
        /\ \A n \in DOMAIN links : n # c.id => links'[n] = links[n]
        /\ links'[c.id] = [links[c.id] EXCEPT !.up = TRUE]
    BY <1>1, <1>5, <2>1
  <2>3. ASSUME KernelOK(files, links, chains, rules, c)
        PROVE  KernelOK(files', links', chains', rules', d)
    <3>1. /\ c.id \in DOMAIN links /\ links[c.id] = [addrs |-> {Config(c)}, up |-> FALSE]
          /\ Exactly(rules[c.id], RulesBefore(c.k, c.subnet))
      BY <1>1, <1>3, <2>3 DEF KernelOK, OwnBridge
    <3>2. links'[c.id] = [addrs |-> {Config(c)}, up |-> TRUE]
      <4>1. ASSUME NEW x, NEW a, NEW b
            PROVE  [[addrs |-> x, up |-> a] EXCEPT !.up = b] = [addrs |-> x, up |-> b]
        OBVIOUS
      <4>2. links'[c.id] = [[addrs |-> {Config(c)}, up |-> FALSE] EXCEPT !.up = TRUE]
        BY <2>2, <3>1
      <4> QED
        BY <4>1, <4>2
    <3>3. OwnBridge(links', rules', d)
      BY <1>1, <1>2, <2>2, <3>1, <3>2 DEF OwnBridge
    <3>4. ChainsOK(links', chains', d)
      BY <1>1, <1>2, <2>2, <2>3 DEF KernelOK, ChainsOK, Making
    <3> QED
      BY <1>1, <1>2, <1>3, <2>2, <2>3, <3>3, <3>4 DEF KernelOK, Undoing
  <2>4. WholeOK(files, links, rules, c) => WholeOK(files', links', rules', d)
    BY <1>1, <1>2, <1>3, <2>2 DEF WholeOK, WholeIn, Creates
  <2>5. SubnetsOK(subnets, files, c) => SubnetsOK(subnets', files', d)
    BY <1>1, <1>2, <1>3 DEF SubnetsOK, Creates
  <2>6. FilesOK(subnets, files, links, c) => FilesOK(subnets', files', links', d)
    BY <1>1, <1>2, <2>2 DEF FilesOK
  <2>7. c.pc # "idle" /\ d.pc # "idle"
    BY <1>1, <1>2
  <2> QED
    BY <2>1, <2>3, <2>4, <2>5, <2>6, <2>7, AgreeGo DEF c
<1> QED
  BY <1>4, <1>5

LEMMA AgreeRule ==
  ASSUME AInv, NEW u \in Users, AddRule(u)
  PROVE  Agree'
<1> DEFINE c == proc[u]
           d == IF c.k < 6 THEN [c EXCEPT !.k = @ + 1] ELSE [c EXCEPT !.k = 1, !.pc = "truncate"]
           r == Rule(c.k, c.subnet)
<1>1. /\ c \in CommandType /\ c.pc = "rules" /\ c.id \in NetIds /\ c.k \in RuleNumbers
      /\ UNCHANGED <<subnets, files, links, chains>> /\ IsCommand(c)
      /\ rules \in [NetIds -> [Rules -> Nat]]
  BY AgreeTypes DEF AddRule
<1>2. /\ d.phase = c.phase /\ d.id = c.id /\ d.gw = c.gw
      /\ d.todo = c.todo /\ d.subnet = c.subnet /\ Config(d) = Config(c)
      /\ d.pc = IF c.k < 6 THEN "rules" ELSE "truncate"
      /\ d.k = IF c.k < 6 THEN c.k + 1 ELSE 1
  BY <1>1 DEF CommandType, Config
<1>3. {"rules", "truncate"} \subseteq Making /\ c.subnet \in Subnets
  BY <1>1 DEF Making, IsCommand, HasSubnet, HasGateway
<1>4. CASE ~(ChainOf(c.k) \subseteq chains)
  BY <1>1, <1>3, <1>4, AgreeEnd DEF AddRule
<1>5. CASE ChainOf(c.k) \subseteq chains
  <2>1. Continue(u, d) /\ seen' = seen /\ rules' = [rules EXCEPT ![c.id][r] = @ + 1]
    BY <1>5 DEF AddRule
  <2>0. /\ r \in Rules /\ r \notin RulesBefore(c.k, c.subnet)
        /\ RulesBefore(c.k + 1, c.subnet) = RulesBefore(c.k, c.subnet) \cup {r}
        /\ c.k = 6 => RulesBefore(c.k + 1, c.subnet) = RulesFor(c.subnet)
    BY <1>1, <1>3, RulesInOrder DEF RuleNumbers
  <2> HIDE DEF c, d, r
  <2>2. /\ \A n \in NetIds : n # c.id => rules'[n] = rules[n]
        /\ \A q \in Rules : rules'[c.id][q] = IF q = r THEN rules[c.id][r] + 1 ELSE rules[c.id][q]
    BY <1>1, <2>0, <2>1
  <2>3. ASSUME KernelOK(files, links, chains, rules, c)
        PROVE  KernelOK(files', links', chains', rules', d)
    <3>1. /\ c.id \in DOMAIN links /\ links[c.id] = [addrs |-> {Config(c)}, up |-> TRUE]
          /\ Exactly(rules[c.id], RulesBefore(c.k, c.subnet))
      BY <1>1, <1>3, <2>3 DEF KernelOK, OwnBridge
    <3>2. Exactly(rules'[c.id], RulesBefore(c.k + 1, c.subnet))
      BY <2>0, <2>2, <3>1 DEF Exactly
    <3>3. OwnBridge(links', rules', d)
      BY <1>1, <1>2, <2>0, <3>1, <3>2 DEF OwnBridge, RuleNumbers
    <3>4. ChainsOK(links', chains', d)
      BY <1>1, <1>2, <2>3 DEF KernelOK, ChainsOK, Making
    <3>5. DOMAIN links \subseteq NetIds
      BY AgreeTypes
    <3> QED
      BY <1>1, <1>2, <1>3, <2>2, <2>3, <3>1, <3>3, <3>4, <3>5 DEF KernelOK, Undoing
  <2>4. WholeOK(files, links, rules, c) => WholeOK(files', links', rules', d)
    <3>1. DOMAIN links \subseteq NetIds
      BY AgreeTypes
    <3> QED
      BY <1>1, <1>2, <1>3, <2>2, <3>1 DEF WholeOK, WholeIn, Creates
  <2>5. SubnetsOK(subnets, files, c) => SubnetsOK(subnets', files', d)
    BY <1>1, <1>2, <1>3 DEF SubnetsOK, Creates
  <2>6. FilesOK(subnets, files, links, c) => FilesOK(subnets', files', links', d)
    BY <1>1, <1>2 DEF FilesOK
  <2>7. c.pc # "idle" /\ d.pc # "idle"
    BY <1>1, <1>2
  <2> QED
    BY <2>1, <2>3, <2>4, <2>5, <2>6, <2>7, AgreeGo DEF c
<1> QED
  BY <1>4, <1>5

\* Network.Dump.
LEMMA AgreeTruncate ==
  ASSUME AInv, NEW u \in Users, Truncate(u)
  PROVE  Agree'
<1> DEFINE c == proc[u]
           d == [c EXCEPT !.pc = "write"]
<1>1. /\ c \in CommandType /\ c.pc = "truncate" /\ c.id \in NetIds
      /\ UNCHANGED <<subnets, links, chains, rules, seen>> /\ Continue(u, d)
  BY AgreeTypes DEF Truncate, Goto
<1>2. d.pc = "write" /\ d.phase = c.phase /\ d.id = c.id /\ d.gw = c.gw
      /\ d.todo = c.todo /\ d.subnet = c.subnet /\ d.k = c.k /\ Config(d) = Config(c)
  BY <1>1 DEF CommandType, Config
<1>3. {"truncate", "write"} \subseteq Making
  BY DEF Making
<1>4. /\ DOMAIN files' = DOMAIN files \cup {c.id}
      /\ files'[c.id] = Torn
      /\ \A n \in DOMAIN files : n # c.id => files'[n] = files[n]
  BY DEF Truncate
<1> HIDE DEF c, d
<1>5. KernelOK(files, links, chains, rules, c) => c.id \in DOMAIN links
  BY <1>1, <1>3 DEF KernelOK, OwnBridge
<1>6. ASSUME KernelOK(files, links, chains, rules, c)
      PROVE  KernelOK(files', links', chains', rules', d)
  <2>1. OwnBridge(links', rules', d)
    BY <1>1, <1>2, <1>3, <1>6 DEF KernelOK, OwnBridge
  <2>2. ChainsOK(links', chains', d)
    BY <1>1, <1>2, <1>3, <1>6 DEF KernelOK, ChainsOK
  <2> QED
    BY <1>1, <1>2, <1>3, <1>4, <1>6, <2>1, <2>2 DEF KernelOK, Undoing
<1>7. WholeOK(files, links, rules, c) => WholeOK(files', links', rules', d)
  BY <1>1, <1>2, <1>3, <1>4 DEF WholeOK, WholeIn, Creates
<1>8. SubnetsOK(subnets, files, c) => SubnetsOK(subnets', files', d)
  BY <1>1, <1>2, <1>3, <1>4 DEF SubnetsOK, Creates, Whole
<1>9. KernelOK(files, links, chains, rules, c) /\ FilesOK(subnets, files, links, c) =>
        FilesOK(subnets', files', links', d)
  BY <1>1, <1>2, <1>4, <1>5 DEF FilesOK
<1>10. c.pc # "idle" /\ d.pc # "idle"
  BY <1>1, <1>2
<1> QED
  BY <1>1, <1>6, <1>7, <1>8, <1>9, <1>10, AgreeGo DEF c

LEMMA AgreeWrite ==
  ASSUME AInv, NEW u \in Users, Write(u)
  PROVE  Agree'
<1> DEFINE c == proc[u]
           d == Made(c)
<1>1. /\ c \in CommandType /\ c.pc = "write" /\ c.id \in NetIds /\ IsCommand(c)
      /\ UNCHANGED <<subnets, links, chains, rules, seen>> /\ Continue(u, d)
      /\ files \in NetworkFiles
  BY AgreeTypes DEF Write
<1>2. /\ d = Idle \/ d.pc # "idle"
      /\ d.k = 1
      /\ IF Creates(c) THEN d.pc \in {"idle", "walk"} ELSE d.pc = "restore" /\ d.todo = c.todo
  BY DEF Made, Idle, Creates
<1>3. "write" \in Making /\ Config(c) # Torn /\ Config(c).subnet = c.subnet /\ Config(c).gw = c.gw
  BY <1>1, IpamAssumptions DEF Making, Config, Torn, IsCommand, HasGateway, NilAssumption
<1>4. /\ DOMAIN files' = DOMAIN files
      /\ \A n \in DOMAIN files : files'[n] = IF n = c.id THEN Config(c) ELSE files[n]
  <2>1. \E S : files \in [S -> Configs \cup {Torn}]
    BY <1>1 DEF NetworkFiles
  <2> QED
    BY <2>1 DEF Write
<1>5. KernelOK(files, links, chains, rules, c) =>
        /\ c.id \in DOMAIN links /\ c.id \in DOMAIN files
        /\ links[c.id] = [addrs |-> {Config(c)}, up |-> TRUE]
        /\ Exactly(rules[c.id], RulesFor(c.subnet))
        /\ chains = AllChains
  BY <1>1, <1>3 DEF KernelOK, OwnBridge, ChainsOK
<1> HIDE DEF c, d
<1>6. ASSUME KernelOK(files, links, chains, rules, c)
      PROVE  KernelOK(files', links', chains', rules', d)
  <2>1. AtMost(rules[c.id], RulesFor(c.subnet))
    BY <1>5, <1>6 DEF AtMost, Exactly
  <2>2. ChainsOK(links', chains', d)
    BY <1>1, <1>2, <1>5, <1>6 DEF ChainsOK
  <2>3. d.pc \in {"idle", "walk", "restore"}
    BY <1>2
  <2> QED
    BY <1>1, <1>2, <1>3, <1>4, <1>5, <1>6, <2>1, <2>2, <2>3 DEF KernelOK, Undoing, Making
<1>7. ASSUME KernelOK(files, links, chains, rules, c), WholeOK(files, links, rules, c)
      PROVE  WholeOK(files', links', rules', d)
  <2>1. WholeIn(files', links', rules', c.id)
    BY <1>1, <1>3, <1>4, <1>5, <1>7 DEF WholeIn
  <2>2. \A n \in DOMAIN links : n # c.id => WholeIn(files', links', rules', n)
    BY <1>1, <1>4, <1>7 DEF WholeOK, WholeIn
  <2>3. d.pc = "restore" => \A n \in DOMAIN files' : n \in DOMAIN d.todo \cup DOMAIN links
    BY <1>1, <1>2, <1>3, <1>4, <1>5, <1>7 DEF WholeOK
  <2>4. d.pc \in {"idle", "walk", "restore"} /\ d.pc \notin Making
    BY <1>2 DEF Making
  <2> QED
    BY <1>1, <2>1, <2>2, <2>3, <2>4 DEF WholeOK
<1>8. ASSUME KernelOK(files, links, chains, rules, c), SubnetsOK(subnets, files, c)
      PROVE  SubnetsOK(subnets', files', d)
  <2>1. d.pc \in {"idle", "walk", "restore"} /\ d.pc \notin Making \cup Undoing \cup {"gateway"}
    BY <1>2 DEF Making, Undoing
  <2>2. c.id \in Whole(files') /\ files'[c.id].subnet = c.subnet
    BY <1>3, <1>4, <1>5, <1>8 DEF Whole
  <2>3. \A n \in Whole(files) : n # c.id => n \in Whole(files') /\ files'[n] = files[n]
    BY <1>4 DEF Whole
  <2>4. \A s \in DOMAIN subnets : \E n \in Whole(files') : files'[n].subnet = s
    BY <1>1, <1>3, <1>8, <2>2, <2>3 DEF SubnetsOK
  <2>5. \A n \in DOMAIN files' :
          files'[n] # Torn /\ OffsetOf(files'[n].subnet, files'[n].gw) = GatewayBit
    BY <1>1, <1>3, <1>4, <1>8 DEF SubnetsOK
  <2>6. d.pc = "restore" => \A n \in DOMAIN d.todo : n \in DOMAIN files' /\ files'[n] = d.todo[n]
    BY <1>1, <1>2, <1>3, <1>4, <1>8 DEF SubnetsOK
  <2> QED
    BY <1>1, <2>1, <2>4, <2>5, <2>6 DEF SubnetsOK
<1>9. FilesOK(subnets, files, links, c) => FilesOK(subnets', files', links', d)
  BY <1>1, <1>4 DEF FilesOK
<1>10. c.pc # "idle"
  BY <1>1
<1> QED
  BY <1>1, <1>2, <1>6, <1>7, <1>8, <1>9, <1>10, AgreeGo DEF c

\* InitNetwork.
LEMMA AgreeInit ==
  ASSUME AInv, NEW u \in Users, CheckDefault(u) \/ Walk(u) \/ Initialised(u)
  PROVE  Agree'
<1> DEFINE c == proc[u]
           w == [c EXCEPT !.pc = "walk"]
           e == [Idle EXCEPT !.pc = "chains", !.phase = "default", !.id = Default,
                             !.subnet = DefaultSubnet]
           r == [c EXCEPT !.pc = "restore", !.todo = files]
<1>1. /\ c \in CommandType /\ c.pc \in {"default", "walk", "restore"}
      /\ UNCHANGED <<subnets, files, links, chains, rules, seen>>
  BY AgreeTypes DEF CheckDefault, Walk, Initialised
<1>2. /\ w.pc = "walk" /\ w.k = c.k /\ r.pc = "restore" /\ r.k = c.k /\ r.todo = files
      /\ e.pc = "chains" /\ e.k = 1 /\ e.phase = "default"
      /\ Idle.pc = "idle" /\ Idle.k = 1
  BY <1>1 DEF CommandType, Idle
<1>3. Continue(u, w) \/ Continue(u, e) \/ Continue(u, r) \/ Continue(u, Idle)
  BY DEF CheckDefault, Walk, Initialised
<1> HIDE DEF c, w, e, r
<1>4. ASSUME NEW d, Continue(u, d), d \in {w, e, r, Idle}
      PROVE  Agree'
  <2>1. /\ d.pc \in {"walk", "chains", "restore", "idle"}
        /\ d.pc = "chains" => d.phase = "default"
        /\ d.pc = "restore" => d.todo = files
        /\ d = Idle \/ d.pc # "idle"
    BY <1>2, <1>4
  <2>2. KernelOK(files, links, chains, rules, c) => KernelOK(files', links', chains', rules', d)
    <3>1. KernelOK(files, links, chains, rules, c) => d.k = 1
      BY <1>1, <1>2, <1>4 DEF KernelOK
    <3>2. KernelOK(files, links, chains, rules, c) => ChainsOK(links', chains', d)
      BY <1>1, <2>1, <3>1 DEF KernelOK, ChainsOK, Making
    <3> QED
      BY <1>1, <2>1, <3>1, <3>2 DEF KernelOK, Making, Undoing, Creates
  <2>3. WholeOK(files, links, rules, c) => WholeOK(files', links', rules', d)
    BY <1>1, <2>1 DEF WholeOK, Making
  <2>4. SubnetsOK(subnets, files, c) => SubnetsOK(subnets', files', d)
    BY <1>1, <2>1 DEF SubnetsOK, Making, Undoing
  <2>5. FilesOK(subnets, files, links, c) => FilesOK(subnets', files', links', d)
    BY <1>1 DEF FilesOK
  <2>6. c.pc # "idle"
    BY <1>1
  <2> QED
    BY <1>1, <1>4, <2>1, <2>2, <2>3, <2>4, <2>5, <2>6, AgreeGo DEF c
<1> QED
  BY <1>3, <1>4

LEMMA AgreeRestore ==
  ASSUME AInv, NEW u \in Users, Restore(u)
  PROVE  Agree'
<1> DEFINE c == proc[u]
<1>1. /\ c \in CommandType /\ c.pc = "restore" /\ c.todo \in NetworkFiles
      /\ UNCHANGED <<subnets, files, links, chains, rules, seen>>
  BY AgreeTypes DEF Restore, CommandType
<1>2. PICK n \in DOMAIN c.todo :
        LET rest == [m \in DOMAIN c.todo \ {n} |-> c.todo[m]] IN
        Continue(u,
          CASE n \in DOMAIN links -> [c EXCEPT !.todo = rest]
            [] n \notin DOMAIN links /\ c.todo[n] = Torn -> Idle
            [] OTHER -> [c EXCEPT !.phase = "restore", !.pc = "link", !.id = n,
                                  !.subnet = c.todo[n].subnet, !.gw = c.todo[n].gw,
                                  !.todo = rest])
  BY Zenon DEF Restore
<1> DEFINE rest == [m \in DOMAIN c.todo \ {n} |-> c.todo[m]]
           e == [c EXCEPT !.todo = rest]
           r == [c EXCEPT !.phase = "restore", !.pc = "link", !.id = n,
                          !.subnet = c.todo[n].subnet, !.gw = c.todo[n].gw, !.todo = rest]
<1>3. /\ DOMAIN rest = DOMAIN c.todo \ {n}
      /\ \A m \in DOMAIN rest : rest[m] = c.todo[m]
  OBVIOUS
<1>4. /\ e.pc = "restore" /\ e.todo = rest /\ e.k = c.k
      /\ r.pc = "link" /\ r.phase = "restore" /\ r.id = n /\ r.k = c.k /\ r.todo = rest
      /\ r.subnet = c.todo[n].subnet /\ r.gw = c.todo[n].gw
      /\ Idle.pc = "idle" /\ Idle.k = 1
  BY <1>1 DEF CommandType, Idle
<1>5. \/ n \in DOMAIN links /\ Continue(u, e)
      \/ Continue(u, Idle)
      \/ n \notin DOMAIN links /\ c.todo[n] # Torn /\ Continue(u, r)
  BY <1>2
<1>6. c.pc # "idle" /\ "link" \in Making
  BY <1>1 DEF Making
<1>14. FilesOK(subnets, files, links, c) =>
         \A d : FilesOK(subnets', files', links', d)
  BY <1>1 DEF FilesOK
<1> HIDE DEF c, e, r, rest
<1>7. CASE n \in DOMAIN links /\ Continue(u, e)
  <2>1. KernelOK(files, links, chains, rules, c) => KernelOK(files', links', chains', rules', e)
    BY <1>1, <1>4 DEF KernelOK, ChainsOK, Making, Undoing, Creates
  <2>2. WholeOK(files, links, rules, c) => WholeOK(files', links', rules', e)
    BY <1>1, <1>3, <1>4, <1>7 DEF WholeOK, Making
  <2>3. SubnetsOK(subnets, files, c) => SubnetsOK(subnets', files', e)
    BY <1>1, <1>3, <1>4 DEF SubnetsOK, Making, Undoing
  <2> QED
    BY <1>1, <1>4, <1>6, <1>7, <1>14, <2>1, <2>2, <2>3, AgreeGo DEF c
<1>8. CASE Continue(u, Idle)
  <2>1. KernelOK(files, links, chains, rules, c) => KernelOK(files', links', chains', rules', Idle)
    BY <1>1, <1>4, EndKernel DEF Making
  <2>2. WholeOK(files, links, rules, c) => WholeOK(files', links', rules', Idle)
    BY <1>1, <1>4, EndWhole DEF Making
  <2>3. SubnetsOK(subnets, files, c) => SubnetsOK(subnets', files', Idle)
    BY <1>1, <1>4, EndSubnets DEF Making
  <2> QED
    BY <1>1, <1>4, <1>6, <1>8, <1>14, <2>1, <2>2, <2>3, AgreeGo DEF c
<1>9. CASE n \notin DOMAIN links /\ c.todo[n] # Torn /\ Continue(u, r)
  <2>0. ~Creates(r)
    BY <1>4 DEF Creates
  <2>1. KernelOK(files, links, chains, rules, c) => KernelOK(files', links', chains', rules', r)
    BY <1>1, <1>4, <1>9 DEF KernelOK, ChainsOK, OwnBridge, Making, Undoing
  <2>2. WholeOK(files, links, rules, c) => WholeOK(files', links', rules', r)
    BY <1>1, <1>3, <1>4, <1>9 DEF WholeOK, Making
  <2>3. ASSUME SubnetsOK(subnets, files, c) PROVE SubnetsOK(subnets', files', r)
    <3>1. /\ n \in DOMAIN files /\ files[n] = c.todo[n]
          /\ OffsetOf(files[n].subnet, files[n].gw) = GatewayBit
      BY <1>1, <2>3 DEF SubnetsOK
    <3> QED
      BY <1>1, <1>3, <1>4, <1>6, <2>3, <3>1 DEF SubnetsOK, Making, Undoing
  <2> QED
    BY <1>1, <1>4, <1>6, <1>9, <1>14, <2>1, <2>2, <2>3, AgreeGo DEF c
<1> QED
  BY <1>5, <1>7, <1>8, <1>9

\* DeleteNetwork.
LEMMA AgreeLoad ==
  ASSUME AInv, NEW u \in Users, Load(u)
  PROVE  Agree'
<1> DEFINE c == proc[u]
           d == [c EXCEPT !.pc = "release", !.subnet = files[c.id].subnet,
                          !.gw = files[c.id].gw]
<1>1. /\ c \in CommandType /\ c.pc = "load" /\ c.id \in NetIds /\ files \in NetworkFiles
      /\ UNCHANGED <<subnets, files, links, chains, rules, seen>>
  BY AgreeTypes DEF Load
<1>2. /\ d.pc = "release" /\ d.phase = c.phase /\ d.id = c.id /\ d.k = c.k
      /\ d.subnet = files[c.id].subnet /\ d.gw = files[c.id].gw
  BY <1>1 DEF CommandType
<1>3. /\ Idle.pc = "idle" /\ Idle.k = 1 /\ c.pc # "idle"
      /\ c.pc \notin Making \cup Undoing \cup {"gateway"}
  BY <1>1 DEF Idle, Making, Undoing
<1>4. CASE c.id \in DOMAIN files /\ files[c.id] # Torn
  <2>1. Continue(u, d)
    BY <1>4 DEF Load
  <2>2. files[c.id] = Config(d)
    <3>1. files[c.id] \in Configs
      BY <1>1, <1>4, FileTyped
    <3> QED
      BY <1>2, <3>1 DEF Configs, Config
  <2> HIDE DEF c, d
  <2>3. KernelOK(files, links, chains, rules, c) => KernelOK(files', links', chains', rules', d)
    BY <1>1, <1>2, <1>4, <2>2 DEF KernelOK, ChainsOK, OwnRemoval, Making, Undoing, Creates
  <2>4. WholeOK(files, links, rules, c) => WholeOK(files', links', rules', d)
    BY <1>1, <1>2 DEF WholeOK, Making
  <2>5. SubnetsOK(subnets, files, c) => SubnetsOK(subnets', files', d)
    BY <1>1, <1>2 DEF SubnetsOK, Making, Undoing
  <2>6. FilesOK(subnets, files, links, c) => FilesOK(subnets', files', links', d)
    BY <1>1 DEF FilesOK
  <2> QED
    BY <1>1, <1>2, <1>3, <2>1, <2>3, <2>4, <2>5, <2>6, AgreeGo DEF c
<1>5. CASE ~(c.id \in DOMAIN files /\ files[c.id] # Torn)
  <2>1. Continue(u, Idle)
    BY <1>5 DEF Load
  <2> HIDE DEF c, d
  <2>2. KernelOK(files, links, chains, rules, c) => KernelOK(files', links', chains', rules', Idle)
    BY <1>1, <1>3, EndKernel
  <2>3. WholeOK(files, links, rules, c) => WholeOK(files', links', rules', Idle)
    BY <1>1, <1>3, EndWhole
  <2>4. SubnetsOK(subnets, files, c) => SubnetsOK(subnets', files', Idle)
    BY <1>1, <1>3, EndSubnets
  <2>5. FilesOK(subnets, files, links, c) => FilesOK(subnets', files', links', Idle)
    BY <1>1, EndFiles
  <2> QED
    BY <1>1, <1>3, <2>1, <2>2, <2>3, <2>4, <2>5, AgreeGo DEF c
<1> QED
  BY <1>4, <1>5

LEMMA AgreeRelease ==
  ASSUME AInv, NEW u \in Users, ReleaseSubnet(u)
  PROVE  Agree'
<1> DEFINE c == proc[u]
           d == [c EXCEPT !.pc = "unlink"]
<1>1. /\ c \in CommandType /\ c.pc = "release" /\ c.id \in NetIds /\ IsCommand(c)
      /\ UNCHANGED <<files, links, chains, rules>> /\ files \in NetworkFiles
  BY AgreeTypes DEF ReleaseSubnet
<1>2. /\ d.pc = "unlink" /\ d.phase = c.phase /\ d.id = c.id /\ d.k = c.k
      /\ d.subnet = c.subnet /\ d.gw = c.gw /\ Config(d) = Config(c)
      /\ Config(c).subnet = c.subnet /\ Config(c).gw = c.gw
  BY <1>1 DEF CommandType, Config
<1>3. Config(c) # Torn
  BY <1>1, IpamAssumptions DEF Config, Torn, IsCommand, HasGateway, NilAssumption
<1>4. CASE ReleasePanics(subnets, c.subnet, c.gw)
  BY <1>1, <1>4, AgreeEnd DEF ReleaseSubnet
<1>5. CASE ~ReleasePanics(subnets, c.subnet, c.gw)
  <2>1. /\ Continue(u, d) /\ seen' = seen
        /\ subnets' = Released(subnets, c.subnet, c.gw)
    BY <1>5 DEF ReleaseSubnet, Goto
  <2> HIDE DEF c, d
  <2>2. ASSUME KernelOK(files, links, chains, rules, c), SubnetsOK(subnets, files, c)
        PROVE  /\ c.id \in Whole(files) /\ files[c.id] = Config(c)
               /\ DOMAIN subnets' = DOMAIN subnets \ {c.subnet}
               /\ \A s \in DOMAIN subnets' : subnets'[s] = subnets[s]
    <3>1. c.id \in Whole(files) /\ files[c.id] = Config(c)
      BY <1>1, <1>3, <2>2 DEF KernelOK, OwnRemoval, Whole
    <3>2. OffsetOf(c.subnet, c.gw) = GatewayBit
      BY <1>1, <1>2, <2>2, <3>1 DEF SubnetsOK, Whole
    <3> QED
      BY <2>1, <3>1, <3>2 DEF Released, WithoutSubnet
  <2>3. KernelOK(files, links, chains, rules, c) => KernelOK(files', links', chains', rules', d)
    BY <1>1, <1>2 DEF KernelOK, ChainsOK, OwnRemoval, Making, Undoing, Creates
  <2>4. WholeOK(files, links, rules, c) => WholeOK(files', links', rules', d)
    BY <1>1, <1>2 DEF WholeOK, Making
  <2>5. KernelOK(files, links, chains, rules, c) /\ SubnetsOK(subnets, files, c) =>
          SubnetsOK(subnets', files', d)
    BY <1>1, <1>2, <2>2 DEF SubnetsOK, Making, Undoing
  <2>6. KernelOK(files, links, chains, rules, c) /\ SubnetsOK(subnets, files, c)
          /\ FilesOK(subnets, files, links, c) => FilesOK(subnets', files', links', d)
    BY <1>1, <1>2, <2>2 DEF FilesOK
  <2>7. c.pc # "idle" /\ d.pc # "idle"
    BY <1>1, <1>2
  <2> QED
    BY <2>1, <2>3, <2>4, <2>5, <2>6, <2>7, AgreeGo DEF c
<1> QED
  BY <1>4, <1>5

LEMMA AgreeFindLink ==
  ASSUME AInv, NEW u \in Users, FindLink(u)
  PROVE  Agree'
<1> DEFINE c == proc[u]
           d == [c EXCEPT !.pc = "unrule"]
<1>1. /\ c \in CommandType /\ c.pc = "unlink" /\ c.id \in NetIds /\ IsCommand(c)
      /\ UNCHANGED <<subnets, files, links, chains, rules>>
  BY AgreeTypes DEF FindLink
<1>2. /\ d.pc = "unrule" /\ d.phase = c.phase /\ d.id = c.id /\ d.k = c.k
      /\ d.subnet = c.subnet /\ d.gw = c.gw /\ Config(d) = Config(c)
      /\ Config(c).subnet = c.subnet
  BY <1>1 DEF CommandType, Config
<1>3. CASE c.id \notin DOMAIN links
  BY <1>1, <1>3, AgreeEnd DEF FindLink, Undoing
<1>4. CASE c.id \in DOMAIN links
  <2>1. Continue(u, d) /\ seen' = seen
    BY <1>4 DEF FindLink, Goto
  <2>2. RulesFrom(1, c.subnet) = RulesFor(c.subnet)
    <3>1. c.subnet \in Subnets /\ 1 \in RuleNumbers
      BY <1>1 DEF IsCommand, HasSubnet, HasGateway, RuleNumbers
    <3> QED
      BY <3>1, RulesInOrder
  <2> HIDE DEF c, d
  <2>3. ASSUME KernelOK(files, links, chains, rules, c)
        PROVE  KernelOK(files', links', chains', rules', d)
    <3>1. c.k = 1 /\ OwnRemoval(files, links, rules, c)
          /\ AtMost(rules[c.id], RulesFor(files[c.id].subnet))
      BY <1>1, <1>4, <2>3 DEF KernelOK, Making, Undoing
    <3>2. OwnRemoval(files', links', rules', d)
      BY <1>1, <1>2, <2>2, <3>1 DEF OwnRemoval
    <3> QED
      BY <1>1, <1>2, <2>3, <3>2 DEF KernelOK, ChainsOK, Making, Undoing, Creates
  <2>4. WholeOK(files, links, rules, c) => WholeOK(files', links', rules', d)
    BY <1>1, <1>2 DEF WholeOK, Making
  <2>5. SubnetsOK(subnets, files, c) => SubnetsOK(subnets', files', d)
    BY <1>1, <1>2 DEF SubnetsOK, Making, Undoing
  <2>6. FilesOK(subnets, files, links, c) => FilesOK(subnets', files', links', d)
    BY <1>1, <1>2 DEF FilesOK
  <2>7. c.pc # "idle" /\ d.pc # "idle"
    BY <1>1, <1>2
  <2> QED
    BY <2>1, <2>3, <2>4, <2>5, <2>6, <2>7, AgreeGo DEF c
<1> QED
  BY <1>3, <1>4

LEMMA AgreeUnrule ==
  ASSUME AInv, NEW u \in Users, DeleteRule(u)
  PROVE  Agree'
<1> DEFINE c == proc[u]
           d == IF c.k < 6 THEN [c EXCEPT !.k = @ + 1] ELSE [c EXCEPT !.pc = "dellink"]
           r == Rule(c.k, c.subnet)
<1>1. /\ c \in CommandType /\ c.pc = "unrule" /\ c.id \in NetIds /\ c.k \in RuleNumbers
      /\ UNCHANGED <<subnets, files, links, chains>> /\ IsCommand(c)
      /\ rules \in [NetIds -> [Rules -> Nat]] /\ DOMAIN links \subseteq NetIds
  BY AgreeTypes DEF DeleteRule
<1>2. /\ d.phase = c.phase /\ d.id = c.id /\ d.subnet = c.subnet /\ d.gw = c.gw
      /\ Config(d) = Config(c) /\ Config(c).subnet = c.subnet
      /\ d.pc = IF c.k < 6 THEN "unrule" ELSE "dellink"
      /\ c.k < 6 => d.k = c.k + 1
  BY <1>1 DEF CommandType, Config
<1>3. {"unrule", "dellink"} \subseteq Undoing /\ c.subnet \in Subnets
  BY <1>1 DEF Undoing, IsCommand, HasSubnet, HasGateway
<1>4. CASE ~(rules[c.id][r] > 0)
  BY <1>1, <1>3, <1>4, AgreeEnd DEF DeleteRule
<1>5. CASE rules[c.id][r] > 0
  <2>1. Continue(u, d) /\ seen' = seen /\ rules' = [rules EXCEPT ![c.id][r] = @ - 1]
    BY <1>5 DEF DeleteRule
  <2>2. /\ r \in Rules /\ RulesFrom(c.k + 1, c.subnet) = RulesFrom(c.k, c.subnet) \ {r}
        /\ RulesFrom(c.k, c.subnet) \subseteq RulesFor(c.subnet)
        /\ c.k = 6 => RulesFrom(c.k + 1, c.subnet) = {}
    BY <1>1, <1>3, RulesInOrder DEF RuleNumbers
  <2> HIDE DEF c, d, r
  <2>3. /\ \A n \in NetIds : n # c.id => rules'[n] = rules[n]
        /\ \A q \in Rules : rules'[c.id][q] = IF q = r THEN rules[c.id][r] - 1 ELSE rules[c.id][q]
    BY <1>1, <2>1, <2>2
  <2>4. ASSUME KernelOK(files, links, chains, rules, c)
        PROVE  KernelOK(files', links', chains', rules', d)
    <3>1. OwnRemoval(files, links, rules, c) /\ AtMost(rules[c.id], RulesFrom(c.k, c.subnet))
      BY <1>1, <1>3, <2>4 DEF KernelOK, OwnRemoval
    <3>2. AtMost(rules'[c.id], RulesFrom(c.k + 1, c.subnet))
      BY <1>5, <2>2, <2>3, <3>1 DEF AtMost
    <3>3. AtMost(rules'[c.id], RulesFor(c.subnet))
      BY <2>2, <3>2 DEF AtMost
    <3>4. c.k < 6 \/ c.k = 6
      BY <1>1 DEF RuleNumbers
    <3>5. OwnRemoval(files', links', rules', d)
      BY <1>1, <1>2, <2>2, <3>1, <3>2, <3>4 DEF OwnRemoval
    <3>6. ChainsOK(links', chains', d)
      BY <1>1, <1>2, <2>4 DEF KernelOK, ChainsOK, Making
    <3>7. d.pc \in {"unrule", "dellink"} /\ d.pc \notin Making /\ c.pc \notin Making
      BY <1>1, <1>2 DEF Making
    <3>8. \A n \in NetIds \ DOMAIN links' : AtMost(rules'[n], {})
      <4>1. c.id \in NetIds \ DOMAIN links => FALSE
        <5>1. ASSUME c.id \in NetIds \ DOMAIN links PROVE FALSE
          <6>1. rules[c.id][r] = 0
            BY <2>2, <2>4, <5>1 DEF KernelOK, AtMost
          <6> QED
            BY <1>5, <6>1
        <5> QED
          BY <5>1
      <4> QED
        BY <1>1, <2>3, <2>4, <4>1 DEF KernelOK
    <3>9. \A n \in DOMAIN links' : n \in DOMAIN files' /\ AtMost(rules'[n], RulesFor(files'[n].subnet))
      BY <1>1, <1>2, <2>3, <2>4, <3>1, <3>3, <3>7 DEF KernelOK, OwnRemoval
    <3> QED
      BY <3>5, <3>6, <3>7, <3>8, <3>9 DEF KernelOK
  <2>5. WholeOK(files, links, rules, c) => WholeOK(files', links', rules', d)
    BY <1>1, <1>2, <2>3 DEF WholeOK, WholeIn, Making
  <2>6. SubnetsOK(subnets, files, c) => SubnetsOK(subnets', files', d)
    BY <1>1, <1>2 DEF SubnetsOK, Making, Undoing
  <2>7. FilesOK(subnets, files, links, c) => FilesOK(subnets', files', links', d)
    BY <1>1, <1>2 DEF FilesOK
  <2>8. c.pc # "idle" /\ d.pc # "idle"
    BY <1>1, <1>2
  <2> QED
    BY <2>1, <2>4, <2>5, <2>6, <2>7, <2>8, AgreeGo DEF c
<1> QED
  BY <1>4, <1>5

LEMMA AgreeDelLink ==
  ASSUME AInv, NEW u \in Users, DeleteLink(u)
  PROVE  Agree'
<1> DEFINE c == proc[u]
           d == [c EXCEPT !.pc = "rmfile"]
<1>1. /\ c \in CommandType /\ c.pc = "dellink" /\ c.id \in NetIds
      /\ UNCHANGED <<subnets, files, chains, rules>>
  BY AgreeTypes DEF DeleteLink
<1>2. /\ d.pc = "rmfile" /\ d.phase = c.phase /\ d.id = c.id
      /\ d.subnet = c.subnet /\ d.gw = c.gw /\ Config(d) = Config(c)
  BY <1>1 DEF CommandType, Config
<1>3. CASE c.id \notin DOMAIN links
  BY <1>1, <1>3, AgreeEnd DEF DeleteLink, Undoing
<1>4. CASE c.id \in DOMAIN links
  <2>1. Continue(u, d) /\ seen' = seen
        /\ links' = [m \in DOMAIN links \ {c.id} |-> links[m]]
    BY <1>4 DEF DeleteLink, Goto
  <2>2. DOMAIN links' = DOMAIN links \ {c.id} /\ \A n \in DOMAIN links' : links'[n] = links[n]
    BY <2>1
  <2> HIDE DEF c, d
  <2>3. ASSUME KernelOK(files, links, chains, rules, c)
        PROVE  KernelOK(files', links', chains', rules', d)
    <3>1. OwnRemoval(files, links, rules, c)
      BY <1>1, <2>3 DEF KernelOK, Undoing
    <3>2. OwnRemoval(files', links', rules', d) /\ AtMost(rules[c.id], {})
      BY <1>1, <1>2, <2>2, <3>1 DEF OwnRemoval
    <3>3. ChainsOK(links', chains', d)
      BY <1>1, <1>2, <2>2, <2>3 DEF KernelOK, ChainsOK, Making
    <3> QED
      BY <1>1, <1>2, <2>2, <2>3, <3>2, <3>3 DEF KernelOK, Making, Undoing
  <2>4. WholeOK(files, links, rules, c) => WholeOK(files', links', rules', d)
    BY <1>1, <1>2, <2>2 DEF WholeOK, WholeIn, Making
  <2>5. SubnetsOK(subnets, files, c) => SubnetsOK(subnets', files', d)
    BY <1>1, <1>2 DEF SubnetsOK, Making, Undoing
  <2>6. FilesOK(subnets, files, links, c) => FilesOK(subnets', files', links', d)
    BY <1>1, <1>2, <2>2 DEF FilesOK
  <2>7. c.pc # "idle" /\ d.pc # "idle"
    BY <1>1, <1>2
  <2> QED
    BY <2>1, <2>3, <2>4, <2>5, <2>6, <2>7, AgreeGo DEF c
<1> QED
  BY <1>3, <1>4

LEMMA AgreeRemoveFile ==
  ASSUME AInv, NEW u \in Users, RemoveFile(u)
  PROVE  Agree'
<1> DEFINE c == proc[u]
<1>1. /\ c.pc = "rmfile" /\ UNCHANGED <<subnets, links, chains, rules, seen>>
      /\ Continue(u, Idle)
      /\ Idle.pc = "idle" /\ Idle.k = 1 /\ c.pc # "idle"
  BY DEF RemoveFile, Idle
<1>2. DOMAIN files' = DOMAIN files \ {c.id} /\ \A n \in DOMAIN files' : files'[n] = files[n]
  BY DEF RemoveFile
<1> HIDE DEF c
<1>3. KernelOK(files, links, chains, rules, c) => c.id \notin DOMAIN links
  BY <1>1 DEF KernelOK, OwnRemoval, Undoing
<1>4. ASSUME KernelOK(files, links, chains, rules, c)
      PROVE  KernelOK(files', links', chains', rules', Idle)
  <2>1. ChainsOK(links', chains', Idle)
    BY <1>1, <1>4 DEF KernelOK, ChainsOK, Making
  <2> QED
    BY <1>1, <1>2, <1>3, <1>4, <2>1 DEF KernelOK, Making, Undoing
<1>5. KernelOK(files, links, chains, rules, c) /\ WholeOK(files, links, rules, c) =>
        WholeOK(files', links', rules', Idle)
  BY <1>1, <1>2, <1>3 DEF WholeOK, WholeIn, Making
<1>6. SubnetsOK(subnets, files, c) => SubnetsOK(subnets', files', Idle)
  BY <1>1, <1>2 DEF SubnetsOK, Making, Undoing, Whole
<1>7. FilesOK(subnets, files, links, c) => FilesOK(subnets', files', links', Idle)
  BY <1>1, <1>2 DEF FilesOK
<1> QED
  BY <1>1, <1>4, <1>5, <1>6, <1>7, AgreeGo DEF c

\* A gateway that is not to be had, and a command that is killed.
LEMMA AgreeNoGateway ==
  ASSUME AInv, NEW u \in Users, NoGateway(u)
  PROVE  Agree'
<1>1. proc[u].pc = "gateway" /\ UNCHANGED <<subnets, files, links, chains, rules>>
  BY DEF NoGateway
<1>2. Failed(u) \/ Panicked(u)
  BY Zenon DEF NoGateway
<1> QED
  BY <1>1, <1>2, AgreeEnd

LEMMA AgreeCrash ==
  ASSUME AInv, NEW u \in Users, Crash(u)
  PROVE  Agree'
<1>1. proc[u].pc # "idle" /\ UNCHANGED <<subnets, files, links, chains, rules>>
  BY DEF Crash, Busy
<1>2. Panicked(u)
  BY Zenon DEF Crash
<1> QED
  BY <1>1, <1>2, AgreeEnd

\* A reboot leaves nothing in the kernel that could be half made; a creation
\* that it cuts short shows.
LEMMA AgreeReboot ==
  ASSUME AInv, Reboot
  PROVE  Agree'
<1>1. /\ \A u \in Users : proc'[u] = Idle
      /\ seen' = (seen \cup {"reboot"} \cup UNION {CutShort(proc[u]) : u \in Busy}) \ {"kernel"}
      /\ links' = NoNetworks /\ chains' = {} /\ rules' = [n \in NetIds |-> [r \in Rules |-> 0]]
      /\ UNCHANGED <<subnets, files>>
  BY DEF Reboot
<1>2. Idle.pc = "idle" /\ Idle.k = 1
  BY DEF Idle
<1>3. CurrentOf(proc') = Idle /\ Serial(proc')
  BY <1>1, <1>2 DEF CurrentOf, Serial
<1>4. seen' # {}
  BY <1>1
<1>5. DOMAIN links' = {} /\ \A n \in NetIds : AtMost(rules'[n], {})
  BY <1>1 DEF NoNetworks, AtMost
<1>6. KernelOK(files', links', chains', rules', Idle)
  BY <1>1, <1>2, <1>5 DEF KernelOK, ChainsOK, Making, Undoing
<1>7. WholeOK(files', links', rules', Idle)
  BY <1>2, <1>5 DEF WholeOK, Making
<1>8. ASSUME Created' PROVE SubnetsOK(subnets', files', Idle)
  <2>1. Created
    BY <1>1, <1>8 DEF Created
  <2>2. SubnetsOK(subnets, files, CurrentOf(proc))
    BY <2>1 DEF AInv, Agree
  <2>3. ASSUME NEW u \in Users PROVE proc[u].pc \notin Making \cup {"gateway"}
    <3> SUFFICES ASSUME proc[u].pc \in Making \cup {"gateway"} PROVE FALSE
      OBVIOUS
    <3>1. u \in Busy /\ "create" \in CutShort(proc[u])
      BY DEF Busy, Making, CutShort
    <3>2. "create" \in UNION {CutShort(proc[v]) : v \in Busy}
      BY <3>1
    <3>3. "create" \in seen'
      BY <1>1, <3>2
    <3> QED
      BY <1>8, <3>3 DEF Created
  <2>4. CurrentOf(proc).pc \notin Making \cup {"gateway"}
    BY <1>2, <2>3 DEF CurrentOf, Making
  <2> QED
    BY <1>1, <1>2, <2>2, <2>4, EndSubnets
<1> QED
  BY <1>3, <1>4, <1>6, <1>7, <1>8 DEF Agree

\* At the start there is nothing.
LEMMA AgreeInitial == Init => AInv
<1> SUFFICES ASSUME Init PROVE AInv
  OBVIOUS
<1>1. /\ \A u \in Users : proc[u] = Idle
      /\ DOMAIN subnets = {} /\ DOMAIN files = {} /\ DOMAIN links = {} /\ chains = {}
      /\ \A n \in NetIds : AtMost(rules[n], {})
  BY DEF Init, NoSubnets, NoNetworks, AtMost
<1>2. Idle.pc = "idle" /\ Idle.k = 1
  BY DEF Idle
<1>3. CurrentOf(proc) = Idle /\ Serial(proc)
  BY <1>1, <1>2 DEF CurrentOf, Serial
<1>4. KernelOK(files, links, chains, rules, Idle)
  BY <1>1, <1>2 DEF KernelOK, ChainsOK, Making, Undoing
<1>5. WholeOK(files, links, rules, Idle)
  BY <1>1, <1>2 DEF WholeOK, Making
<1>6. SubnetsOK(subnets, files, Idle)
  BY <1>1, <1>2 DEF SubnetsOK, Making
<1>7. FilesOK(subnets, files, links, Idle)
  BY <1>1 DEF FilesOK
<1> QED
  BY <1>3, <1>4, <1>5, <1>6, <1>7, HoldsInit DEF AInv, Agree

\* Every step keeps the invariant.
LEMMA AgreeInvStep == AInv /\ [Next]_vars => AInv'
<1> SUFFICES ASSUME AInv, [Next]_vars PROVE AInv'
  OBVIOUS
<1>1. HInv'
  BY HoldsStep DEF AInv
<1>2. ASSUME UNCHANGED vars PROVE Agree'
  <2>1. /\ UNCHANGED <<subnets, files, links, chains, rules, proc, seen>>
    BY <1>2 DEF vars
  <2>2. (Settled' <=> Settled) /\ (Created' <=> Created)
    BY <2>1 DEF Settled, Created
  <2> QED
    BY <2>1, <2>2 DEF AInv, Agree
<1>3. ASSUME NEW u \in Users, Type(u) \/ Step(u) \/ Crash(u) PROVE Agree'
  <2> DEFINE
      First == \/ MakeChain(u) \/ Exists(u) \/ TakeSubnet(u) \/ NoGateway(u) \/ TakeGateway(u)
      Second == \/ AddLink(u) \/ AddAddress(u) \/ SetUp(u) \/ AddRule(u) \/ Truncate(u)
                \/ Write(u)
      Third == \/ CheckDefault(u) \/ Walk(u) \/ Restore(u) \/ Initialised(u)
      Fourth == \/ Load(u) \/ ReleaseSubnet(u) \/ FindLink(u) \/ DeleteRule(u)
                \/ DeleteLink(u) \/ RemoveFile(u)
  <2>1. CASE First
    BY <2>1, AgreeChain, AgreeExists, AgreeSubnet, AgreeNoGateway, AgreeGateway
  <2>2. CASE Second
    BY <2>2, AgreeLink, AgreeAddress, AgreeUp, AgreeRule, AgreeTruncate, AgreeWrite
  <2>3. CASE Third
    BY <2>3, AgreeInit, AgreeRestore
  <2>4. CASE Fourth
    BY <2>4, AgreeLoad, AgreeRelease, AgreeFindLink, AgreeUnrule, AgreeDelLink, AgreeRemoveFile
  <2>5. CASE Type(u) \/ Crash(u)
    BY <2>5, AgreeType, AgreeCrash
  <2> QED
    BY <1>3, <2>1, <2>2, <2>3, <2>4, <2>5 DEF Step
<1> QED
  BY <1>1, <1>2, <1>3, AgreeReboot DEF AInv, Next

-----------------------------------------------------------------------------
(* What follows from the invariant. *)

LEMMA ChainsCount == Cardinality(AllChains) = 4
<1>1. IsFiniteSet({}) /\ Cardinality({}) = 0
  BY FS_EmptySet
<1>2. IsFiniteSet({} \cup {"filter"}) /\ Cardinality({} \cup {"filter"}) = 1
  BY <1>1, FS_AddElement
<1>3. ({} \cup {"filter"}) \cup {"nat"} = {"filter", "nat"}
  OBVIOUS
<1>4. IsFiniteSet({"filter", "nat"}) /\ Cardinality({"filter", "nat"}) = 2
  BY <1>2, <1>3, FS_AddElement
<1>5. {"filter", "nat"} \cup {"prerouting"} = {"filter", "nat", "prerouting"}
  OBVIOUS
<1>6. /\ IsFiniteSet({"filter", "nat", "prerouting"})
      /\ Cardinality({"filter", "nat", "prerouting"}) = 3
  BY <1>4, <1>5, FS_AddElement
<1>7. {"filter", "nat", "prerouting"} \cup {"output"} = AllChains
  BY DEF AllChains
<1> QED
  BY <1>6, <1>7, FS_AddElement

LEMMA WholeIsWhole ==
  ASSUME NEW n \in DOMAIN links, WholeIn(files, links, rules, n)
  PROVE  WholeInKernel(n)
  BY DEF WholeIn, WholeInKernel, Exactly, RulesFor

LEMMA QuietCurrent == Quiet => CurrentOf(proc) = Idle /\ Idle.pc = "idle"
  BY DEF Quiet, Busy, CurrentOf, Idle

LEMMA AgreeNetworks == AInv => NetworksAgree
<1> SUFFICES ASSUME AInv, Quiet, seen = {} PROVE
      /\ \A n \in DOMAIN files : files[n] # Torn /\ WholeInKernel(n)
      /\ DOMAIN links = DOMAIN files
      /\ \A n \in NetIds \ DOMAIN files : \A r \in Rules : rules[n][r] = 0
      /\ DOMAIN subnets = {files[n].subnet : n \in DOMAIN files}
      /\ \A s \in DOMAIN subnets : subnets[s] = {GatewayBit}
      /\ DOMAIN files # {} => Cardinality(chains) = 4
  BY DEF NetworksAgree
<1>1. Settled /\ Created /\ Clean
  BY DEF Settled, Created, Clean
<1>2. /\ KernelOK(files, links, chains, rules, Idle)
      /\ WholeOK(files, links, rules, Idle)
      /\ SubnetsOK(subnets, files, Idle)
      /\ FilesOK(subnets, files, links, Idle)
  BY <1>1, QuietCurrent DEF AInv, Agree
<1>3. Idle.pc = "idle"
  BY QuietCurrent
<1>4. /\ \A n \in DOMAIN links : WholeIn(files, links, rules, n)
      /\ DOMAIN links = DOMAIN files
  BY <1>2, <1>3 DEF WholeOK, FilesOK, Making, WholeIn
<1>5. \A n \in DOMAIN files : files[n] # Torn
  BY <1>2, <1>3 DEF SubnetsOK
<1>6. \A n \in NetIds \ DOMAIN files : \A r \in Rules : rules[n][r] = 0
  BY <1>2, <1>4 DEF KernelOK, AtMost
<1>7. \A n \in DOMAIN files : Sound(subnets, files[n])
  <2>1. Keeps(subnets, files, proc)
    BY <1>1 DEF AInv, HInv
  <2>2. \A u \in Users : proc[u].pc = "idle"
    BY DEF Quiet, Busy
  <2> QED
    BY <1>5, <2>1, <2>2 DEF Keeps, Whole, Removes, Undoing
<1>8. \A s \in DOMAIN subnets : \E n \in DOMAIN files : files[n].subnet = s
  BY <1>2, <1>3 DEF SubnetsOK, Making, Whole
<1>9. DOMAIN subnets = {files[n].subnet : n \in DOMAIN files}
  BY <1>7, <1>8 DEF Sound
<1>10. \A s \in DOMAIN subnets : subnets[s] = {GatewayBit}
  <2> TAKE s \in DOMAIN subnets
  <2>1. GatewayBit \in subnets[s]
    BY <1>7, <1>8 DEF Sound
  <2>2. subnets[s] \subseteq {GatewayBit}
    BY <1>2 DEF FilesOK
  <2> QED
    BY <2>1, <2>2
<1>11. DOMAIN files # {} => Cardinality(chains) = 4
  BY <1>2, <1>4, ChainsCount DEF KernelOK, ChainsOK
<1> QED
  BY <1>4, <1>5, <1>6, <1>9, <1>10, <1>11, WholeIsWhole

LEMMA AgreeNothing == AInv => NothingWithoutFile
<1> SUFFICES ASSUME AInv, Quiet, Created PROVE
      /\ DOMAIN links \subseteq DOMAIN files
      /\ DOMAIN subnets \subseteq {files[n].subnet : n \in DOMAIN files}
      /\ \A n \in NetIds \ DOMAIN files : \A r \in Rules : rules[n][r] = 0
  BY DEF NothingWithoutFile, Created
<1>1. KernelOK(files, links, chains, rules, Idle) /\ SubnetsOK(subnets, files, Idle)
  BY QuietCurrent DEF AInv, Agree
<1>2. Idle.pc = "idle"
  BY QuietCurrent
<1>3. DOMAIN links \subseteq DOMAIN files
  BY <1>1, <1>2 DEF KernelOK, Making
<1>4. \A s \in DOMAIN subnets : \E n \in DOMAIN files : files[n].subnet = s
  BY <1>1, <1>2 DEF SubnetsOK, Making, Whole
<1>5. \A n \in NetIds \ DOMAIN files : \A r \in Rules : rules[n][r] = 0
  BY <1>1, <1>3 DEF KernelOK, AtMost
<1> QED
  BY <1>3, <1>4, <1>5

LEMMA AgreeRestored ==
  ASSUME AInv, NEW u \in Users, Initialised(u), "kernel" \notin seen
  PROVE  /\ \A n \in DOMAIN files : WholeInKernel(n)
         /\ DOMAIN files # {} => Cardinality(chains) = 4
<1>1. Settled /\ proc[u].pc = "restore" /\ DOMAIN proc[u].todo = {}
  BY DEF Settled, Initialised
<1>2. KernelOK(files, links, chains, rules, proc[u]) /\ WholeOK(files, links, rules, proc[u])
  BY <1>1, AgreeNow
<1>3. \A n \in DOMAIN files : n \in DOMAIN links /\ WholeIn(files, links, rules, n)
  BY <1>1, <1>2 DEF WholeOK, Making
<1>4. chains = AllChains
  BY <1>1, <1>2 DEF KernelOK, ChainsOK
<1> QED
  BY <1>3, <1>4, WholeIsWhole, ChainsCount

LEMMA AgreeAlways == Spec => []AInv
  BY AgreeInitial, AgreeInvStep, PTL DEF Spec

\* For any networks, subnets and users: as long as commands neither overlap nor
\* are cut short, whenever none runs every network has its file, its subnet with
\* just the gateway's bit, its bridge with just its address, and each of its
\* rules once, and nothing else is left of any (network.go 53-122).
THEOREM NetworksAlwaysAgree == Spec => []NetworksAgree
  BY AgreeAlways, AgreeNetworks, PTL

\* For any networks, subnets and users, and any number of reboots and of
\* removals that end half way: what is in the kernel and in subnet.json is named
\* by a file, from which a command can take it away.
THEOREM NothingIsLeftBehind == Spec => []NothingWithoutFile
  BY AgreeAlways, AgreeNothing, PTL

\* For any networks, subnets and users: a run that gets past InitNetwork after a
\* reboot has every network whole in the kernel, whatever was cut short or
\* overlapped before the reboot (network.go 419-449).
THEOREM RunRestoresKernel == Spec => KernelRestored
<1>1. AInv /\ [Next]_vars =>
        [ \A u \in Users :
            Initialised(u) /\ "kernel" \notin seen =>
              /\ \A n \in DOMAIN files : WholeInKernel(n)
              /\ DOMAIN files # {} => Cardinality(chains) = 4 ]_vars
  BY AgreeRestored
<1> QED
  BY <1>1, AgreeAlways, PTL DEF Spec, KernelRestored

=============================================================================

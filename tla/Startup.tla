------------------------------ MODULE Startup --------------------------------
(***************************************************************************)
(* How one container's process comes up: a command (run or start) makes    *)
(* the process, which waits on a pipe; the command sets up volumes, control *)
(* groups and network, and sends the user's command down the pipe; the     *)
(* process (init) reads it to its end, mounts, changes its root and        *)
(* becomes that command.  The command or the process may be killed at any   *)
(* step, and two starts of the container may overlap.                      *)
(*                                                                         *)
(* The texts of the files and of the command are kept apart only as far as *)
(* the code tells them apart: see Tokens and Kinds.                        *)
(***************************************************************************)
EXTENDS Naturals, Sequences

CONSTANTS
  Slots,        \* each holds one run or start and the process it made
  Requests,     \* bound: what the user asks for, see RequestType
  Capacity,     \* what the pipe holds, in tokens
  Volumes,      \* how many volumes are asked for
  Fields,       \* the limits that can be set
  Subsystem     \* the subsystem of each field

\* How readUserCmd tells the parts of a command apart: a plain word, one that
\* begins or ends with a quote, and nothing (between two spaces).
Tokens == {"word", "opens", "closes", "blank"}

\* What is at a path: nothing, a file, a directory that is empty or has data,
\* and a host directory into which some of the guest's data was copied.
FirstKinds == {"absent", "file", "empty", "data"}
PathKinds == FirstKinds \cup {"copied"}

\* A command, the fields with a value that the kernel refuses, and what is at
\* the two paths of each volume.
RequestType ==
  [argv : Seq(Tokens), bad : SUBSET Fields,
   host : [1 .. Volumes -> FirstKinds], guest : [1 .. Volumes -> FirstKinds]]

ASSUME StartupAssumptions ==
  /\ Requests \subseteq RequestType
  /\ Capacity \in Nat \ {0} /\ Volumes \in Nat
  /\ DOMAIN Subsystem = Fields

VARIABLES
  asked,     \* what the user asked for, and the paths of the volumes then
  known,     \* "no", "begun" by run, or "recorded" in config.json
  last,      \* the slot whose process the record has the pid of
  job,       \* the run or start of each slot
  init,      \* the process of each slot
  pipe,      \* what is in the pipe between the two
  link,      \* the lines of the link file, one for each volume
  pivotDir,  \* whether .pivot_root is in the container's directory
  host,      \* what is at the host's path of each volume
  guest      \* what is at the container's path of each volume

vars == <<asked, known, last, job, init, pipe, link, pivotDir, host, guest>>
files == <<link, pivotDir, host, guest>>

-----------------------------------------------------------------------------
(* Data. *)

NoSlot == "none"
NoJob == [cmd |-> "none", pc |-> "idle", rest |-> <<>>]
NoInit ==
  [pc |-> "none", got |-> <<>>, argv |-> {}, groups |-> {}, connected |-> FALSE,
   vol |-> 1, bound |-> {}, root |-> "host"]

AllVolumes == 1 .. Volumes
Subsystems == {Subsystem[f] : f \in Fields}
Least(a, b) == IF a < b THEN a ELSE b

IsFile(k) == k = "file"
IsEmptyDir(k) == k = "empty"

Init ==
  /\ asked \in Requests
  /\ known = "no"
  /\ last = NoSlot
  /\ job = [s \in Slots |-> NoJob]
  /\ init = [s \in Slots |-> NoInit]
  /\ pipe = [s \in Slots |-> <<>>]
  /\ link = 0
  /\ pivotDir = FALSE
  /\ host = asked.host
  /\ guest = asked.guest

Free(s) == job[s].pc = "idle" /\ init[s].pc = "none"
Alive(s) == init[s].pc # "none"
To(s, pc) == job' = [job EXCEPT ![s].pc = pc]

-----------------------------------------------------------------------------
(* The command: QsrdockerRun and startContainer. *)

Run(s) ==
  /\ Free(s) /\ known = "no"
  /\ known' = "begun"
  /\ job' = [job EXCEPT ![s] = [cmd |-> "run", pc |-> "spawn", rest |-> asked.argv]]
  /\ UNCHANGED <<asked, last, init, pipe, files>>

\* start refuses only a container whose recorded process is there.
Start(s) ==
  /\ Free(s) /\ known = "recorded"
  /\ last \notin {u \in Slots : Alive(u)}
  /\ job' = [job EXCEPT ![s] = [cmd |-> "start", pc |-> "spawn", rest |-> asked.argv]]
  /\ UNCHANGED <<asked, known, last, init, pipe, files>>

\* The process is made, and holds the read end only.  When it cannot be made
\* the command panics on its pid; run panics on a command that is empty, after
\* it has made the process.
Spawn(s) ==
  /\ job[s].pc = "spawn"
  /\ \/ /\ init' = [init EXCEPT ![s] = [NoInit EXCEPT !.pc = "read"]]
        /\ pipe' = [pipe EXCEPT ![s] = <<>>]
        /\ last' = IF last = s THEN NoSlot ELSE last
        /\ IF job[s].rest = <<>> THEN job' = [job EXCEPT ![s] = NoJob]
           ELSE To(s, IF job[s].cmd = "run" THEN "link" ELSE "limit")
     \/ /\ job' = [job EXCEPT ![s] = NoJob]
        /\ UNCHANGED <<init, pipe, last>>
  /\ UNCHANGED <<asked, known, files>>

\* SetVolume writes a line for each volume.
SetVolume(s) ==
  /\ job[s].pc = "link"
  /\ IF link < Volumes
       THEN link' = link + 1 /\ UNCHANGED job
       ELSE To(s, "limit") /\ UNCHANGED link
  /\ UNCHANGED <<asked, known, last, init, pipe, pivotDir, host, guest>>

\* CgroupManager: Init, Set and Apply go on after a field that fails.  The
\* cpuset subsystem takes a process only when all of its fields have values.
Joined(bad) ==
  {u \in Subsystems : u = "cpuset" => \A f \in bad : Subsystem[f] # u}

\* A bug: the command is sent before the network is there.
Limit_SendsNext(s) ==
  /\ job[s].pc = "limit"
  /\ init' = IF Alive(s) THEN [init EXCEPT ![s].groups = Joined(asked.bad)] ELSE init
  /\ To(s, "send")
  /\ UNCHANGED <<asked, known, last, pipe, files>>

Limit(s) ==
  /\ job[s].pc = "limit"
  /\ init' = IF Alive(s) THEN [init EXCEPT ![s].groups = Joined(asked.bad)] ELSE init
  /\ To(s, "connect")
  /\ UNCHANGED <<asked, known, last, pipe, files>>

\* Connect returns; its errors are logged.
Connect(s) ==
  /\ job[s].pc = "connect"
  /\ init' = IF Alive(s) THEN [init EXCEPT ![s].connected = TRUE] ELSE init
  /\ To(s, "send")
  /\ UNCHANGED <<asked, known, last, pipe, files>>

\* A bug: what is written must be read at once.
Room_Unbuffered(s) ==
  IF init[s].pc = "read" THEN Capacity - Len(pipe[s]) ELSE 0

\* The command's own read end keeps the pipe open when the process is gone.
Room(s) == Capacity - Len(pipe[s])

\* sendInitCommand: the write goes on as long as there is room.
Send(s) ==
  LET n == Least(Room(s), Len(job[s].rest)) IN
  /\ job[s].pc = "send" /\ n > 0
  /\ pipe' = [pipe EXCEPT ![s] = @ \o SubSeq(job[s].rest, 1, n)]
  /\ job' = [job EXCEPT ![s].rest = SubSeq(@, n + 1, Len(@))]
  /\ UNCHANGED <<asked, known, last, init, files>>

\* The write end is closed when all is written.
Close(s) ==
  /\ job[s].pc = "send" /\ job[s].rest = <<>>
  /\ To(s, "record")
  /\ UNCHANGED <<asked, known, last, init, pipe, files>>

\* RecordContainerInfo, with the pid.
Record(s) ==
  /\ job[s].pc = "record"
  /\ known' = "recorded"
  /\ last' = IF Alive(s) THEN s ELSE NoSlot
  /\ job' = [job EXCEPT ![s] = NoJob]
  /\ UNCHANGED <<asked, init, pipe, files>>

-----------------------------------------------------------------------------
(* The process: RunContainerInitProcess. *)

\* A bug: the process inherits the write end of its own pipe.
Closed_Inherited(s) == job[s].pc \notin {"link", "limit", "connect", "send"} /\ ~Alive(s)

Closed(s) == job[s].pc \notin {"link", "limit", "connect", "send"}

\* readUserCmd reads what there is, and again.
Receive(s) ==
  /\ init[s].pc = "read"
  /\ \E n \in 1 .. Len(pipe[s]) :
       /\ init' = [init EXCEPT ![s].got = @ \o SubSeq(pipe[s], 1, n)]
       /\ pipe' = [pipe EXCEPT ![s] = SubSeq(@, n + 1, Len(@))]
  /\ UNCHANGED <<asked, known, last, job, files>>

\* What readUserCmd and RemoveNullSliceString keep of the command, as the
\* positions of its parts: the words before the first part with a quote.
Quoted(x) == x \in {"opens", "closes"}
Parsed(q) == {i \in DOMAIN q : q[i] = "word" /\ \A j \in 1 .. i : ~Quoted(q[j])}

\* A bug: one read is taken for the whole command.
Parse_FirstRead(s) ==
  /\ init[s].pc = "read" /\ (init[s].got # <<>> \/ (Closed(s) /\ pipe[s] = <<>>))
  /\ LET argv == Parsed(init[s].got) IN
     init' = [init EXCEPT ![s] = IF argv = {} THEN NoInit
                                 ELSE [@ EXCEPT !.pc = "volume", !.argv = argv]]
  /\ UNCHANGED <<asked, known, last, job, pipe, files>>

\* At the end of the file: without a command the process exits.
Parse(s) ==
  /\ init[s].pc = "read" /\ pipe[s] = <<>> /\ Closed(s)
  /\ LET argv == Parsed(init[s].got) IN
     init' = [init EXCEPT ![s] = IF argv = {} THEN NoInit
                                 ELSE [@ EXCEPT !.pc = "volume", !.argv = argv]]
  /\ UNCHANGED <<asked, known, last, job, pipe, files>>

\* A bug: whatever is missing is made a directory.
CheckPath_Directory(k, isFile) == IF k = "absent" THEN "empty" ELSE k

CheckPath(k, isFile) ==
  IF k # "absent" THEN k ELSE IF isFile THEN "file" ELSE "empty"

\* MountBindVolume: the paths are made after each other's kind.
Prepare(s) ==
  LET v == init[s].vol IN
  /\ init[s].pc = "volume" /\ v <= link
  /\ guest' = [guest EXCEPT ![v] = CheckPath(@, IsFile(host[v]))]
  /\ host' = [host EXCEPT ![v] = CheckPath(@, IsFile(guest[v]))]
  /\ init' = [init EXCEPT ![s].pc = "seed"]
  /\ UNCHANGED <<asked, known, last, job, pipe, link, pivotDir>>

\* A bug: whatever the host has, it gets a copy.
Seed_Always(s) ==
  LET v == init[s].vol
      wanted == ~IsFile(host[v]) /\ guest[v] = "data"
  IN
  /\ init[s].pc = "seed"
  /\ init' = [init EXCEPT ![s].pc = IF wanted THEN "copy" ELSE "bind"]
  /\ UNCHANGED <<asked, known, last, job, pipe, files>>

\* MountBindVolume: an empty directory of the host is to get a copy of the guest's.
Seed(s) ==
  LET v == init[s].vol
      wanted == IsEmptyDir(host[v]) /\ ~IsFile(guest[v]) /\ ~IsEmptyDir(guest[v])
  IN
  /\ init[s].pc = "seed"
  /\ init' = [init EXCEPT ![s].pc = IF wanted THEN "copy" ELSE "bind"]
  /\ UNCHANGED <<asked, known, last, job, pipe, files>>

\* cp -a writes over what is there now, which another start may have copied
\* after the test, or it copies nothing; its error is logged.
Copy(s) ==
  /\ init[s].pc = "copy"
  /\ \/ /\ host' = [host EXCEPT ![init[s].vol] = "copied"]
        /\ init' = [init EXCEPT ![s].pc = "copying"]
     \/ /\ init' = [init EXCEPT ![s].pc = "bind"]
        /\ UNCHANGED host
  /\ UNCHANGED <<asked, known, last, job, pipe, link, pivotDir, guest>>

\* The copy is done.
Copied(s) ==
  /\ init[s].pc = "copying"
  /\ init' = [init EXCEPT ![s].pc = "bind"]
  /\ UNCHANGED <<asked, known, last, job, pipe, files>>

\* mount --bind takes two files or two directories; its error is logged.
Bind(s) ==
  LET v == init[s].vol IN
  /\ init[s].pc = "bind"
  /\ init' = [init EXCEPT ![s].pc = "volume", ![s].vol = v + 1,
                          ![s].bound = IF IsFile(host[v]) = IsFile(guest[v])
                                         THEN @ \cup {v} ELSE @]
  /\ UNCHANGED <<asked, known, last, job, pipe, files>>

\* pivotRoot: the directory for the old root must be made; its error ends
\* pivotRoot, and setUpMount does not look at it.
MakePivotDir(s) ==
  /\ init[s].pc = "volume" /\ init[s].vol > link
  /\ pivotDir' = TRUE
  /\ init' = [init EXCEPT ![s].pc = IF pivotDir THEN "exec" ELSE "pivot"]
  /\ UNCHANGED <<asked, known, last, job, pipe, link, host, guest>>

PivotRoot(s) ==
  /\ init[s].pc = "pivot"
  /\ init' = [init EXCEPT ![s].pc = "unmount", ![s].root = "container"]
  /\ UNCHANGED <<asked, known, last, job, pipe, files>>

\* The old root is unmounted and its directory removed.
RemovePivotDir(s) ==
  /\ init[s].pc = "unmount"
  /\ pivotDir' = FALSE
  /\ init' = [init EXCEPT ![s].pc = "exec"]
  /\ UNCHANGED <<asked, known, last, job, pipe, link, host, guest>>

\* The process becomes the user's command, or exits when there is none such.
Exec(s) ==
  /\ init[s].pc = "exec"
  /\ \/ init' = [init EXCEPT ![s].pc = "running"]
     \/ init' = [init EXCEPT ![s] = NoInit]
  /\ UNCHANGED <<asked, known, last, job, pipe, files>>

-----------------------------------------------------------------------------
(* What happens around them. *)

\* The process exits, is stopped, or is killed for want of memory.
Die(s) ==
  /\ Alive(s)
  /\ init' = [init EXCEPT ![s] = NoInit]
  /\ UNCHANGED <<asked, known, last, job, pipe, files>>

\* The command is killed.
Crash(s) ==
  /\ job[s].pc # "idle"
  /\ job' = [job EXCEPT ![s] = NoJob]
  /\ UNCHANGED <<asked, known, last, init, pipe, files>>

JobStep(s) ==
  \/ Spawn(s) \/ SetVolume(s) \/ Limit(s) \/ Connect(s)
  \/ Send(s) \/ Close(s) \/ Record(s)

InitStep(s) ==
  \/ Receive(s) \/ Parse(s)
  \/ Prepare(s) \/ Seed(s) \/ Copy(s) \/ Copied(s) \/ Bind(s)
  \/ MakePivotDir(s) \/ PivotRoot(s) \/ RemovePivotDir(s) \/ Exec(s)

Next ==
  \E s \in Slots :
    \/ Run(s) \/ Start(s) \/ JobStep(s) \/ InitStep(s)
    \/ Die(s) \/ Crash(s)

\* The operating system runs every process that can go on.
Fairness == \A s \in Slots : WF_vars(JobStep(s)) /\ WF_vars(InitStep(s))

Spec == Init /\ [][Next]_vars /\ Fairness

-----------------------------------------------------------------------------
(* Types. *)

JobPoints == {"idle", "spawn", "link", "limit", "connect", "send", "record"}
InitPoints ==
  {"none", "read", "volume", "seed", "copy", "copying", "bind", "pivot", "unmount", "exec",
   "running"}

\* The points after the command was read.
Started == InitPoints \ {"none", "read"}

JobType == [cmd : {"none", "run", "start"}, pc : JobPoints, rest : Seq(Tokens)]

InitType ==
  [pc : InitPoints, got : Seq(Tokens), argv : SUBSET Nat, groups : SUBSET Subsystems,
   connected : BOOLEAN, vol : 1 .. Volumes + 1, bound : SUBSET AllVolumes,
   root : {"host", "container"}]

\* The points at which a process is busy with one of its volumes.
AtVolume == {"seed", "copy", "copying", "bind"}

FilesTyped ==
  /\ link \in 0 .. Volumes /\ pivotDir \in BOOLEAN
  /\ host \in [AllVolumes -> PathKinds] /\ guest \in [AllVolumes -> FirstKinds]

TypeOK ==
  /\ asked \in Requests
  /\ known \in {"no", "begun", "recorded"}
  /\ last \in Slots \cup {NoSlot}
  /\ FilesTyped
  /\ job \in [Slots -> JobType]
  /\ init \in [Slots -> InitType]
  /\ pipe \in [Slots -> Seq(Tokens)]
  /\ \A s \in Slots : init[s].pc \in AtVolume => init[s].vol \in AllVolumes

-----------------------------------------------------------------------------
(* Properties. *)

\* A command that the pipe holds is written in one piece.
Fits == Len(asked.argv) <= Capacity

\* Whoever is killed when: the user's command is run as it was asked for, as
\* far as readUserCmd understands it, or not at all.  (A longer one can be cut
\* short when the command that sends it is killed.)
AllOrNothing ==
  \A s \in Slots :
    init[s].pc \in Started =>
      \/ init[s].argv = Parsed(asked.argv)
      \/ ~Fits /\ \E n \in 1 .. Len(asked.argv) :
                    init[s].argv = Parsed(SubSeq(asked.argv, 1, n))

\* A limit is lost with its value when the kernel refuses that; only in the
\* cpuset subsystem does it take the other fields with it (cgroup_manager.go 29:
\* "an error must not return, to be sure that the other subsystems are set").
Lost(f) ==
  \/ f \in asked.bad
  \/ Subsystem[f] = "cpuset" /\ \E g \in asked.bad : Subsystem[g] = "cpuset"

\* Nothing of the user's runs before the whole set-up is done: the volumes are
\* known, the network is made, and the process is in the control group of every
\* limit but the lost ones, even when the command that does it is killed, or
\* another start overlaps.
SetUpFirst ==
  \A s \in Slots :
    init[s].pc \in Started =>
      /\ link = Volumes /\ init[s].connected
      /\ \A f \in Fields : Lost(f) \/ Subsystem[f] \in init[s].groups

\* A container that runs in its own root has every volume mounted in it, but one
\* for which the user gave a file and a directory: a path that was missing is
\* made to fit the other.  (In the host's root, see OwnRoot, it sees none.)
VolumesSeen ==
  \A s \in Slots, v \in AllVolumes :
    /\ init[s].pc = "running" /\ init[s].root = "container" /\ v \notin init[s].bound
    => /\ "absent" \notin {asked.host[v], asked.guest[v]}
       /\ IsFile(asked.host[v]) # IsFile(asked.guest[v])

\* What the user has in a host directory before the container runs is never
\* written over, and only a directory that was empty or missing gets a copy, of
\* the guest's data.
HostDataKept ==
  \A v \in AllVolumes :
    /\ asked.host[v] \in {"data", "file"} => host[v] = asked.host[v]
    /\ host[v] = "copied" => asked.guest[v] = "data"

\* A process whose command is killed does not wait for ever: it sees the end
\* of the pipe, for nobody else holds the write end.
InitEnds ==
  \A s \in Slots : init[s].pc = "read" /\ job[s].pc = "idle" ~> init[s].pc # "read"

\* run and start end though the process dies before it reads, unless the
\* command is longer than the pipe: they hold the read end themselves, and no
\* error tells them that nobody reads.
CommandEnds ==
  \A s \in Slots :
    job[s].pc = "send" ~> (job[s].pc # "send" \/ (~Fits /\ ~Alive(s)))

(* What a comment says, and a process killed at the wrong moment refutes.    *)

\* pivot_root takes away the dependence on the old root (init.go 113).
OwnRoot == \A s \in Slots : init[s].pc = "running" => init[s].root = "container"

=============================================================================

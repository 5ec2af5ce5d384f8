# A TLA+ development of qsrdocker

qsrdocker (Go) runs containers on one Linux host: `run`, `stop`, `start`,
`rm`, `ps`, `inspect`, `exec`, `logs`, `commit`, `image`, `network`.  It has
**no daemon**.  Every command is a process of its own that reads JSON files under
`/var/qsrdocker`, acts on the kernel (processes, namespaces, veth links, overlay
mounts, iptables, cgroups) and writes the files back.  What makes it hard to
get right, and hard to test, follows from that:

* commands overlap, and nothing but a lock file around `subnet.json` tries to
  keep them apart;
* a container may exit at any moment, and only the next command that looks at
  it notices (`StatusCheck`);
* a command that fails or is killed half way leaves what it did so far;
* the same fact is kept in several places: that a container holds an address is
  in the bitmap, in its record and on the link of its process; a network is a
  file, a subnet, a bridge and six iptables rules; a layer of an image is an
  archive, a directory and an entry of the index.

Line numbers below and in `PROJECT.json` are those of the sources under `src/`.

## Inventory

| component | state it keeps | operations | what is hard | modules |
|---|---|---|---|---|
| IP address manager, `network/ipam.go` | `subnet.json` (subnet -> bitmap), a lock file | `Create`, `Allocate`, `Release` (each: lock, load, decide, dump, unlock) | the lock, truncate-then-write, uint8 arithmetic, exhaustion | `IpamBitmap`, `Ipam`, `IpamFile`, `AddressPool` |
| Container lifecycle, `run.go`, `container_manager.go`, `container/container_process.go`, `exec.go` | `containernames.json`, one `config.json` per container | `run`, `stop`, `start`, `rm [-f]`, `ps`, `inspect`, status read of `exec` | read-check-write of shared files, processes that exit at any step, errors after half of the work | `Container` |
| Networks, `network/network.go`, `network/bridge.go`, `container/network.go` | one JSON file per network, a bridge per network, a veth pair per container | `CreateNetwork`, `DeleteNetwork`, `InitNetwork`; `Connect`, `Disconnect` | partial failures, deletion of a network in use, repair after a reboot | `Network`; `Container` |
| NAT and port mapping, `network/iptables.go` | rules in the kernel | `IPtablesInit`, `setIPTables`, `delIPTables`; `configPortMapping`, `delPortMapping` | giving up half way, duplicate rules, an init that is never repaired, a rule that outlives its container | `Network`; `Ports` |
| Images and workspace, `container/volume.go`, `container_manager.go`, `iamge_manager.go` | image directories and archives, the image index, an overlay mount per container | `NewWorkSpace`, `DeleteWorkSpace`, `CommitContainer`, `listImage` | a partial extraction taken for an image, lost updates of the index | `Images`; the removal of a workspace in `Container` |
| Init process, `container/init.go`, `run.go` | a pipe, `.pivot_root` | `sendInitCommand`, `readUserCmd`, `RunContainerInitProcess`, `pivotRoot` | the command's process or init dies at any step; who holds the ends of the pipe | `Startup` |
| Volumes and host files, `container/volume.go` | the link file, host and guest paths | `SetVolume`, `InitVolume`, `MountBindVolume`, `CheckPath` | a file against a directory, a copy that is cut short | `Startup` |
| Control groups, `cgroups/` | a directory per container and subsystem | `Init`, `Set`, `Apply`; `Destroy` | one field that fails | `Startup` |
| Logs, `container_manager.go` 342-504 | a log file | `logContainer`, `readLines` | the arithmetic of the tail, a log that grows or goes while it is read | `Logs` |
| exec, nsenter, command line | none that is shared | | system calls and parsing | the status read in `Container` |

How they interact: `run` creates the default network if it is missing and
restores the others (`InitNetwork`), checks the name, mounts the workspace, starts
the init process, sets up volumes and control groups, connects it (`Connect` calls
the IP address manager and makes the veth pair), sends it its command through the
pipe, records the name and then the info.  `stop` disconnects (link deleted,
address released), signals and records `Paused` with pid -1.  `start` disconnects
a `Dead` container first, then starts a process and connects it.  `rm`
disconnects a `Dead` container, removes the name, and deletes mount and directory;
`rm -f` calls `stop` first.  A run on a terminal (`-it`) waits for the process
and cleans up as `rm` does.  Every read of a container's info checks the pid and
**writes the info back**.  `commit` packs the upper directory of a workspace, and
`logs` reads what the process of a detached container prints.

What makes each part correct: an address is leased once, and what is released
is what was leased (IPAM); subnets never share addresses (IPAM); the file of the
manager survives overlapping calls (IPAM); records, names, mounts, processes and
leases are about the same containers (lifecycle); a stopped container stays
stopped, a removed one is gone (lifecycle); the gateway's address, whose release
drops the whole subnet, is never given to a container (IPAM, lifecycle and
networks together); a network is whole or not there, and a reboot is repaired
(networks); an image of the index can be run, on whole layers (images); nothing
of the user's runs before its limits, volumes and network are there, and nobody
waits for ever on the pipe (init); no line of a log is lost or printed twice
(logs).

## Modules

| module | models | state and actions |
|---|---|---|
| `AddressPool` | what an IP address manager promises, abstractly | `open` blocks, `leased` addresses; `Open`, `Lease`, `Return`, `Close`, `Refuse` |
| `IpamBitmap` | the data of `ipam.go`: subnets, bitmaps, address arithmetic modulo 256, the overlap test, what each call does to the map | operators only; used by `Ipam`, `IpamFile`, `Container` and `Network` |
| `Ipam` | `Create`, `Allocate`, `Release`, one whole call per step | `subnets` is `subnet.json`, `reply` what the last call returned; one action per way a call ends |
| `IpamFile` | the same calls as concurrent processes make them | `lockFile`, `disk` (the text and the map it parses to), per process `pc`, `op`, `attempt`, `mem`; one action per access to the lock file or the file, and `Crash` |
| `Container` | the lifecycle, `Connect` and `Disconnect`, deletion and creation of the network in one step | see below |
| `Ports` | `Container` with the rules of its port mappings | `rules`, `refused`, `todo`; `MapPorts`, `MapNothing` go with `Attach`, `UnmapPorts` with `DisconnectBridge`; `AppendRule`, `DeleteRule` come in between `Container`'s steps |
| `Network` | `network create` and `remove`, and the start of `run` | see below |
| `Images` | `run` up to its mount, `commit`, `image ls` | see below |
| `Startup` | `run` and `start` against the process they start | see below |
| `Logs` | `logs` against a log that grows | see below |
| `...Proofs` | lemmas and theorems of the module they are named after | |
| `MC...` | the instances TLC checks | |

Composition: `Ipam` implements `AddressPool` (`Pool == INSTANCE AddressPool WITH
open <- DOMAIN subnets, leased <- ...`).  `IpamFile` implements `Ipam` while
calls do not overlap (`Calls == INSTANCE Ipam WITH subnets <- Current, ...`,
where `Current` is the map a call is about to dump, or the file's).
`Container` and `Network` use the manager as `Ipam` describes it, one step per
call, through the operators of `IpamBitmap`.  `Ports` extends `Container`: its steps
are those of `Container`, and the calls of iptables between them, which leave
`Container`'s variables alone.  `Startup`, `Images` and `Network`
each open up what is one step of `Container` (`Spawn` to `Record`, `MakeWorkSpace`,
`CreateNetwork` and `DeleteNetwork`); they are checked on their own, since the
state that a command carries through them is not used elsewhere.

### IpamBitmap, Ipam and IpamFile

`Create` refuses masks wider than /24, so the addresses of a subnet share three
octets, which are one value; the last octet is a number and its arithmetic is
`uint8` arithmetic.  A bitmap is the set of the offsets that hold `'1'`.  A
bit's address is one more than its offset: bit 0 is the gateway's, and the last
bit's lies past the end of the subnet.  `Release` of bit 0 deletes the subnet.
A release that indexes a nil address or the bitmap of a missing subnet panics
(`ReleasePanics`), and the deferred `unlock` still runs.

In `IpamFile` looking for the lock and creating it are two steps, the second
attempt that still finds the lock goes on without it, `load` removes the lock
when the text does not parse, `Release` goes on after that error with an empty
map, `dump` truncates and then writes.  `Written` says which text remains when
two calls have truncated and write one after the other: the later one, or a text
that does not parse when the earlier was longer.  A bitmap has a fixed length,
so the length of the text depends on the subnets only.

### Container

`names` is `containernames.json`, `info` the `config.json` files, `mounted` the
overlay mounts, `procs` the live init processes with the address on their link,
`subnets` the manager's map, `network` whether the network's file exists.  What
a command carries in local variables between two accesses to these is in
`term[t]`, one record per terminal: the command (`cmd`), the point it is at
(`pc`), the phase (`rm` calls `stopContainer` and `RemoveContainerNameInfo`, whose
steps are those of `stop` and of a run on a terminal), the id it was given and
the one it looks at, the info it read, the name file it read.

| steps | code |
|---|---|
| `Lookup`, `Read`, `Check` | `GetContainerIDByName`, `GetContainerInfoByNameID`, `GetContainerInfo`, `GetContainerStatusByName`: name, then `config.json`, then the pid, then the info is written back |
| `Checked` | what each command decides from the status it read (`container_manager.go` 63, 117-135, 184-196) |
| `DisconnectHost`, `DisconnectBridge`, `DisconnectNil` | `network.Disconnect`: other drivers return at once; link, then address; a nil endpoint panics |
| `Kill`, `RecordPaused` | `stopContainer` 81-94 |
| `CheckName`, `MakeWorkSpace`, `Spawn`, `AllocateFails`, `AllocateAddress`, `Attach`, `ReadNames`, `RecordName`, `Record` | `QsrdockerRun`, in its order |
| `Health`, `Spawn`, `Allocate...`, `Attach`, `Record` | `startContainer` after its checks |
| `Waited`, `Disconnect...`, `Read`, `Check`, `ReadNames`, `RemoveName`, `DeleteWorkSpace` | the end of a run on a terminal; from `Disconnect` on also `rm` |
| `Exit`, `Crash`, `Reboot` | a process exits; a command is killed between two steps; the host restarts |
| `DeleteNetwork`, `CreateNetwork` | what they do to the manager's map and to the network's file; `InitNetwork` in `run` creates the default network in the same way |

Abstractions.  A write of one file is one step (for `subnet.json` alone
`IpamFile` opens that step up), and so is a call of the IP address manager.  Ids
are unique.  The drivers `host` and `none` behave alike here.  `inspect` stands
for `exec` too, which reads, checks and writes back a status in the same way.
`ps` looks at one container per command: its visits to several containers are
independent of each other.  A process counts as live until it is reaped.
`DeleteWorkSpace` takes mount and directory away in one step.  A pid is not
used again while a record or a command mentions it, unless `"reboot"` is among
the faults.  `logs` is not a command here: that it makes a log for a terminal's
container, which can then be started, is the fault `"log"`.  A link that fails after
it got its address (`Attach`) counts as one that did not fail; its rules, which are
then missing, are left out of `Ports`.  Start errors of the container's process, and I/O errors, are left
out.

### Ports

`rules` says how often each rule is in the kernel, for each address, `refused`
which containers iptables has refused a rule, and `todo` at which rule of which
mapping each terminal's command is, when it is in `configPortMapping` or
`delPortMapping`.  All mappings of a container lead to the same port of its own,
so its accept and masquerade rules are the same for each of them, and the third,
`DNAT`, differs in the host port.

| steps | code |
|---|---|
| `MapPorts` | `Connect` once the link is configured: it enters `configPortMapping` |
| `MapNothing` | `Connect` when the link is not configured, or has no address |
| `AppendRule` | one `iptables -A`; when it is refused the loop goes on with the next mapping |
| `UnmapPorts` | `Disconnect`: the release, after which it enters `delPortMapping`, and not at all when the release panics |
| `DeleteRule` | one `iptables -D`; a rule that is not there ends its mapping in the same way |
| `Elsewhere` | any other step of `Container`; a command goes on when it is through with the rules |

Abstractions.  A text that names no port, which the code logs and passes over, is
left out, and so is a reboot, which takes the rules and the links together.
Bound: once a container with several mappings was refused a rule, only rules of
its own later mappings are, since what then stays behind would pile up without
end; the proof does not use the bound.

### Network

`files` are the network files (`Torn` between truncation and write), `subnets`
the manager's map, `links` the bridges with their addresses, `chains` what
`IPtablesInit` has made, `rules` how often each rule is in the kernel, `proc` the
command of each user.  `seen` records what has gone wrong so far, so that each
property can say under which mishaps it holds.

| steps | code |
|---|---|
| `MakeChain` | `IPtablesInit`: a chain that exists ends it; the jumps are appended blindly |
| `Exists`, `TakeSubnet`, `NoGateway`, `TakeGateway` | `CreateNetwork`: the file must not be there; `Create` and `Allocate` of the manager; `none`, `host` and `container` are in the driver map with a nil driver, whose `Create` panics after the subnet and the gateway are taken |
| `AddLink`, `AddAddress`, `SetUp`, `AddRule` | `BridgeNetworkDriver.Create`: an interface that exists is taken; one that has the address already is an error |
| `Truncate`, `Write` | `Network.Dump` |
| `CheckDefault`, `Walk`, `Restore`, `Initialised` | `InitNetwork`: the default network; all files; a network whose bridge exists is passed over, the others are made again |
| `Load`, `ReleaseSubnet`, `FindLink`, `DeleteRule`, `DeleteLink`, `RemoveFile` | `DeleteNetwork` in its order; `delIPTables` stops at the first rule that is not there |
| `Crash`, `Reboot` | a command is killed; files and subnets survive a reboot, the kernel's part does not |

Abstractions.  An `iptables` command fails only because its chain or its rule is
missing.  `InitNetwork`'s walk loads all files in one step.  The addresses of
containers are not in this module (they are in `Container`), so a subnet's bitmap
has the gateway's bit only.  The texts of the files are not opened up.

### Images

A layer is an archive (`tars`) and, from its first run on, a directory (`dirs`);
each is absent, partial or whole.  A directory is also `"spoilt"` while a killed
tar has left its part in it and another is still at work.  `meta` are the layers
with a file that says how to run them, `index` is the image index, `boxes` the
workspaces.

| steps | code |
|---|---|
| `FindCommand`, `Resolve` | `GetImageMateDataInfoByName`, `GetImageLower`: without an index the name is the layer; a name the index does not know is taken literally, with its `:`, which overlay reads as a separator of layers |
| `FindDir`, `FindTar`, `MakeDir`, `Extract`, `Extracted`, `DropTar` | `CreateReadOnlyLayer`: the test and the extraction are apart, so a second run may extract a layer again that is whole; tar unlinks and rewrites what is there, and reads on in an archive that was deleted meanwhile |
| `Mount`, `Start` | `CreateMountPointWithOverlay2`; `cmdList[0]` panics without a command |
| `Describe`, `ReadLower`, `Pack`, `Packed`, `ReadIndex`, `Truncate`, `WriteIndex` | `CommitContainer`, `recordImageInfo` |
| `ReadList`, `Size`, `SizeTar` | `listImage`, `getImageSize` |
| `RemoveBox`, `Crash` | a workspace is removed; a command is killed |

Abstractions.  A tar that outlives its command is a command that is killed later.
Identifiers are new.  What is in a layer, sizes and what the
commands print are left out.  One layer was installed by hand, and its archive is
whole.

### Startup

The pipe between a command and the process it started is a sequence of tokens of
bounded length; a token is a part of the user's command, as far as `readUserCmd`
tells parts apart (a word, one that begins or ends with a quote, nothing), so
that a write or a read can come between any two parts.  What the parse keeps is
the set of the positions of the parts it keeps, which is a sequence since its
order is that of the command.

| steps | code |
|---|---|
| `Run`, `Start`, `Spawn` | `QsrdockerRun`, `startContainer`: the process is made and holds the read end |
| `SetVolume`, `Limit`, `Connect`, `Send`, `Close`, `Record` | the command's part in its order; `Limit` is `Init`, `Set` and `Apply` of the cgroup manager; the write waits for room and goes on though nobody reads |
| `Receive`, `Parse` | `readUserCmd` to the end of the pipe; without a command init exits |
| `Prepare`, `Seed`, `Copy`, `Copied`, `Bind` | `InitVolume`, `MountBindVolume` for one volume after the other: missing paths are made, an empty host directory gets a copy of the guest's data (the test, the copying and its end are steps of their own), the mount takes two files or two directories |
| `MakePivotDir`, `PivotRoot`, `RemovePivotDir`, `Exec` | `pivotRoot`, `exec` |
| `Die`, `Crash` | the process exits or is killed; the command is killed |

Abstractions.  Volumes have paths of their own.  The mounts of `/proc` and `/dev`
are left out.  Making both paths of a volume is one step.  What a directory holds
is one value, though the copy leaves hidden files out, and a copy that is begun
or cut short is not told from one that is done.  What the container itself writes
into a volume is left out.  The checks of `start`
before it makes the process are in `Container`.

### Logs

A line is two positions of the file, its text and its newline, so that a reader
can come between them; what is printed as one line is an interval of positions.
A line is long (`long`) when its text fills the 64 KiB buffer of `bufio.Scanner`:
the position of its text stands for the first 64 KiB, the rest comes with the
newline, and no text has twice that much.  `Reads` is `readLines`: a slice of
lines, and the offset of the file, which after a full slice is anywhere behind it
because the scanner reads ahead.  At a long line the scanner gives up, with the
offset behind what it has buffered, and both callers drop its error (`Stops`,
`ReadsTo`).  An offset within a text is taken to be at its end.
`ReadAll`, `ReadTail`, `PrintTail` and `Follow` are the loops of `logContainer`;
`Start` opens the log as `start` does, for reading, and what is printed after it
is lost.

## Runs

| run | bounds | distinct states | shows |
|---|---|---|---|
| `ipam` | four subnets: two /30 side by side at the end of a /24, the /29 over both, a /23 | 5 thousand | types, disjoint subnets, kept gateways, the abstract pool, release inverts allocate, the address outside comes last |
| `ipam_file_one` | one call at a time, two /31 and the /30 over them, two crashes, fairness | 114 thousand | the steps of a call implement the atomic call; only a crash tears the file, and what a torn file then costs; every call ends |
| `ipam_file_race` | two calls at once on overlapping subnets | 2.3 million | whatever the interleaving, the file is never a mixture, and no lock stays |
| `container_serial` | one terminal, two containers, a name, one and two published ports, all commands, setup failures, rules that iptables refuses, from the first that a container with two ports is refused on only its own | 6.4 million | leases, records, names, mounts, processes and port rules agree between commands |
| `container_faults` | one terminal, two containers, a network with one address, every fault | 4.1 million | gateway, pid -1, and a stopped container stays stopped |
| `container_tty` | two terminals, one container that may exit at any step, all commands but `inspect`, the network deleted and created, a log made for the terminal, fairness | 1.4 million | types with overlapping commands; a run on a terminal cleans up after its container, whatever is done to it from elsewhere |
| `network` | the default network and another, two neighbouring subnets, two users, two kinds of mishap | 1.4 million | what a creation or a removal that fails, overlaps or is killed leaves behind, and what the next run repairs |
| `images` | an installed layer, references with and without a tag, two commits, two containers, two users, two kinds of mishap | 5.1 million | what a layer outlives on its move from archive to directory, extracted twice or killed; the index names only what can be run |
| `logs` | slices of two to four lines, a log of five, any of them long, tails of up to five | 476 thousand | nothing of a log within a slice is lost but the beginnings of long lines, and nothing is printed twice; `logs` ends |
| `startup` | two slots, one volume of every combination of kinds, three fields in two subsystems, commands of up to four parts, a pipe for three | 455 thousand | the user's command runs whole, after the whole set-up, or not at all; nobody waits for ever |

Why the bounds are enough.  The arithmetic of the manager has its edges at the
end of an octet and between neighbouring subnets, and the subnets of `ipam` lie
there; for all other subnets there are proofs.  A network with the gateway and
one more address is exhausted by the second container, one with four addresses
never by two.  An address goes from a container with one port to one with two and
back, so that what the first leaves behind would be inherited.  Two terminals show every pair of commands; two containers are the
least with which an address can go from one to another.  There is one pid more than
records and commands can hold at once, so that no run stops for want of one.
Two networks on two subnets are the least with which a subnet can go from one to
another.  Two commits are the least with which one can lose the other's entry, or a
layer can lie on a committed one.  A log of five lines has two slices of two
and a rest, and is more and less than a slice.  Volumes do not interact, because
each has paths of its own, so one shows what happens to each; a command of four
parts does not fit the pipe of three, the others do.
`MaxActive`, `MaxCrashes`, `MaxMishaps`, `Commands` and `Faults` bound what
happens in a run and nothing else.

`CHECK_DEADLOCK FALSE` is in the runs `logs` and `startup` only: a removed log
has no further reader, and when the record of a container is never made and its
process is gone nothing can start.  In all other runs a command can always be
typed.

### Where the code and its words part

Each of these runs checks one property that the code's own words state, and
finds it violated.

| run, property | what happens |
|---|---|
| `container_address`, `AddressExclusive` | commands one after the other: a container exits while `stop` runs, after its address was released; the record becomes `Dead`, and the next `start` releases the address again, now another container's; two live containers end up with it |
| `startup_root`, `OwnRoot` | a process is killed between making and removing `.pivot_root`; the directory stays in the container's upper layer, the next `pivotRoot` fails on it, `setUpMount` does not look at the error (`init.go` 194), and the user's command runs in the root of the host |

Other behaviour that the models show, and that no run counts as a violation,
because no sentence of the repository is clear enough or because it takes more
than one fault:

* `rm -f` sends SIGTERM where its help says SIGKILL (`main_command.go` 367); a
  container that ignores it goes on without a record.
* `ps` that overlaps with `stop` writes back the info it read before `Paused` was
  recorded (`container_process.go` 377); the container becomes `Dead`.
  `PausedSticky` is therefore checked for commands one after the other.
* Two overlapping runs both find a name unused (`run.go` 38-52) and record it.
  A lost update of `containernames.json` can also bring back a name that was
  removed, so `TtyCleanup` leaves the name out.
* A container whose network was exhausted has a nil address; once it is dead,
  `rm` panics in `Release` (`ipam.go` 334) and cannot remove it.
* `lock` "adds a file lock" (`ipam.go` 70), but looking and creating are two steps,
  and a call that finds the lock twice goes on: `ipam_file_race` therefore checks
  what holds without mutual exclusion.
* `Allocate` "allocates a usable address in the subnet" (230), but the last bit's
  address lies outside: `OutsideOnlyWhenFull` says when.
* A creation that stops after `TakeSubnet` leaves a subnet that no command can free,
  and with it every later creation on it fails.  A removal that stops after
  `ReleaseSubnet` leaves a file whose subnet is free for another network.  The next
  removal passes the release, which finds nothing to delete, but stops at the
  first rule, or at the bridge, that the one before has taken away, and so does
  every other until a reboot or the loss of the bridge lets `InitNetwork` restore
  bridge and rules (not the subnet).  `NetworkHoldsSubnet` and `NothingWithoutFile`
  say that nothing else leaves such a file or subnet.
* A run that is killed, or looks, while a layer is extracted makes every later
  container of the image run on the part that is there.  A run that found no
  directory extracts the layer although another run has made it whole and deleted
  the archive; when it is killed meanwhile, neither form is whole and the layer is
  lost.  `NothingLost` says that it takes both, an overlap and a killed extraction
  (or a tar that fails).  Two commits that overlap
  lose one image; an index that was truncated and not written is never repaired;
  `image ls` panics while a run turns an archive into a directory.
* Two starts can both find the host's directory empty (`volume.go` 200); the second
  copy then writes over what the first start's container wrote there.
  `HostDataKept` is about what was there before the container ran.
* `delPortMapping` skips a mapping at the first rule that is not there
  (`iptables.go` 312-338).  When a container has two mappings for one port and
  iptables refused a rule of the first, the accept rule that the second appended
  is deleted for the first, and the second's DNAT rule stays for whoever gets
  the address next.  `PortsFollowAddress` says that nothing else leaves a rule.
* `readUserCmd` drops everything from the first part with a quote on.  A field of
  the cpuset subsystem that the kernel refuses keeps the process out of that
  subsystem; the help says that `oom_kill_disable` is 0 by default, but an
  empty flag becomes 1 (`main_command.go` 144-153).
* `start` opens the log for reading (`container_manager.go` 311-325), so all that
  the container prints afterwards is lost.  `logs --tail` panics on a log with
  fewer lines than asked for, and a log of more than a slice can lose lines
  between two slices; `WholeLog` and `TailOfLog` are about a log of less than one.
* A line of 64 KiB or more ends a read (`container_manager.go` 488, `ErrTooLong`),
  and `logs` does not look at the error (387, 405): the first 64 KiB of the line are
  not printed; `--tail` forgets the lines before it, or prints too few, or panics
  on a log that has enough.  `WholeLog` says that nothing else is lost;
  `TailOfLog` and `PanicsOnShortLog` are about logs without such a line.
* A container that runs in the root of the host (`OwnRoot`) sees none of its
  volumes, which are mounted under `merged`; `VolumesSeen` is about the others.

### Fairness

`IpamFile!FairSpec` and `Container!FairSpec` assume weak fairness of each
process's `Step`, and nothing of the users, of the faults or of containers that
exit.  A step is an access to a file or a system call that returns; no step
waits for another command (a command that finds the lock gives up after two
attempts), and the operating system schedules every runnable process.  The one
step that waits, `Waited`, is enabled by the exit of the container and stays
enabled, because the pid is not used again before the command has seen it.
`Logs` assumes it of the reader's steps, `Startup` of the steps of each command
and of each process: the operating system schedules both, and a read or a
write of the pipe goes on as soon as there is something to read or room.
`Network` and `Images` promise nothing about progress.

## Proofs

`tlapm` checks the theorems for every value of the constants: any set of subnets
that satisfies `IpamAssumptions`, any number of processes, terminals, users,
containers, networks, pids, images, lines, any set of commands and faults that
satisfies `ContainerAssumptions`, any port mappings that satisfy `PortsAssumptions`.

* `IpamBitmapProofs`: lemmas about the data.  `OffsetOf` inverts `AddrOf` on every
  subnet up to a /24, although both wrap; two subnets that pass the overlap test
  share no address, neither of their own nor of the shifted ones; each of the
  updates keeps a map well formed, where `WellFormed` is the type of a map, no
  pair in conflict, and the gateway's bit set in every bitmap with a bit set.
* `IpamProofs`: the inductive invariant is `TypeOK` with `WellFormed`.  From it
  `TypeCorrect`, `SubnetsDisjoint`, `GatewayIsKept`, the action properties
  `ReleaseInvertsAllocate` and `LeavesSubnetLast`, and `IpamImplementsPool`: the
  initial state and each action map to `AddressPool`'s.  What is inductive is that
  no pair of subnets passes for overlapping; `Disjoint` follows from it by the
  lemma on two intervals, of which one contains the other's start if they meet.
* `IpamFileProofs`: the invariant says that the map on disk **and the map in the
  memory of every process** are well formed, because any process may write its
  map last, and adds `NoStaleLock`, which is inductive: a lock file without a
  crash means that some process is at a step before the one that removes it.
  `FileTypeCorrect`, `FileWellFormed`, `NoLockLeftBehind`,
  `UnreadableFileLosesAll`.  For one active process (`MaxActive = 1`) there is a
  second invariant, `SerialInv`: at most one process is in a call, a call that is
  about to write has truncated the file, and otherwise only a crash leaves it
  torn.  It gives `OnlyCrashesTear`, and, because the result of the
  call's computation is what `Ipam`'s action returns for the same map
  (`SameData`, `DecisionIsCall`), the refinement `FileImplementsIpam`.
* `ContainerProofs`: the invariant `IInv` is a conjunction with one part per
  variable (`NamesSafe`, `InfoSafe`, `MountsSafe`, `ProcsSafe`, `SubnetsSafe`,
  `NetworkSafe`, `TermsSafe`).  The strengthening that matters: a command that
  is about to disconnect a container it stops, or to signal it, holds a pid other
  than -1 (it saw a live process, and -1 never is one); no record, link or
  command holds the gateway's address; while the network's file exists, its
  subnet's gateway bit is set.  The last is what makes `FirstFree` never return
  the gateway.  `ContainerTypeCorrect`, `NeverSignalsAll`, `GatewayStaysUntouched`.
  For one terminal (`Serial`) there are two more invariants, and the number of
  containers, names, pids and addresses stays arbitrary.  `SoloInv`, under every
  fault: what a command has read is still on the disk from its status check to its
  end, a container that is stopped is recorded without a pid, and what a run is
  about to add is in no file yet.  It gives `StoppedStaysStopped`: a status check
  can only take a stopped container for another when the record has a pid.
  `TidyInv`, when only the mount of the overlay and the veth pair may fail
  (`Calm`): at **each** step of a command, what name file, records, mounts,
  processes and the bitmap have in excess of each other is what that command has
  done and not yet written down: the address that is given out and not recorded
  (`Taken`), the one released of a container whose record still names it (`Gone`),
  the mount and the name of a container without a record.  Between commands these
  are empty, which is `LeasesAccounted` and `AllReachable`.  That a start, a stop
  or a removal can only be under way for a container whose process is in the
  state the status check saw (`Stopping`, `Ended`) is part of it, and is what a
  container that exits in the meantime breaks: hence no "die" in `Calm`; nor is
  there a "log", which only the runs have.
  `Ports` is reasoned about in the same module.  `PortsAreContainers`: each of its
  steps is one of `Container`'s or leaves its variables alone, so all of the above
  holds of `PortsSpec`.  `PortsInv` adds to `TidyInv`, at **each** call of iptables,
  what the rules of every address are: none at an address that nobody has; at that
  of a container those of a beginning of its mappings (`Prefix`, `Traces`), because
  `delPortMapping` goes through the rules in the order in which they were appended
  and finds none missing before one that is there; while a command appends, those
  before the one it is at, and while it deletes, those from there on (`Left`).  This
  is the strengthening that matters: "the counts agree" is not inductive, since the
  accept rules of two mappings are the same rule, and only the order says which
  mapping a deletion takes it from.  It holds while no container has lost track
  (`Tracked`); `RulesEnough`, that a container which was refused nothing has all its
  rules, needs no such condition.  `Links` ties the address on a process's link to
  its record, or to the command that has just started it, which is why the address
  whose rules are deleted is that of no live process.  Every step of `Container`
  other than `Attach` and `DisconnectBridge` keeps all this for the same reason, which
  is stated once (`Carries`): it configures no link, releases no address, and lets
  only a fresh address or the command's own appear.  `RulesFollowAddress`.
* `NetworkProofs`: three invariants, each of which includes the one before.
  `TypeInv`.  `HInv` adds that while no removal was cut short and no commands
  overlapped, the files and the running command keep the subnets they name: a
  command between taking the subnet and writing the file holds it for the network
  it makes, so that no refusal, reboot or killed creation can give it to another.
  `AInv` adds what is in the kernel.  The four places of a network are only equal
  when no command runs, so it has to say at **each** step what the running command
  has in hand: which of the six rules a creation has appended (`RulesBefore`), which
  a removal has left (`RulesFrom`), what the bridge has by then (`OwnBridge`), which
  networks a restoration has still to come to (`WholeOK`).  Its parts hold as long
  as what they depend on: `WholeOK` until a bridge or rules are left half made
  (`Settled`; a reboot makes it hold again, because it takes everything away),
  `SubnetsOK` until a creation is cut short (`Created`), `KernelOK`, that bridges have
  files and rules have bridges, under either, `FilesOK` while nothing goes wrong.
  `NetworkTypeCorrect`, `NetworkKeepsSubnet`, `NetworksAlwaysAgree`,
  `NothingIsLeftBehind`, `RunRestoresKernel`.
* `StartupProofs`: `TypeOK`; `FlowInv`, that what init has read and what is in the
  pipe is together a beginning of the user's command of which the rest is still
  to send, and all of it or nothing once the command is gone, when the pipe holds
  it; `OrderInv`, that nothing is in a pipe before volumes, network and control
  groups are set up; `PathInv`, that a path that is a file or a directory stays
  one, and the host's data what it was.  `TypeCorrect`, `CommandWholeOrNothing`,
  `CommandAfterSetUp`, `VolumesFit`, `HostDataSafe`.
* `ImagesProofs`: `UseInv`, that a layer with a description keeps an archive or a
  directory, and that everything an image of the index, or a command about to
  write one, stands on is described; `KeepInv`, that until tar fails or an
  overlap and a killed extraction come together a layer has a whole archive, or a
  directory that is whole or that a tar is about to make whole, because an archive
  is deleted only after an extraction that came to its end, and a layer that is being
  made is nobody else's; `AloneInv`
  and `DirsInv`, for commands that do not overlap: what one knows of the disk is
  still true, and a partial directory is one that is being extracted.
  `ImagesTypeCorrect`, `IndexAlwaysUsable`, `NoLayerLost`, `WholeLayers`,
  `ListingAlone`, `ImagesKept`.  `ImagesAssumptions` says that references are a name
  or a name with a tag, and that new identifiers are none of these.
* `LogsProofs`: `Lines` between two positions covers what is between them, and two
  sequences of lines that meet cover the whole; a log of less than a slice is read
  at once, so that a command that prints a tail holds all lines of it or none
  (`ReaderInv`); a long line ends a read, and what is not read then is the beginning
  of that line (`Covers`).  `LogsTypeCorrect`, `WholeLogPrinted`, `TailPrinted`,
  `PanicsOnlyOnShortLog`.

Only model-checked: the liveness properties `CallsEnd`, `TtyCleanup`, `LogsEnd`,
`InitEnds` and `CommandEnds`, because the proof system has no rules for fairness and
ENABLED.

## Not modelled

* `Destroy` of the control groups, at the end of a run on a terminal (`run.go` 178)
  and in `rm` (`container_manager.go` 149), and the search for the mount point of a
  subsystem.
* `rm -v`, which also deletes the host's side of every volume
  (`container_manager.go` 151-161).  `HostDataKept` is about starts.
* The texts of `hosts`, `hostname` and `resolv.conf`, sizes, what commands print,
  the parsing of flags.
* `exec` beyond its status read, and `nsenter`: system calls on one process.
* I/O errors other than those named above.

## Plan

Done: `IpamBitmap`, `AddressPool`, `Ipam`, `IpamFile`, `Container`, `Network`,
`Ports`, `Images`, `Logs`, `Startup`, with the proofs above.  What is left:

* `ContainerLife`: an abstract lifecycle (absent, running, dead, stopped) that
  `Container` implements for one terminal by a refinement mapping, with the proof
  of the refinement from `SoloInv`.

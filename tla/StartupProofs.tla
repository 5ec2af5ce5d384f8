---------------------------- MODULE StartupProofs ---------------------------
(***************************************************************************)
(* Theorems about Startup, for any number of starts and processes, any      *)
(* command, pipe, volumes and limits, and whoever is killed when.           *)
(***************************************************************************)
EXTENDS Startup, SequenceTheorems, TLAPS

-----------------------------------------------------------------------------
(* Types. *)

LEMMA AskedTyped ==
  ASSUME asked \in Requests
  PROVE  /\ asked.argv \in Seq(Tokens)
         /\ asked.bad \subseteq Fields
         /\ asked.host \in [AllVolumes -> FirstKinds]
         /\ asked.guest \in [AllVolumes -> FirstKinds]
  BY StartupAssumptions DEF RequestType, AllVolumes

LEMMA NothingTyped == NoJob \in JobType /\ NoInit \in InitType
<1>1. <<>> \in Seq(Tokens)
  BY EmptySeq
<1>2. 1 \in 1 .. Volumes + 1
  BY StartupAssumptions
<1> QED
  BY <1>1, <1>2 DEF NoJob, NoInit, JobType, InitType, JobPoints, InitPoints

LEMMA JoinedTyped == Joined(asked.bad) \subseteq Subsystems
  BY DEF Joined

LEMMA ParsedTyped ==
  ASSUME NEW q \in Seq(Tokens)
  PROVE  Parsed(q) \in SUBSET Nat
  BY DEF Parsed

\* The two parts of a sequence.
LEMMA Parts ==
  ASSUME NEW q \in Seq(Tokens), NEW n \in 0 .. Len(q)
  PROVE  SubSeq(q, 1, n) \in Seq(Tokens) /\ SubSeq(q, n + 1, Len(q)) \in Seq(Tokens)
<1>1. \A i \in 1 .. Len(q) : q[i] \in Tokens
  BY ElementOfSeq
<1> QED
  BY <1>1, SubSeqProperties

LEMMA InitTyped == Init => TypeOK
<1> SUFFICES ASSUME Init PROVE TypeOK
  OBVIOUS
<1>1. asked \in Requests
  BY DEF Init
<1>2. FilesTyped
  <2>1. link \in 0 .. Volumes /\ pivotDir \in BOOLEAN
    <3>1. link = 0 /\ pivotDir = FALSE
      BY DEF Init
    <3>2. Volumes \in Nat
      BY StartupAssumptions
    <3>3. link \in 0 .. Volumes
      BY <3>1, <3>2
    <3> QED
      BY <3>1, <3>3
  <2>2. asked.host \in [AllVolumes -> FirstKinds] /\ asked.guest \in [AllVolumes -> FirstKinds]
    BY <1>1, AskedTyped
  <2>3. host = asked.host /\ guest = asked.guest /\ FirstKinds \subseteq PathKinds
    BY DEF Init, PathKinds
  <2>4. host \in [AllVolumes -> PathKinds] /\ guest \in [AllVolumes -> FirstKinds]
    BY <2>2, <2>3
  <2> QED
    BY <2>1, <2>4 DEF FilesTyped
<1>3. job \in [Slots -> JobType] /\ init \in [Slots -> InitType]
  BY NothingTyped DEF Init
<1>4. pipe \in [Slots -> Seq(Tokens)]
  BY EmptySeq DEF Init
<1>5. \A s \in Slots : init[s].pc \in AtVolume => init[s].vol \in AllVolumes
  BY DEF Init, NoInit, AtVolume
<1>6. known \in {"no", "begun", "recorded"} /\ last \in Slots \cup {NoSlot}
  BY DEF Init
<1> QED
  BY <1>1, <1>2, <1>3, <1>4, <1>5, <1>6 DEF TypeOK

-----------------------------------------------------------------------------
\* Writing the job or the process of one slot.
LEMMA JobWrite ==
  ASSUME TypeOK, NEW s \in Slots
  PROVE  /\ \A j \in JobType : [job EXCEPT ![s] = j] \in [Slots -> JobType]
         /\ \A pc \in JobPoints : [job EXCEPT ![s].pc = pc] \in [Slots -> JobType]
         /\ \A q \in Seq(Tokens) : [job EXCEPT ![s].rest = q] \in [Slots -> JobType]
<1>1. job \in [Slots -> JobType] /\ job[s] \in JobType
  BY DEF TypeOK
<1>2. /\ \A pc \in JobPoints : [job[s] EXCEPT !.pc = pc] \in JobType
      /\ \A q \in Seq(Tokens) : [job[s] EXCEPT !.rest = q] \in JobType
  BY <1>1 DEF JobType
<1> QED
  BY <1>1, <1>2

\* What the process of a slot may become.
LEMMA ProcessWrite ==
  ASSUME TypeOK, NEW s \in Slots, NEW r \in InitType
  PROVE  /\ [init EXCEPT ![s] = r] \in [Slots -> InitType]
         /\ (r.pc \in AtVolume => r.vol \in AllVolumes) =>
               \A u \in Slots : [init EXCEPT ![s] = r][u].pc \in AtVolume =>
                                 [init EXCEPT ![s] = r][u].vol \in AllVolumes
  BY DEF TypeOK

LEMMA ProcessAt ==
  ASSUME NEW r \in InitType
  PROVE  /\ \A pc \in InitPoints : [r EXCEPT !.pc = pc] \in InitType
         /\ \A g \in SUBSET Subsystems : [r EXCEPT !.groups = g] \in InitType
         /\ [r EXCEPT !.connected = TRUE] \in InitType
         /\ \A q \in Seq(Tokens) : [r EXCEPT !.got = q] \in InitType
         /\ \A q \in SUBSET Nat : [r EXCEPT !.pc = "volume", !.argv = q] \in InitType
         /\ [r EXCEPT !.pc = "unmount", !.root = "container"] \in InitType
         /\ \A v \in 1 .. Volumes + 1, b \in SUBSET AllVolumes :
               [r EXCEPT !.pc = "volume", !.vol = v, !.bound = b] \in InitType
  BY DEF InitType, InitPoints

\* The command's steps.
LEMMA JobTyped ==
  ASSUME TypeOK, NEW s \in Slots,
         Run(s) \/ Start(s) \/ Crash(s) \/ JobStep(s)
  PROVE  TypeOK'
<1>1. job[s] \in JobType /\ init[s] \in InitType /\ pipe[s] \in Seq(Tokens)
  BY DEF TypeOK
<1>2. job[s].rest \in Seq(Tokens) /\ asked.argv \in Seq(Tokens)
  BY <1>1, AskedTyped DEF JobType, TypeOK
<1> DEFINE Others ==
      UNCHANGED <<asked, known, last, init, pipe, link, pivotDir, host, guest>>
<1>3. job' \in [Slots -> JobType] /\ Others => TypeOK'
  BY DEF TypeOK, FilesTyped
<1>4. CASE Run(s) \/ Start(s)
  <2>1. \A cmd \in {"run", "start"} : [cmd |-> cmd, pc |-> "spawn", rest |-> asked.argv] \in JobType
    BY <1>2 DEF JobType, JobPoints
  <2>2. job' \in [Slots -> JobType]
    BY <1>4, <2>1, JobWrite DEF Run, Start
  <2> QED
    BY <1>4, <2>2 DEF Run, Start, TypeOK, FilesTyped, files
<1>5. CASE Spawn(s)
  <2>1. job' \in [Slots -> JobType]
    <3>1. {"link", "limit"} \subseteq JobPoints
      BY DEF JobPoints
    <3> QED
      BY <1>5, <3>1, JobWrite, NothingTyped DEF Spawn, To
  <2>2. [NoInit EXCEPT !.pc = "read"] \in InitType
    BY NothingTyped, ProcessAt DEF InitPoints
  <2>3. [NoInit EXCEPT !.pc = "read"].pc = "read"
    BY DEF NoInit
  <2>4. /\ init' \in [Slots -> InitType]
        /\ \A u \in Slots : init'[u].pc \in AtVolume => init'[u].vol \in AllVolumes
    BY <1>5, <2>2, <2>3, ProcessWrite DEF Spawn, AtVolume, TypeOK
  <2>5. pipe' \in [Slots -> Seq(Tokens)] /\ last' \in Slots \cup {NoSlot}
    BY <1>5, EmptySeq DEF Spawn, TypeOK
  <2> QED
    BY <1>5, <2>1, <2>4, <2>5 DEF Spawn, TypeOK, FilesTyped, files
<1>6. CASE SetVolume(s)
  <2>1. job' \in [Slots -> JobType]
    BY <1>6, JobWrite DEF SetVolume, To, JobPoints, TypeOK
  <2>2. link' \in 0 .. Volumes
    BY <1>6, StartupAssumptions DEF SetVolume, TypeOK, FilesTyped
  <2> QED
    BY <1>6, <2>1, <2>2 DEF SetVolume, TypeOK, FilesTyped
<1>7. CASE Limit(s) \/ Connect(s)
  <2>1. job' \in [Slots -> JobType]
    BY <1>7, JobWrite DEF Limit, Connect, To, JobPoints
  <2> DEFINE r == IF Limit(s) THEN [init[s] EXCEPT !.groups = Joined(asked.bad)]
                  ELSE [init[s] EXCEPT !.connected = TRUE]
  <2>2. r \in InitType
    BY <1>1, ProcessAt, JoinedTyped
  <2>3. r.pc = init[s].pc /\ r.vol = init[s].vol
    BY <1>1 DEF InitType
  <2>4. init' = [init EXCEPT ![s] = r] \/ init' = init
    BY <1>7 DEF Limit, Connect, TypeOK
  <2>5. /\ init' \in [Slots -> InitType]
        /\ \A u \in Slots : init'[u].pc \in AtVolume => init'[u].vol \in AllVolumes
    <3> HIDE DEF r
    <3> QED
      BY <2>2, <2>3, <2>4, ProcessWrite DEF TypeOK
  <2> QED
    BY <1>7, <2>1, <2>5 DEF Limit, Connect, TypeOK, FilesTyped, files
<1>8. CASE Send(s)
  <2> DEFINE n == Least(Room(s), Len(job[s].rest))
  <2>1. n \in 0 .. Len(job[s].rest)
    BY <1>1, <1>2, <1>8, StartupAssumptions, LenProperties DEF Send, Least, Room
  <2>2. /\ SubSeq(job[s].rest, 1, n) \in Seq(Tokens)
        /\ SubSeq(job[s].rest, n + 1, Len(job[s].rest)) \in Seq(Tokens)
    BY <2>1, <1>2, Parts
  <2>3. pipe[s] \o SubSeq(job[s].rest, 1, n) \in Seq(Tokens)
    BY <1>1, <2>2, ConcatProperties
  <2>4. /\ pipe' = [pipe EXCEPT ![s] = pipe[s] \o SubSeq(job[s].rest, 1, n)]
        /\ job' = [job EXCEPT ![s].rest = SubSeq(job[s].rest, n + 1, Len(job[s].rest))]
        /\ UNCHANGED <<asked, known, last, init, files>>
    BY <1>8, <1>1 DEF Send, TypeOK
  <2>5. job' \in [Slots -> JobType]
    BY <2>2, <2>4, JobWrite
  <2> HIDE DEF n
  <2> QED
    BY <2>3, <2>4, <2>5 DEF TypeOK, FilesTyped, files
<1>9. CASE Close(s) \/ Crash(s)
  BY <1>3, <1>9, JobWrite, NothingTyped DEF Close, Crash, To, JobPoints, files
<1>10. CASE Record(s)
  <2>1. job' \in [Slots -> JobType]
    BY <1>10, JobWrite, NothingTyped DEF Record
  <2> QED
    BY <1>10, <2>1 DEF Record, TypeOK, FilesTyped, files
<1> QED
  BY <1>4, <1>5, <1>6, <1>7, <1>8, <1>9, <1>10 DEF JobStep

\* The process's steps.
LEMMA ProcessTyped ==
  ASSUME TypeOK, NEW s \in Slots, Die(s) \/ InitStep(s)
  PROVE  TypeOK'
<1>1. init[s] \in InitType /\ pipe[s] \in Seq(Tokens) /\ init[s].got \in Seq(Tokens)
  BY DEF TypeOK, InitType
<1>2. init[s].vol \in 1 .. Volumes + 1 /\ init[s].bound \subseteq AllVolumes
  BY <1>1 DEF InitType
<1>3. ASSUME NEW r \in InitType, r.pc \in AtVolume => r.vol \in AllVolumes,
             init' = [init EXCEPT ![s] = r]
      PROVE  /\ init' \in [Slots -> InitType]
             /\ \A u \in Slots : init'[u].pc \in AtVolume => init'[u].vol \in AllVolumes
  BY <1>3, ProcessWrite
<1>4. ASSUME NEW pc \in InitPoints, init' = [init EXCEPT ![s].pc = pc],
             pc \in AtVolume => init[s].vol \in AllVolumes
      PROVE  /\ init' \in [Slots -> InitType]
             /\ \A u \in Slots : init'[u].pc \in AtVolume => init'[u].vol \in AllVolumes
  <2> DEFINE r == [init[s] EXCEPT !.pc = pc]
  <2>1. r \in InitType /\ r.pc = pc /\ r.vol = init[s].vol
    BY <1>1, ProcessAt DEF InitType
  <2>2. init' = [init EXCEPT ![s] = r]
    BY <1>4 DEF TypeOK
  <2> HIDE DEF r
  <2> QED
    BY <1>3, <1>4, <2>1, <2>2
<1>5. CASE Receive(s)
  <2>1. PICK n \in 1 .. Len(pipe[s]) :
          /\ init' = [init EXCEPT ![s] = [init[s] EXCEPT !.got = @ \o SubSeq(pipe[s], 1, n)]]
          /\ pipe' = [pipe EXCEPT ![s] = SubSeq(pipe[s], n + 1, Len(pipe[s]))]
    BY <1>5 DEF Receive, TypeOK
  <2>2. n \in 0 .. Len(pipe[s])
    BY <1>1, LenProperties
  <2>3. SubSeq(pipe[s], 1, n) \in Seq(Tokens) /\ SubSeq(pipe[s], n + 1, Len(pipe[s])) \in Seq(Tokens)
    BY <1>1, <2>2, Parts
  <2>4. init[s].got \o SubSeq(pipe[s], 1, n) \in Seq(Tokens)
    BY <1>1, <2>3, ConcatProperties
  <2> DEFINE r == [init[s] EXCEPT !.got = @ \o SubSeq(pipe[s], 1, n)]
  <2>5. r \in InitType /\ r.pc = "read"
    BY <1>1, <1>5, <2>4, ProcessAt DEF Receive, InitType
  <2>6. init' = [init EXCEPT ![s] = r] /\ pipe' \in [Slots -> Seq(Tokens)]
    BY <2>1, <2>3 DEF TypeOK
  <2> HIDE DEF r
  <2>7. /\ init' \in [Slots -> InitType]
        /\ \A u \in Slots : init'[u].pc \in AtVolume => init'[u].vol \in AllVolumes
    BY <1>3, <2>5, <2>6 DEF AtVolume
  <2> QED
    BY <1>5, <2>6, <2>7 DEF Receive, TypeOK, FilesTyped, files
<1>6. CASE Parse(s)
  <2> DEFINE argv == Parsed(init[s].got)
             r == IF argv = {} THEN NoInit ELSE [init[s] EXCEPT !.pc = "volume", !.argv = argv]
  <2>1. argv \in SUBSET Nat
    BY <1>1, ParsedTyped
  <2>2. r \in InitType /\ r.pc \in {"none", "volume"}
    BY <1>1, <2>1, ProcessAt, NothingTyped DEF InitType, NoInit
  <2>3. init' = [init EXCEPT ![s] = r]
    BY <1>6 DEF Parse, TypeOK
  <2> HIDE DEF r
  <2>4. /\ init' \in [Slots -> InitType]
        /\ \A u \in Slots : init'[u].pc \in AtVolume => init'[u].vol \in AllVolumes
    BY <1>3, <2>2, <2>3 DEF AtVolume
  <2> QED
    BY <1>6, <2>4 DEF Parse, TypeOK, FilesTyped, files
<1>7. CASE Prepare(s)
  <2>1. init[s].vol \in AllVolumes
    BY <1>2, <1>7, StartupAssumptions DEF Prepare, TypeOK, FilesTyped, AllVolumes
  <2>2. /\ init' \in [Slots -> InitType]
        /\ \A u \in Slots : init'[u].pc \in AtVolume => init'[u].vol \in AllVolumes
    BY <1>4, <1>7, <2>1 DEF Prepare, InitPoints
  <2>3. FilesTyped'
    BY <1>7 DEF Prepare, TypeOK, FilesTyped, CheckPath, PathKinds, FirstKinds
  <2> QED
    BY <1>7, <2>2, <2>3 DEF Prepare, TypeOK
<1>8. CASE Seed(s) \/ Copy(s) \/ Copied(s)
  <2>1. init[s].vol \in AllVolumes
    BY <1>8 DEF Seed, Copy, Copied, TypeOK, AtVolume
  <2>2. /\ init' \in [Slots -> InitType]
        /\ \A u \in Slots : init'[u].pc \in AtVolume => init'[u].vol \in AllVolumes
    BY <1>4, <1>8, <2>1 DEF Seed, Copy, Copied, InitPoints
  <2>3. FilesTyped'
    BY <1>8 DEF Seed, Copy, Copied, TypeOK, FilesTyped, PathKinds, files
  <2> QED
    BY <1>8, <2>2, <2>3 DEF Seed, Copy, Copied, TypeOK
<1>9. CASE Bind(s)
  <2> DEFINE v == init[s].vol
             b == IF IsFile(host[v]) = IsFile(guest[v]) THEN init[s].bound \cup {v} ELSE init[s].bound
             r == [init[s] EXCEPT !.pc = "volume", !.vol = v + 1, !.bound = b]
  <2>1. v \in AllVolumes
    BY <1>9 DEF Bind, TypeOK, AtVolume
  <2>2. v + 1 \in 1 .. Volumes + 1 /\ b \in SUBSET AllVolumes
    BY <1>2, <2>1, StartupAssumptions DEF AllVolumes
  <2>3. r \in InitType /\ r.pc = "volume"
    <3> HIDE DEF b, v
    <3> QED
      BY <1>1, <2>2, ProcessAt DEF InitType
  <2>4. init' = [init EXCEPT ![s] = r]
    BY <1>9 DEF Bind, TypeOK
  <2> HIDE DEF r
  <2>5. /\ init' \in [Slots -> InitType]
        /\ \A u \in Slots : init'[u].pc \in AtVolume => init'[u].vol \in AllVolumes
    BY <1>3, <2>3, <2>4 DEF AtVolume
  <2> QED
    BY <1>9, <2>5 DEF Bind, TypeOK, FilesTyped, files
<1>10. CASE MakePivotDir(s) \/ RemovePivotDir(s)
  <2>1. /\ init' \in [Slots -> InitType]
        /\ \A u \in Slots : init'[u].pc \in AtVolume => init'[u].vol \in AllVolumes
    BY <1>4, <1>10 DEF MakePivotDir, RemovePivotDir, InitPoints, AtVolume
  <2> QED
    BY <1>10, <2>1 DEF MakePivotDir, RemovePivotDir, TypeOK, FilesTyped
<1>11. CASE PivotRoot(s)
  <2> DEFINE r == [init[s] EXCEPT !.pc = "unmount", !.root = "container"]
  <2>1. r \in InitType /\ r.pc = "unmount"
    BY <1>1, ProcessAt DEF InitType
  <2>2. init' = [init EXCEPT ![s] = r]
    BY <1>11 DEF PivotRoot, TypeOK
  <2> HIDE DEF r
  <2>3. /\ init' \in [Slots -> InitType]
        /\ \A u \in Slots : init'[u].pc \in AtVolume => init'[u].vol \in AllVolumes
    BY <1>3, <2>1, <2>2 DEF AtVolume
  <2> QED
    BY <1>11, <2>3 DEF PivotRoot, TypeOK, FilesTyped, files
<1>12. CASE Exec(s) \/ Die(s)
  <2>1. NoInit.pc \notin AtVolume /\ "running" \in InitPoints \ AtVolume
    BY DEF NoInit, AtVolume, InitPoints
  <2>2. /\ init' \in [Slots -> InitType]
        /\ \A u \in Slots : init'[u].pc \in AtVolume => init'[u].vol \in AllVolumes
    BY <1>3, <1>4, <1>12, <2>1, NothingTyped DEF Exec, Die
  <2> QED
    BY <1>12, <2>2 DEF Exec, Die, TypeOK, FilesTyped, files
<1> QED
  BY <1>5, <1>6, <1>7, <1>8, <1>9, <1>10, <1>11, <1>12 DEF InitStep

LEMMA TypeStep == TypeOK /\ [Next]_vars => TypeOK'
<1> SUFFICES ASSUME TypeOK, [Next]_vars PROVE TypeOK'
  OBVIOUS
<1>1. CASE UNCHANGED vars
  BY <1>1 DEF vars, files, TypeOK, FilesTyped
<1>2. CASE Next
  BY <1>2, JobTyped, ProcessTyped DEF Next
<1> QED
  BY <1>1, <1>2

-----------------------------------------------------------------------------
(* Sequences that are sent in parts. *)

\* A slice of what is left of a sequence.
LEMMA SliceOfRest ==
  ASSUME NEW q \in Seq(Tokens), NEW n \in 0 .. Len(q),
         NEW a \in 1 .. Len(q) - n + 1, NEW b \in 0 .. Len(q) - n
  PROVE  SubSeq(SubSeq(q, n + 1, Len(q)), a, b) = SubSeq(q, n + a, n + b)
<1> DEFINE r == SubSeq(q, n + 1, Len(q))
<1>1. Len(q) \in Nat /\ \A i \in 1 .. Len(q) : q[i] \in Tokens
  BY LenProperties, ElementOfSeq
<1>2. /\ r \in Seq(Tokens) /\ Len(r) = Len(q) - n
      /\ \A i \in 1 .. Len(q) - n : r[i] = q[n + i]
  <2>1. n + 1 \in Int /\ \A i \in n + 1 .. Len(q) : q[i] \in Tokens
    BY <1>1
  <2> QED
    BY <1>1, <2>1, SubSeqProperties
<1> HIDE DEF r
<1>3. /\ SubSeq(r, a, b) \in Seq(Tokens) /\ Len(SubSeq(r, a, b)) = IF a <= b THEN b - a + 1 ELSE 0
      /\ \A i \in 1 .. b - a + 1 : SubSeq(r, a, b)[i] = r[a + i - 1]
  <2>1. \A i \in a .. b : r[i] \in Tokens
    BY <1>1, <1>2, ElementOfSeq
  <2>2. a \in Int /\ b \in Int
    BY <1>1
  <2> QED
    BY <2>1, <2>2, SubSeqProperties
<1>4. /\ SubSeq(q, n + a, n + b) \in Seq(Tokens)
      /\ Len(SubSeq(q, n + a, n + b)) = IF a <= b THEN b - a + 1 ELSE 0
      /\ \A i \in 1 .. b - a + 1 : SubSeq(q, n + a, n + b)[i] = q[n + a + i - 1]
  <2>1. \A i \in n + a .. n + b : q[i] \in Tokens
    BY <1>1
  <2>2. n + a \in Int /\ n + b \in Int
    BY <1>1
  <2> QED
    BY <1>1, <2>1, <2>2, SubSeqProperties
<1>5. \A i \in 1 .. Len(SubSeq(r, a, b)) : SubSeq(r, a, b)[i] = SubSeq(q, n + a, n + b)[i]
  BY <1>1, <1>2, <1>3, <1>4
<1> QED
  BY <1>3, <1>4, <1>5, SeqEqual DEF r

\* The first m parts of what is left after the first n.
LEMMA SentMore ==
  ASSUME NEW q \in Seq(Tokens), NEW n \in 0 .. Len(q), NEW m \in 0 .. Len(q) - n
  PROVE  LET rest == SubSeq(q, n + 1, Len(q)) IN
         /\ Len(rest) = Len(q) - n
         /\ SubSeq(q, 1, n) \o SubSeq(rest, 1, m) = SubSeq(q, 1, n + m)
         /\ SubSeq(rest, m + 1, Len(rest)) = SubSeq(q, n + m + 1, Len(q))
<1> DEFINE rest == SubSeq(q, n + 1, Len(q))
<1>1. Len(q) \in Nat /\ \A i \in 1 .. Len(q) : q[i] \in Tokens
  BY LenProperties, ElementOfSeq
<1>2. Len(rest) = Len(q) - n
  <2>1. n + 1 \in Int /\ \A i \in n + 1 .. Len(q) : q[i] \in Tokens
    BY <1>1
  <2> QED
    BY <1>1, <2>1, SubSeqProperties
<1>3. SubSeq(rest, 1, m) = SubSeq(q, n + 1, n + m)
  BY <1>1, SliceOfRest
<1>4. SubSeq(rest, m + 1, Len(q) - n) = SubSeq(q, n + (m + 1), n + (Len(q) - n))
  BY <1>1, SliceOfRest
<1>5. SubSeq(q, 1, n) \o SubSeq(q, n + 1, n + m) = SubSeq(q, 1, n + m)
  <2>1. 1 \in 1 .. Len(q) + 1 /\ n \in 1 - 1 .. Len(q) /\ n + m \in n .. Len(q)
    BY <1>1
  <2> QED
    BY <2>1, ConcatAdjacentSubSeq
<1>6. n + (m + 1) = n + m + 1 /\ n + (Len(q) - n) = Len(q)
  BY <1>1
<1> QED
  BY <1>2, <1>3, <1>4, <1>5, <1>6

LEMMA Joins == \A q, r, t \in Seq(Tokens) : (q \o r) \o t = q \o (r \o t)
  BY ConcatAssociative

LEMMA NothingSent ==
  ASSUME NEW q \in Seq(Tokens)
  PROVE  /\ SubSeq(q, 1, 0) = <<>> /\ SubSeq(q, 0 + 1, Len(q)) = q
         /\ Parsed(<<>>) = {}
<1>1. SubSeq(q, 1, 0) = <<>>
  BY SubSeqEmpty
<1>2. DOMAIN <<>> = {}
  BY EmptySeq, LenProperties
<1> QED
  BY <1>1, <1>2, SubSeqFull DEF Parsed

-----------------------------------------------------------------------------
(* The command arrives whole or not at all. *)

\* The points of a command before it sends, and before it has closed the pipe.
Preparing == {"link", "limit", "connect"}
Sending == Preparing \cup {"send"}

\* What the process has got and what is in the pipe are the first n parts of
\* the command, and the others are still to be sent.
Sent(s, n) ==
  /\ init[s].got \o pipe[s] = SubSeq(asked.argv, 1, n)
  /\ job[s].pc \in Sending => job[s].rest = SubSeq(asked.argv, n + 1, Len(asked.argv))
  /\ job[s].pc \in Preparing => n = 0
  /\ Fits => n \in {0, Len(asked.argv)}

\* What AllOrNothing says of one process.
Understood(s) ==
  \/ init[s].argv = Parsed(asked.argv)
  \/ ~Fits /\ \E n \in 1 .. Len(asked.argv) :
                init[s].argv = Parsed(SubSeq(asked.argv, 1, n))

FlowOf(s) ==
  /\ job[s].pc = "spawn" => job[s].rest = asked.argv /\ init[s].pc = "none"
  /\ init[s].pc = "read" => \E n \in 0 .. Len(asked.argv) : Sent(s, n)
  /\ init[s].pc \in Started => Understood(s)

\* A step of one slot leaves the others alone.
Acts(s) == Run(s) \/ Start(s) \/ JobStep(s) \/ InitStep(s) \/ Die(s) \/ Crash(s)

LEMMA Elsewhere ==
  ASSUME TypeOK, NEW s \in Slots, Acts(s)
  PROVE  /\ asked' = asked
         /\ \A u \in Slots \ {s} : job'[u] = job[u] /\ init'[u] = init[u] /\ pipe'[u] = pipe[u]
<1>1. CASE Run(s) \/ Start(s) \/ JobStep(s) \/ Crash(s)
  BY <1>1 DEF TypeOK, JobStep, Run, Start, Crash, Spawn, SetVolume, Limit, Connect, Send,
              Close, Record, To
<1>2. CASE InitStep(s) \/ Die(s)
  BY <1>2 DEF TypeOK, InitStep, Die, Receive, Parse, Prepare, Seed, Copy, Copied, Bind,
              MakePivotDir, PivotRoot, RemovePivotDir, Exec
<1> QED
  BY <1>1, <1>2 DEF Acts

LEMMA SentNow ==
  ASSUME NEW s \in Slots, NEW n \in 0 .. Len(asked.argv), asked' = asked,
         init'[s].got \o pipe'[s] = SubSeq(asked.argv, 1, n),
         job'[s].pc \in Sending => job'[s].rest = SubSeq(asked.argv, n + 1, Len(asked.argv)),
         job'[s].pc \in Preparing => n = 0,
         Fits => n \in {0, Len(asked.argv)}
  PROVE  Sent(s, n)'
  BY DEF Sent, Fits

\* A step that leaves the pipe and the process alone.
LEMMA FlowKept ==
  ASSUME TypeOK, NEW s \in Slots, FlowOf(s),
         UNCHANGED <<asked, pipe>>,
         init'[s].pc = init[s].pc /\ init'[s].got = init[s].got /\ init'[s].argv = init[s].argv,
         job'[s].pc \in Sending => job[s].pc \in Sending /\ job'[s].rest = job[s].rest,
         job'[s].pc \in Preparing => job[s].pc \in Preparing,
         job'[s].pc # "spawn"
  PROVE  FlowOf(s)'
<1>1. ASSUME NEW n \in 0 .. Len(asked.argv), Sent(s, n) PROVE Sent(s, n)'
  BY <1>1 DEF Sent, Fits
<1>2. (init[s].pc \in Started => Understood(s))'
  BY DEF FlowOf, Understood, Fits
<1> QED
  BY <1>1, <1>2 DEF FlowOf

\* A process that has read its command keeps it.
LEMMA FlowStarted ==
  ASSUME TypeOK, NEW s \in Slots, FlowOf(s), asked' = asked,
         job'[s] = job[s] /\ (init[s].pc = "none" => init'[s].pc = "none"),
         init'[s].pc # "read",
         init'[s].pc \in Started => init[s].pc \in Started /\ init'[s].argv = init[s].argv,
         job[s].pc = "spawn" => init'[s].pc = "none"
  PROVE  FlowOf(s)'
  BY DEF FlowOf, Understood, Fits

LEMMA FlowJob ==
  ASSUME TypeOK, TypeOK', NEW s \in Slots, FlowOf(s),
         Run(s) \/ Start(s) \/ Crash(s) \/ JobStep(s)
  PROVE  FlowOf(s)'
<1>1. job[s] \in JobType /\ init[s] \in InitType /\ pipe[s] \in Seq(Tokens)
  BY DEF TypeOK
<1>2. asked.argv \in Seq(Tokens) /\ Len(asked.argv) \in Nat
  BY AskedTyped, LenProperties DEF TypeOK
<1>3. asked' = asked
  BY Elsewhere DEF Acts
<1>4. CASE Run(s) \/ Start(s)
  <2>1. /\ job'[s].pc = "spawn" /\ job'[s].rest = asked.argv
        /\ init' = init /\ init[s].pc = "none"
    BY <1>4 DEF Run, Start, Free, TypeOK
  <2> QED
    BY <1>3, <2>1 DEF FlowOf, Started
<1>5. CASE Spawn(s)
  <2>1. job[s].rest = asked.argv /\ init[s].pc = "none"
    BY <1>5 DEF Spawn, FlowOf
  <2>2. CASE init' = init
    <3>1. job'[s].pc = "idle"
      BY <1>5, <2>1, <2>2 DEF Spawn, TypeOK, NoJob, NoInit
    <3> QED
      BY <2>1, <2>2, <3>1 DEF FlowOf, Started
  <2>3. CASE init' # init
    <3>1. init'[s].pc = "read" /\ init'[s].got = <<>> /\ pipe'[s] = <<>>
      BY <1>5, <2>3 DEF Spawn, TypeOK, NoInit
    <3>2. job'[s].pc \in {"idle", "link", "limit"} /\ (job'[s].pc # "idle" => job'[s].rest = asked.argv)
      BY <1>1, <1>5, <2>1, <2>3 DEF Spawn, To, TypeOK, NoJob, JobType
    <3>3. <<>> \o <<>> = <<>>
      BY EmptySeq, ConcatEmptySeq
    <3>4. 0 \in 0 .. Len(asked.argv)
      BY <1>2
    <3>5. Sent(s, 0)'
      BY <1>2, <1>3, <3>1, <3>2, <3>3, <3>4, NothingSent, SentNow DEF Sending, Preparing
    <3> QED
      BY <1>3, <3>1, <3>2, <3>4, <3>5 DEF FlowOf, Started
  <2> QED
    BY <2>2, <2>3
<1>6. CASE SetVolume(s)
  <2>1. /\ job'[s].pc \in {"link", "limit"} /\ job[s].pc = "link"
        /\ job'[s].rest = job[s].rest /\ UNCHANGED <<asked, pipe, init>>
    BY <1>1, <1>6 DEF SetVolume, To, TypeOK, JobType
  <2> QED
    BY <2>1, FlowKept DEF Sending, Preparing
<1>7. CASE Limit(s) \/ Connect(s)
  <2>1. /\ job'[s].pc \in {"connect", "send"} /\ job[s].pc \in Preparing
        /\ job'[s].rest = job[s].rest /\ UNCHANGED <<asked, pipe>>
    BY <1>1, <1>7 DEF Limit, Connect, To, TypeOK, JobType, Preparing
  <2>2. init'[s].pc = init[s].pc /\ init'[s].got = init[s].got /\ init'[s].argv = init[s].argv
    BY <1>1, <1>7 DEF Limit, Connect, TypeOK, InitType
  <2> QED
    BY <2>1, <2>2, FlowKept DEF Sending, Preparing
<1>8. CASE Send(s)
  <2> DEFINE m == Least(Room(s), Len(job[s].rest))
  <2>1. /\ job[s].pc = "send" /\ m > 0 /\ init' = init
        /\ pipe'[s] = pipe[s] \o SubSeq(job[s].rest, 1, m)
        /\ job'[s].pc = "send"
        /\ job'[s].rest = SubSeq(job[s].rest, m + 1, Len(job[s].rest))
    BY <1>1, <1>8 DEF Send, TypeOK, JobType
  <2>2. CASE init[s].pc = "read"
    <3>1. PICK n \in 0 .. Len(asked.argv) : Sent(s, n)
      BY <2>2 DEF FlowOf
    <3>2. job[s].rest = SubSeq(asked.argv, n + 1, Len(asked.argv))
      BY <2>1, <3>1 DEF Sent, Sending
    <3>3. Len(job[s].rest) = Len(asked.argv) - n
      BY <1>2, <3>2, SentMore
    <3>4. Len(pipe[s]) \in Nat /\ Capacity \in Nat
      BY <1>1, LenProperties, StartupAssumptions
    <3>5. m \in 0 .. Len(asked.argv) - n
      BY <1>2, <2>1, <3>3, <3>4 DEF Least, Room
    <3> DEFINE first == SubSeq(job[s].rest, 1, m)
    <3>6. /\ SubSeq(asked.argv, 1, n) \o first = SubSeq(asked.argv, 1, n + m)
          /\ job'[s].rest = SubSeq(asked.argv, n + m + 1, Len(asked.argv))
      BY <1>2, <2>1, <3>2, <3>5, SentMore
    <3>7. init[s].got \o pipe'[s] = (init[s].got \o pipe[s]) \o first
      <4>1. init[s].got \in Seq(Tokens) /\ job[s].rest \in Seq(Tokens)
        BY <1>1 DEF InitType, JobType
      <4>2. m \in 0 .. Len(job[s].rest)
        BY <3>3, <3>5
      <4>3. first \in Seq(Tokens)
        BY <4>1, <4>2, Parts
      <4>4. pipe'[s] = pipe[s] \o first
        BY <2>1
      <4> HIDE DEF first, m
      <4>5. (init[s].got \o pipe[s]) \o first = init[s].got \o (pipe[s] \o first)
        BY <1>1, <4>1, <4>3, Joins
      <4> QED
        BY <4>4, <4>5
    <3>8. PICK k \in 0 .. Len(asked.argv) : k = n + m
      BY <1>2, <3>5
    <3>9. /\ init'[s].got \o pipe'[s] = SubSeq(asked.argv, 1, k)
          /\ job'[s].rest = SubSeq(asked.argv, k + 1, Len(asked.argv))
      BY <2>1, <3>1, <3>6, <3>7, <3>8 DEF Sent
    <3>10. Fits => k \in {0, Len(asked.argv)}
      <4> SUFFICES ASSUME Fits PROVE n + m = Len(asked.argv)
        BY <3>8
      <4>1. n = 0
        BY <1>2, <2>1, <3>1, <3>5 DEF Sent
      <4>2. init[s].got \o pipe[s] = <<>>
        BY <1>2, <3>1, <4>1, NothingSent DEF Sent
      <4>3. pipe[s] = <<>>
        BY <1>1, <4>2, ConcatSimplifications!concIsEmpty DEF InitType
      <4>4. Len(pipe[s]) = 0
        BY <4>3, EmptySeq
      <4> QED
        BY <1>2, <3>3, <3>4, <4>1, <4>4 DEF Fits, Least, Room
    <3>11. job'[s].pc \notin Preparing /\ job'[s].pc # "spawn" /\ init'[s].pc = "read"
      BY <2>1, <2>2 DEF Preparing
    <3> HIDE DEF m
    <3>12. Sent(s, k)'
      BY <1>3, <3>9, <3>10, <3>11, SentNow
    <3> QED
      BY <1>3, <3>11, <3>12 DEF FlowOf, Started
  <2>3. CASE init[s].pc # "read"
    <3> HIDE DEF m
    <3> QED
      BY <1>3, <2>1, <2>3 DEF FlowOf, Understood, Fits
  <2> QED
    BY <2>2, <2>3
<1>9. CASE Close(s) \/ Record(s) \/ Crash(s)
  <2>1. job'[s].pc \in {"record", "idle"} /\ UNCHANGED <<asked, pipe, init>>
    BY <1>1, <1>9 DEF Close, Record, Crash, To, TypeOK, NoJob, JobType
  <2> QED
    BY <2>1, FlowKept DEF Sending, Preparing
<1> QED
  BY <1>4, <1>5, <1>6, <1>7, <1>8, <1>9 DEF JobStep

LEMMA FlowProcess ==
  ASSUME TypeOK, TypeOK', NEW s \in Slots, FlowOf(s), Die(s) \/ InitStep(s)
  PROVE  FlowOf(s)'
<1>1. job[s] \in JobType /\ init[s] \in InitType /\ pipe[s] \in Seq(Tokens)
  BY DEF TypeOK
<1>2. asked.argv \in Seq(Tokens) /\ Len(asked.argv) \in Nat /\ init[s].got \in Seq(Tokens)
  BY <1>1, AskedTyped, LenProperties DEF TypeOK, InitType
<1>3. asked' = asked
  BY Elsewhere DEF Acts
<1>4. CASE Receive(s)
  <2>1. PICK n \in 0 .. Len(asked.argv) : Sent(s, n)
    BY <1>4 DEF Receive, FlowOf
  <2>2. PICK k \in 1 .. Len(pipe[s]) :
          /\ init' = [init EXCEPT ![s].got = @ \o SubSeq(pipe[s], 1, k)]
          /\ pipe' = [pipe EXCEPT ![s] = SubSeq(@, k + 1, Len(@))]
    BY <1>4 DEF Receive
  <2>3. /\ init'[s].got = init[s].got \o SubSeq(pipe[s], 1, k)
        /\ pipe'[s] = SubSeq(pipe[s], k + 1, Len(pipe[s]))
        /\ init'[s].pc = "read" /\ job' = job
    BY <1>1, <1>4, <2>2 DEF Receive, TypeOK, InitType
  <2>4. k \in 0 .. Len(pipe[s]) /\ Len(pipe[s]) \in Nat
    BY <1>1, LenProperties
  <2>5. SubSeq(pipe[s], 1, k) \o SubSeq(pipe[s], k + 1, Len(pipe[s])) = pipe[s]
    <3>1. /\ 1 \in 1 .. Len(pipe[s]) + 1 /\ k \in 1 - 1 .. Len(pipe[s])
          /\ Len(pipe[s]) \in k .. Len(pipe[s])
      BY <2>4
    <3>2. SubSeq(pipe[s], 1, k) \o SubSeq(pipe[s], k + 1, Len(pipe[s])) = SubSeq(pipe[s], 1, Len(pipe[s]))
      BY <1>1, <3>1, ConcatAdjacentSubSeq
    <3> QED
      BY <1>1, <3>2, SubSeqFull
  <2>6. SubSeq(pipe[s], 1, k) \in Seq(Tokens) /\ SubSeq(pipe[s], k + 1, Len(pipe[s])) \in Seq(Tokens)
    BY <1>1, <2>4, Parts
  <2>7. init'[s].got \o pipe'[s] = init[s].got \o pipe[s]
    <3> DEFINE a == SubSeq(pipe[s], 1, k)
               b == SubSeq(pipe[s], k + 1, Len(pipe[s]))
    <3>1. (init[s].got \o a) \o b = init[s].got \o (a \o b)
      BY <1>2, <2>6, Joins
    <3> QED
      BY <2>3, <2>5, <3>1
  <2>8. Sent(s, n)'
    BY <1>3, <2>1, <2>3, <2>7, SentNow DEF Sent
  <2>9. job'[s].pc # "spawn" /\ asked'.argv = asked.argv
    BY <1>3, <1>4, <2>3 DEF FlowOf, Receive
  <2>10. init'[s].pc = "read" /\ init'[s].pc \notin Started
    BY <2>3 DEF Started
  <2> QED
    BY <2>8, <2>9, <2>10 DEF FlowOf
<1>5. CASE Parse(s)
  <2>1. PICK n \in 0 .. Len(asked.argv) : Sent(s, n)
    BY <1>5 DEF Parse, FlowOf
  <2>2. init[s].got = SubSeq(asked.argv, 1, n)
    BY <1>2, <1>5, <2>1, ConcatEmptySeq DEF Sent, Parse
  <2>3. /\ job'[s] = job[s] /\ init[s].pc = "read"
        /\ \/ init'[s].pc = "none"
           \/ Parsed(init[s].got) # {} /\ init'[s].pc = "volume" /\ init'[s].argv = Parsed(init[s].got)
    BY <1>1, <1>5 DEF Parse, TypeOK, InitType, NoInit
  <2>4. ASSUME Parsed(init[s].got) # {}, init'[s].argv = Parsed(init[s].got) PROVE Understood(s)'
    <3>1. n # 0
      BY <1>2, <2>2, <2>4, NothingSent
    <3>2. CASE n = Len(asked.argv)
      BY <1>2, <1>3, <2>2, <2>4, <3>2, SubSeqFull DEF Understood
    <3>3. CASE n # Len(asked.argv)
      BY <1>2, <1>3, <2>1, <2>2, <2>4, <3>1, <3>3 DEF Understood, Sent, Fits
    <3> QED
      BY <3>2, <3>3
  <2> QED
    BY <2>3, <2>4 DEF FlowOf, Started
<1>6. CASE Prepare(s) \/ Seed(s) \/ Copy(s) \/ Copied(s) \/ Bind(s)
  <2>1. /\ init[s].pc \in {"volume", "seed", "copy", "copying", "bind"}
        /\ init'[s].pc \in {"volume", "seed", "copy", "copying", "bind"}
        /\ init'[s].argv = init[s].argv /\ job' = job
    BY <1>1, <1>6 DEF Prepare, Seed, Copy, Copied, Bind, TypeOK, InitType
  <2> QED
    BY <1>3, <2>1, FlowStarted DEF Started, InitPoints, FlowOf
<1>7. CASE MakePivotDir(s) \/ PivotRoot(s) \/ RemovePivotDir(s)
  BY <1>1, <1>7, FlowStarted
     DEF MakePivotDir, PivotRoot, RemovePivotDir, TypeOK, InitType, Started, InitPoints, FlowOf
<1>8. CASE Exec(s) \/ Die(s)
  BY <1>1, <1>3, <1>8, FlowStarted
     DEF Exec, Die, TypeOK, InitType, Started, InitPoints, NoInit, FlowOf
<1> QED
  BY <1>4, <1>5, <1>6, <1>7, <1>8 DEF InitStep

FlowInv == \A s \in Slots : FlowOf(s)

LEMMA FlowStep == TypeOK /\ TypeOK' /\ FlowInv /\ [Next]_vars => FlowInv'
<1> SUFFICES ASSUME TypeOK, TypeOK', FlowInv, [Next]_vars, NEW u \in Slots
             PROVE  FlowOf(u)'
  BY DEF FlowInv
<1>1. FlowOf(u)
  BY DEF FlowInv
<1>2. CASE UNCHANGED vars
  BY <1>1, <1>2 DEF vars, FlowOf, Sent, Understood, Fits
<1>3. ASSUME NEW s \in Slots, Acts(s) PROVE FlowOf(u)'
  <2>1. CASE u = s
    BY <1>1, <1>3, <2>1, FlowJob, FlowProcess DEF Acts
  <2>2. CASE u # s
    <3>1. asked' = asked /\ job'[u] = job[u] /\ init'[u] = init[u] /\ pipe'[u] = pipe[u]
      BY <1>3, <2>2, Elsewhere
    <3> QED
      BY <1>1, <3>1 DEF FlowOf, Sent, Understood, Fits
  <2> QED
    BY <2>1, <2>2
<1> QED
  BY <1>2, <1>3 DEF Next, Acts

-----------------------------------------------------------------------------
(* The set-up comes first. *)

SetUp(s) == link = Volumes /\ init[s].connected /\ init[s].groups = Joined(asked.bad)

\* What is done when the command of s is where it is; nothing is in the pipe
\* before everything is.
OrderOf(s) ==
  /\ job[s].pc \in {"limit", "connect", "send", "record"} => link = Volumes
  /\ job[s].pc = "spawn" => init[s].pc = "none" /\ (job[s].cmd # "run" => link = Volumes)
  /\ init[s].pc = "read" =>
       /\ job[s].pc \in {"connect", "send", "record"} => init[s].groups = Joined(asked.bad)
       /\ job[s].pc \in {"send", "record"} => init[s].connected
       /\ init[s].got # <<>> \/ pipe[s] # <<>> => SetUp(s)
  /\ init[s].pc \in Started => SetUp(s)

OrderInv ==
  /\ known = "recorded" => link = Volumes
  /\ \A s \in Slots : OrderOf(s)

\* Lines are only added to the link file, and a record is made after them.
LEMMA LinkStays ==
  ASSUME TypeOK, NEW s \in Slots, Acts(s), link = Volumes
  PROVE  link' = Volumes
<1>1. CASE Run(s) \/ Start(s) \/ JobStep(s) \/ Crash(s)
  BY <1>1, StartupAssumptions
     DEF TypeOK, FilesTyped, JobStep, Run, Start, Crash, Spawn, SetVolume, Limit, Connect,
         Send, Close, Record, files
<1>2. CASE InitStep(s) \/ Die(s)
  BY <1>2 DEF InitStep, Die, Receive, Parse, Prepare, Seed, Copy, Copied, Bind,
              MakePivotDir, PivotRoot, RemovePivotDir, Exec, files
<1> QED
  BY <1>1, <1>2 DEF Acts

LEMMA RecordedAfter ==
  ASSUME TypeOK, NEW s \in Slots, Acts(s), OrderOf(s), known' = "recorded"
  PROVE  known = "recorded" \/ link = Volumes
<1>1. CASE Run(s) \/ Start(s) \/ JobStep(s) \/ Crash(s)
  BY <1>1 DEF OrderOf, JobStep, Run, Start, Crash, Spawn, SetVolume, Limit, Connect, Send,
              Close, Record
<1>2. CASE InitStep(s) \/ Die(s)
  BY <1>2 DEF InitStep, Die, Receive, Parse, Prepare, Seed, Copy, Copied, Bind,
              MakePivotDir, PivotRoot, RemovePivotDir, Exec
<1> QED
  BY <1>1, <1>2 DEF Acts

LEMMA OrderJob ==
  ASSUME TypeOK, NEW s \in Slots, OrderInv,
         Run(s) \/ Start(s) \/ Crash(s) \/ JobStep(s)
  PROVE  OrderOf(s)'
<1>1. job[s] \in JobType /\ init[s] \in InitType /\ pipe[s] \in Seq(Tokens)
  BY DEF TypeOK
<1>2. asked' = asked /\ (link = Volumes => link' = Volumes)
  BY Elsewhere, LinkStays DEF Acts
<1>3. OrderOf(s)
  BY DEF OrderInv
<1>4. CASE Run(s) \/ Start(s)
  <2>1. /\ job'[s].pc = "spawn" /\ (job'[s].cmd # "run" => known = "recorded")
        /\ init'[s].pc = "none"
    BY <1>4 DEF Run, Start, Free, TypeOK
  <2> QED
    BY <1>2, <2>1 DEF OrderOf, OrderInv, Started
<1>5. CASE Spawn(s)
  <2>1. init[s].pc = "none" /\ (job[s].cmd # "run" => link = Volumes)
    BY <1>3, <1>5 DEF Spawn, OrderOf
  <2>2. /\ job'[s].pc \in {"idle", "link", "limit"}
        /\ job'[s].pc = "limit" => job[s].cmd # "run"
    BY <1>1, <1>5 DEF Spawn, To, TypeOK, NoJob, JobType
  <2>3. \/ init'[s].pc = "none"
        \/ init'[s].pc = "read" /\ init'[s].got = <<>> /\ pipe'[s] = <<>>
    BY <1>5, <2>1 DEF Spawn, TypeOK, NoInit
  <2> QED
    BY <1>2, <2>1, <2>2, <2>3 DEF OrderOf, Started
<1>6. CASE SetVolume(s)
  <2>1. /\ job'[s].pc \in {"link", "limit"} /\ (job'[s].pc = "limit" => link' = Volumes)
        /\ job[s].pc = "link" /\ init' = init /\ pipe' = pipe
    BY <1>1, <1>6, StartupAssumptions DEF SetVolume, To, TypeOK, FilesTyped, JobType
  <2> QED
    BY <1>2, <1>3, <2>1 DEF OrderOf, SetUp, Started
<1>7. CASE Limit(s)
  <2>1. /\ job'[s].pc = "connect" /\ job[s].pc = "limit"
        /\ link' = link /\ pipe' = pipe
    BY <1>1, <1>7 DEF Limit, To, TypeOK, JobType, files
  <2>2. \/ init[s].pc = "none" /\ init' = init
        \/ /\ init'[s].pc = init[s].pc /\ init'[s].got = init[s].got
           /\ init'[s].connected = init[s].connected /\ init'[s].groups = Joined(asked.bad)
    BY <1>1, <1>7 DEF Limit, Alive, TypeOK, InitType
  <2> QED
    BY <1>2, <1>3, <2>1, <2>2 DEF OrderOf, SetUp, Started
<1>8. CASE Connect(s)
  <2>1. /\ job'[s].pc = "send" /\ job[s].pc = "connect"
        /\ link' = link /\ pipe' = pipe
    BY <1>1, <1>8 DEF Connect, To, TypeOK, JobType, files
  <2>2. \/ init[s].pc = "none" /\ init' = init
        \/ /\ init'[s].pc = init[s].pc /\ init'[s].got = init[s].got
           /\ init'[s].connected /\ init'[s].groups = init[s].groups
    BY <1>1, <1>8 DEF Connect, Alive, TypeOK, InitType
  <2> QED
    BY <1>2, <1>3, <2>1, <2>2 DEF OrderOf, SetUp, Started
<1>9. CASE Send(s) \/ Close(s)
  <2>1. /\ job[s].pc = "send" /\ job'[s].pc \in {"send", "record"}
        /\ link' = link /\ init' = init
    BY <1>1, <1>9 DEF Send, Close, To, TypeOK, JobType, files
  <2> QED
    BY <1>2, <1>3, <2>1 DEF OrderOf, SetUp, Started
<1>10. CASE Record(s) \/ Crash(s)
  <2>1. job'[s].pc = "idle" /\ link' = link /\ init' = init /\ pipe' = pipe
    BY <1>10 DEF Record, Crash, TypeOK, NoJob, files
  <2> QED
    BY <1>2, <1>3, <2>1 DEF OrderOf, SetUp, Started
<1> QED
  BY <1>4, <1>5, <1>6, <1>7, <1>8, <1>9, <1>10 DEF JobStep

LEMMA OrderProcess ==
  ASSUME TypeOK, NEW s \in Slots, OrderInv, Die(s) \/ InitStep(s)
  PROVE  OrderOf(s)'
<1>1. init[s] \in InitType /\ pipe[s] \in Seq(Tokens)
  BY DEF TypeOK
<1>2. asked' = asked /\ job' = job /\ link' = link
  BY DEF InitStep, Die, Receive, Parse, Prepare, Seed, Copy, Copied, Bind,
         MakePivotDir, PivotRoot, RemovePivotDir, Exec, files
<1>3. OrderOf(s)
  BY DEF OrderInv
<1>4. CASE Receive(s)
  <2>1. /\ init[s].pc = "read" /\ init'[s].pc = "read"
        /\ init'[s].groups = init[s].groups /\ init'[s].connected = init[s].connected
    BY <1>1, <1>4 DEF Receive, TypeOK, InitType
  <2>2. pipe[s] # <<>>
    <3>1. Len(pipe[s]) # 0
      BY <1>1, <1>4, LenProperties DEF Receive
    <3> QED
      BY <3>1, EmptySeq
  <2> QED
    BY <1>2, <1>3, <2>1, <2>2 DEF OrderOf, SetUp, Started
<1>5. CASE Parse(s)
  <2>1. /\ init[s].pc = "read"
        /\ \/ init'[s].pc = "none"
           \/ /\ Parsed(init[s].got) # {} /\ init'[s].pc = "volume"
              /\ init'[s].groups = init[s].groups /\ init'[s].connected = init[s].connected
    BY <1>1, <1>5 DEF Parse, TypeOK, InitType, NoInit
  <2>2. Parsed(init[s].got) # {} => init[s].got # <<>>
    BY AskedTyped, NothingSent DEF TypeOK
  <2>3. init'[s].pc \in {"none", "volume"} /\ (init'[s].pc = "volume" => SetUp(s)')
    BY <1>2, <1>3, <2>1, <2>2 DEF OrderOf, SetUp
  <2> QED
    BY <1>2, <1>3, <2>1, <2>3 DEF OrderOf, Started
<1>6. ASSUME init[s].pc \in Started,
             \/ init'[s].pc = "none"
             \/ /\ init'[s].pc \in Started
                /\ init'[s].groups = init[s].groups /\ init'[s].connected = init[s].connected
      PROVE  OrderOf(s)'
  BY <1>2, <1>3, <1>6 DEF OrderOf, SetUp, Started, InitPoints
<1>7. CASE Prepare(s) \/ Seed(s) \/ Copy(s) \/ Copied(s) \/ Bind(s)
  BY <1>1, <1>6, <1>7 DEF Prepare, Seed, Copy, Copied, Bind, TypeOK, InitType, Started, InitPoints
<1>8. CASE MakePivotDir(s) \/ PivotRoot(s) \/ RemovePivotDir(s) \/ Exec(s)
  BY <1>1, <1>6, <1>8
     DEF MakePivotDir, PivotRoot, RemovePivotDir, Exec, TypeOK, InitType, NoInit,
         Started, InitPoints
<1>9. CASE Die(s)
  <2>1. init'[s].pc = "none" /\ pipe' = pipe
    BY <1>9 DEF Die, TypeOK, NoInit
  <2> QED
    BY <1>2, <1>3, <2>1 DEF OrderOf, Started
<1> QED
  BY <1>4, <1>5, <1>7, <1>8, <1>9 DEF InitStep

LEMMA OrderStep == TypeOK /\ OrderInv /\ [Next]_vars => OrderInv'
<1> SUFFICES ASSUME TypeOK, OrderInv, [Next]_vars PROVE OrderInv'
  OBVIOUS
<1>1. CASE UNCHANGED vars
  BY <1>1 DEF vars, files, OrderInv, OrderOf, SetUp
<1>2. ASSUME NEW s \in Slots, Acts(s) PROVE OrderInv'
  <2>1. (known = "recorded" => link = Volumes)'
    BY <1>2, LinkStays, RecordedAfter DEF OrderInv
  <2>2. OrderOf(s)'
    BY <1>2, OrderJob, OrderProcess DEF Acts
  <2>3. ASSUME NEW u \in Slots, u # s PROVE OrderOf(u)'
    <3>1. asked' = asked /\ job'[u] = job[u] /\ init'[u] = init[u] /\ pipe'[u] = pipe[u]
      BY <1>2, <2>3, Elsewhere
    <3>2. OrderOf(u) /\ (link = Volumes => link' = Volumes)
      BY <1>2, LinkStays DEF OrderInv
    <3> QED
      BY <3>1, <3>2 DEF OrderOf, SetUp
  <2> QED
    BY <2>1, <2>2, <2>3 DEF OrderInv
<1> QED
  BY <1>1, <1>2 DEF Next, Acts

-----------------------------------------------------------------------------
(* Volumes. *)

\* What the two paths of volume v have become: nothing that was there is gone
\* or of another kind, a missing path was made like the other, the user's data
\* is as it was, and only the guest's data was copied.
PathsOf(v) ==
  LET h == asked.host[v]
      g == asked.guest[v]
  IN
  /\ h # "absent" => host[v] # "absent" /\ (IsFile(host[v]) <=> IsFile(h))
  /\ g # "absent" => guest[v] # "absent" /\ (IsFile(guest[v]) <=> IsFile(g))
  /\ "absent" \in {h, g} =>
       \/ host[v] = h /\ guest[v] = g
       \/ /\ host[v] # "absent" /\ guest[v] # "absent"
          /\ IsFile(host[v]) <=> IsFile(guest[v])
  /\ h \in {"data", "file"} => host[v] = h
  /\ host[v] = "copied" => g = "data"
  /\ guest[v] = "data" => g = "data"

\* Where a process is with its volumes.
VolumesOf(s) ==
  LET i == init[s] IN
  /\ \A v \in AllVolumes :
       v < i.vol \/ (v = i.vol /\ i.pc \in AtVolume) =>
         host[v] # "absent" /\ guest[v] # "absent"
  /\ \A v \in AllVolumes :
       v < i.vol /\ v \notin i.bound => ~(IsFile(host[v]) <=> IsFile(guest[v]))
  /\ i.pc = "copy" => asked.host[i.vol] \notin {"data", "file"} /\ asked.guest[i.vol] = "data"
  /\ i.pc = "read" => i.vol = 1
  /\ i.pc \in {"pivot", "unmount", "exec", "running"} => i.vol = Volumes + 1

PathInv ==
  /\ \A v \in AllVolumes : PathsOf(v)
  /\ \A s \in Slots : VolumesOf(s)

\* What a step may do to a path that is there.
Stays(v) ==
  /\ host[v] # "absent" => host'[v] # "absent" /\ (IsFile(host'[v]) <=> IsFile(host[v]))
  /\ guest[v] # "absent" => guest'[v] # "absent" /\ (IsFile(guest'[v]) <=> IsFile(guest[v]))

LEMMA PathsKept ==
  ASSUME NEW v \in AllVolumes, PathsOf(v), asked' = asked, host'[v] = host[v], guest'[v] = guest[v]
  PROVE  PathsOf(v)' /\ Stays(v)
  BY DEF PathsOf, Stays

LEMMA PathsStep ==
  ASSUME TypeOK, NEW s \in Slots, PathInv, Acts(s), NEW v \in AllVolumes
  PROVE  PathsOf(v)' /\ Stays(v)
<1>1. asked' = asked /\ PathsOf(v) /\ VolumesOf(s)
  BY Elsewhere DEF PathInv
<1>2. host \in [AllVolumes -> PathKinds] /\ guest \in [AllVolumes -> FirstKinds]
  BY DEF TypeOK, FilesTyped
<1>3. asked.host[v] \in FirstKinds /\ asked.guest[v] \in FirstKinds
  BY AskedTyped DEF TypeOK
<1>4. CASE Prepare(s)
  <2>1. CASE v = init[s].vol
    <3>1. /\ guest'[v] = CheckPath(guest[v], IsFile(host[v]))
          /\ host'[v] = CheckPath(host[v], IsFile(guest[v]))
      BY <1>2, <1>4, <2>1 DEF Prepare
    <3> QED
      BY <1>1, <1>2, <1>3, <3>1 DEF PathsOf, Stays, CheckPath, IsFile, PathKinds, FirstKinds
  <2>2. CASE v # init[s].vol
    BY <1>1, <1>2, <1>4, <2>2, PathsKept DEF Prepare
  <2> QED
    BY <2>1, <2>2
<1>5. CASE Copy(s)
  <2>1. CASE host'[v] = host[v]
    BY <1>1, <1>5, <2>1, PathsKept DEF Copy
  <2>2. CASE host'[v] # host[v]
    <3>1. /\ v = init[s].vol /\ init[s].pc = "copy"
          /\ host'[v] = "copied" /\ guest'[v] = guest[v]
      BY <1>2, <1>5, <2>2 DEF Copy
    <3>2. asked.host[v] \in {"absent", "empty"} /\ asked.guest[v] = "data"
      BY <1>1, <1>3, <3>1 DEF VolumesOf, FirstKinds
    <3>3. guest[v] # "absent" /\ guest[v] # "file" /\ host[v] # "file"
      BY <1>1, <3>2 DEF PathsOf, IsFile
    <3> QED
      BY <1>1, <3>1, <3>2, <3>3 DEF PathsOf, Stays, IsFile
  <2> QED
    BY <2>1, <2>2
<1>6. CASE host' = host /\ guest' = guest
  BY <1>1, <1>6, PathsKept
<1>7. Prepare(s) \/ Copy(s) \/ (host' = host /\ guest' = guest)
  BY DEF Acts, Run, Start, Crash, Die, JobStep, InitStep, Spawn, SetVolume, Limit, Connect,
         Send, Close, Record, Receive, Parse, Seed, Copied, Bind, MakePivotDir, PivotRoot, RemovePivotDir,
         Exec, files
<1> QED
  BY <1>4, <1>5, <1>6, <1>7

\* A process that stays where it is among its volumes, or ends.
LEMMA VolumesKept ==
  ASSUME TypeOK, NEW s \in Slots, VolumesOf(s),
         asked' = asked, \A v \in AllVolumes : Stays(v),
         init'[s].vol = init[s].vol /\ init'[s].bound = init[s].bound,
         init'[s].pc \in AtVolume => init[s].pc \in AtVolume,
         init'[s].pc = "copy" => init[s].pc = "copy",
         init'[s].pc = "read" => init[s].pc = "read",
         init'[s].pc \in {"pivot", "unmount", "exec", "running"} =>
           init[s].pc \in {"pivot", "unmount", "exec", "running"}
  PROVE  VolumesOf(s)'
<1>1. (\A v \in AllVolumes :
         v < init[s].vol \/ (v = init[s].vol /\ init[s].pc \in AtVolume) =>
           host[v] # "absent" /\ guest[v] # "absent")'
  BY DEF VolumesOf, Stays
<1>2. (\A v \in AllVolumes :
         v < init[s].vol /\ v \notin init[s].bound => ~(IsFile(host[v]) <=> IsFile(guest[v])))'
  BY DEF VolumesOf, Stays
<1>3. (init[s].pc = "copy" =>
         asked.host[init[s].vol] \notin {"data", "file"} /\ asked.guest[init[s].vol] = "data")'
  BY DEF VolumesOf
<1> QED
  BY <1>1, <1>2, <1>3 DEF VolumesOf

LEMMA VolumesFirst ==
  ASSUME NEW s \in Slots, init'[s].vol = 1, init'[s].pc \in {"none", "read"}
  PROVE  VolumesOf(s)'
  BY StartupAssumptions DEF VolumesOf, AtVolume, AllVolumes

LEMMA VolumesStep ==
  ASSUME TypeOK, NEW s \in Slots, PathInv, OrderInv, Acts(s)
  PROVE  VolumesOf(s)'
<1>0. asked' = asked
  BY Elsewhere
<1>1. init[s] \in InitType /\ VolumesOf(s) /\ \A v \in AllVolumes : Stays(v)
  BY PathsStep DEF PathInv, TypeOK
<1>2. init[s].vol \in 1 .. Volumes + 1 /\ Volumes \in Nat
  BY <1>1, StartupAssumptions DEF InitType
<1>3. CASE Spawn(s) \/ Die(s)
  <2>1. init' = init \/ (init'[s].vol = 1 /\ init'[s].pc \in {"none", "read"})
    BY <1>3 DEF Spawn, Die, TypeOK, NoInit
  <2> QED
    BY <1>0, <1>1, <2>1, VolumesFirst, VolumesKept
<1>4. CASE Run(s) \/ Start(s) \/ Crash(s) \/ (JobStep(s) /\ ~Spawn(s)) \/ Receive(s)
  <2>1. /\ init'[s].vol = init[s].vol /\ init'[s].bound = init[s].bound
        /\ init'[s].pc = init[s].pc
    BY <1>1, <1>4 DEF Run, Start, Crash, JobStep, SetVolume, Limit, Connect, Send, Close,
                      Record, Receive, TypeOK, InitType
  <2> QED
    BY <1>0, <1>1, <2>1, VolumesKept
<1>5. CASE Parse(s)
  <2>1. CASE init'[s].pc = "none"
    BY <1>1, <1>5, <2>1, VolumesFirst DEF Parse, TypeOK, InitType, NoInit
  <2>2. CASE init'[s].pc # "none"
    <3>1. /\ init'[s].vol = init[s].vol /\ init'[s].bound = init[s].bound
          /\ init'[s].pc = "volume" /\ init[s].pc = "read"
      BY <1>1, <1>5, <2>2 DEF Parse, TypeOK, InitType, NoInit
    <3> QED
      BY <1>0, <1>1, <3>1, VolumesKept DEF AtVolume
  <2> QED
    BY <2>1, <2>2
<1>6. CASE Prepare(s)
  <2>1. /\ init'[s].vol = init[s].vol /\ init'[s].bound = init[s].bound
        /\ init'[s].pc = "seed" /\ init[s].vol \in AllVolumes
    BY <1>1, <1>2, <1>6 DEF Prepare, TypeOK, FilesTyped, InitType, AllVolumes
  <2>2. host'[init[s].vol] # "absent" /\ guest'[init[s].vol] # "absent"
    BY <1>6, <2>1 DEF Prepare, TypeOK, FilesTyped, CheckPath
  <2> QED
    BY <1>1, <2>1, <2>2 DEF VolumesOf, Stays, AtVolume
<1>7. CASE Seed(s) \/ Copy(s) \/ Copied(s)
  <2>1. /\ init'[s].vol = init[s].vol /\ init'[s].bound = init[s].bound
        /\ init'[s].pc \in {"copy", "copying", "bind"} /\ init[s].pc \in AtVolume
        /\ init[s].vol \in AllVolumes
    <3>1. init[s].pc \in AtVolume
      BY <1>7 DEF Seed, Copy, Copied, AtVolume
    <3>2. init[s].vol \in AllVolumes
      BY <3>1 DEF TypeOK
    <3>3. \E pc \in {"copy", "copying", "bind"} : init' = [init EXCEPT ![s].pc = pc]
      BY <1>7 DEF Seed, Copy, Copied
    <3> QED
      BY <1>1, <3>1, <3>2, <3>3 DEF TypeOK, InitType
  <2>2. ASSUME init'[s].pc = "copy"
        PROVE  asked.host[init[s].vol] \notin {"data", "file"} /\ asked.guest[init[s].vol] = "data"
    <3> DEFINE v == init[s].vol
    <3>1. Seed(s) /\ init[s].pc = "seed"
      BY <1>1, <1>7, <2>2 DEF Seed, Copy, Copied, TypeOK, InitType
    <3>2. host[v] = "empty" /\ guest[v] \notin {"file", "empty"}
      BY <1>1, <2>2, <3>1 DEF Seed, TypeOK, IsFile, IsEmptyDir
    <3>3. guest[v] \in FirstKinds /\ guest[v] # "absent" /\ PathsOf(v)
      BY <1>1, <2>1 DEF VolumesOf, TypeOK, FilesTyped, PathInv
    <3>4. guest[v] = "data"
      BY <3>2, <3>3 DEF FirstKinds
    <3> HIDE DEF v
    <3>5. asked.host[v] \notin {"data", "file"} /\ asked.guest[v] = "data"
      BY <3>2, <3>3, <3>4 DEF PathsOf
    <3> QED
      BY <3>5 DEF v
  <2> QED
    BY <1>0, <1>1, <2>1, <2>2 DEF VolumesOf, Stays, AtVolume
<1>8. CASE Bind(s)
  <2> DEFINE v == init[s].vol
  <2>1. /\ init'[s].vol = v + 1 /\ init'[s].pc = "volume" /\ v \in AllVolumes
        /\ init[s].bound \subseteq init'[s].bound
        /\ (IsFile(host[v]) <=> IsFile(guest[v])) => v \in init'[s].bound
        /\ host' = host /\ guest' = guest /\ init[s].pc = "bind"
    BY <1>1, <1>8 DEF Bind, TypeOK, InitType, AtVolume, files, IsFile
  <2>2. \A u \in AllVolumes : u < v + 1 => u < v \/ u = v
    BY <2>1 DEF AllVolumes
  <2> HIDE DEF v
  <2>3. (\A u \in AllVolumes :
           u < init[s].vol \/ (u = init[s].vol /\ init[s].pc \in AtVolume) =>
             host[u] # "absent" /\ guest[u] # "absent")'
    BY <1>1, <2>1, <2>2 DEF VolumesOf, AtVolume, v
  <2>4. (\A u \in AllVolumes :
           u < init[s].vol /\ u \notin init[s].bound => ~(IsFile(host[u]) <=> IsFile(guest[u])))'
    BY <1>1, <2>1, <2>2 DEF VolumesOf, v
  <2> QED
    BY <2>1, <2>3, <2>4 DEF VolumesOf
<1>9. CASE MakePivotDir(s)
  <2>1. link = Volumes
    BY <1>9 DEF MakePivotDir, OrderInv, OrderOf, SetUp, Started, InitPoints
  <2>2. /\ init'[s].vol = init[s].vol /\ init'[s].bound = init[s].bound
        /\ init'[s].pc \in {"pivot", "exec"} /\ init[s].vol > link
    BY <1>1, <1>9 DEF MakePivotDir, TypeOK, InitType
  <2>3. init[s].vol = Volumes + 1
    BY <1>2, <2>1, <2>2
  <2> QED
    BY <1>1, <2>2, <2>3 DEF VolumesOf, Stays, AtVolume
<1>10. CASE PivotRoot(s) \/ RemovePivotDir(s) \/ Exec(s)
  <2>1. CASE init'[s].pc = "none"
    BY <1>1, <1>10, <2>1, VolumesFirst
       DEF PivotRoot, RemovePivotDir, Exec, TypeOK, InitType, NoInit
  <2>2. CASE init'[s].pc # "none"
    <3>1. /\ init'[s].vol = init[s].vol /\ init'[s].bound = init[s].bound
          /\ init'[s].pc \in {"unmount", "exec", "running"}
          /\ init[s].pc \in {"pivot", "unmount", "exec"}
      BY <1>1, <1>10, <2>2 DEF PivotRoot, RemovePivotDir, Exec, TypeOK, InitType, NoInit
    <3> QED
      BY <1>0, <1>1, <3>1, VolumesKept DEF AtVolume
  <2> QED
    BY <2>1, <2>2
<1> QED
  BY <1>3, <1>4, <1>5, <1>6, <1>7, <1>8, <1>9, <1>10 DEF Acts, JobStep, InitStep

LEMMA PathStep == TypeOK /\ PathInv /\ OrderInv /\ [Next]_vars => PathInv'
<1> SUFFICES ASSUME TypeOK, PathInv, OrderInv, [Next]_vars PROVE PathInv'
  OBVIOUS
<1>1. CASE UNCHANGED vars
  BY <1>1 DEF vars, files, PathInv, PathsOf, VolumesOf
<1>2. ASSUME NEW s \in Slots, Acts(s) PROVE PathInv'
  <2>1. \A v \in AllVolumes : PathsOf(v)' /\ Stays(v)
    BY <1>2, PathsStep
  <2>2. VolumesOf(s)'
    BY <1>2, VolumesStep
  <2>3. ASSUME NEW u \in Slots, u # s PROVE VolumesOf(u)'
    <3>1. init'[u] = init[u] /\ asked' = asked
      BY <1>2, <2>3, Elsewhere
    <3> QED
      BY <2>1, <3>1, VolumesKept DEF PathInv
  <2> QED
    BY <2>1, <2>2, <2>3 DEF PathInv
<1> QED
  BY <1>1, <1>2 DEF Next, Acts

-----------------------------------------------------------------------------
(* The theorems. *)

\* At first no process has read, sent or set up anything.
LEMMA NothingYet ==
  ASSUME Init, NEW s \in Slots
  PROVE  /\ init[s].pc = "none" /\ init[s].vol = 1 /\ job[s].pc = "idle"
         /\ init[s].pc \notin Started \cup {"read"}
  BY DEF Init, NoInit, NoJob, Started, InitPoints

LEMMA FlowFirst == Init => FlowInv
  BY NothingYet DEF FlowInv, FlowOf

LEMMA OrderFirst == Init => OrderInv
<1> SUFFICES ASSUME Init PROVE OrderInv
  OBVIOUS
<1>1. known # "recorded"
  BY DEF Init
<1>2. \A s \in Slots : OrderOf(s)
  BY NothingYet DEF OrderOf
<1> QED
  BY <1>1, <1>2 DEF OrderInv

LEMMA PathFirst == Init => PathInv
<1> SUFFICES ASSUME Init PROVE PathInv
  OBVIOUS
<1>1. host = asked.host /\ guest = asked.guest /\ asked \in Requests
  BY DEF Init
<1>2. ASSUME NEW v \in AllVolumes PROVE PathsOf(v)
  <2>1. host[v] \in FirstKinds
    BY <1>1, AskedTyped
  <2> QED
    BY <1>1, <2>1 DEF PathsOf, FirstKinds
<1>3. ASSUME NEW s \in Slots PROVE VolumesOf(s)
  <2>1. init[s].pc = "none" /\ init[s].vol = 1
    BY <1>3, NothingYet
  <2> QED
    BY <2>1, StartupAssumptions DEF VolumesOf, AtVolume, AllVolumes
<1> QED
  BY <1>2, <1>3 DEF PathInv

\* Every variable of run, start and init keeps its type, and a process that is
\* busy with a volume is at one that was asked for.
THEOREM TypeCorrect == Spec => []TypeOK
<1>1. Init => TypeOK
  BY InitTyped
<1>2. TypeOK /\ [Next]_vars => TypeOK'
  BY TypeStep
<1> QED
  BY <1>1, <1>2, PTL DEF Spec

\* Whoever is killed when, readUserCmd gives init the whole command or, unless
\* the command is longer than the pipe, nothing.
THEOREM CommandWholeOrNothing == Spec => []AllOrNothing
<1>1. Init => FlowInv
  BY FlowFirst
<1>2. TypeOK /\ TypeOK' /\ FlowInv /\ [Next]_vars => FlowInv'
  BY FlowStep
<1>3. FlowInv => AllOrNothing
  BY DEF FlowInv, FlowOf, Understood, AllOrNothing
<1> QED
  BY <1>1, <1>2, <1>3, TypeCorrect, PTL DEF Spec

LEMMA OrderKept == Spec => []OrderInv
<1>1. Init => OrderInv
  BY OrderFirst
<1>2. TypeOK /\ OrderInv /\ [Next]_vars => OrderInv'
  BY OrderStep
<1> QED
  BY <1>1, <1>2, TypeCorrect, PTL DEF Spec

\* sendInitCommand comes after SetVolume, the control groups and Connect, so
\* that what was read from the pipe shows that they are done.
THEOREM CommandAfterSetUp == Spec => []SetUpFirst
<1>1. OrderInv => SetUpFirst
  <2> SUFFICES ASSUME OrderInv, NEW s \in Slots, init[s].pc \in Started
               PROVE  /\ link = Volumes /\ init[s].connected
                      /\ \A f \in Fields : Lost(f) \/ Subsystem[f] \in init[s].groups
    BY DEF SetUpFirst
  <2>1. SetUp(s)
    BY DEF OrderInv, OrderOf
  <2>2. \A f \in Fields : Lost(f) \/ Subsystem[f] \in Joined(asked.bad)
    BY DEF Lost, Joined, Subsystems
  <2>3. link = Volumes /\ init[s].connected /\ init[s].groups = Joined(asked.bad)
    BY <2>1 DEF SetUp
  <2> QED
    BY <2>2, <2>3
<1> QED
  BY <1>1, OrderKept, PTL

LEMMA PathsAlways == Spec => []PathInv
<1>1. Init => PathInv
  BY PathFirst
<1>2. TypeOK /\ PathInv /\ OrderInv /\ [Next]_vars => PathInv'
  BY PathStep
<1> QED
  BY <1>1, <1>2, TypeCorrect, OrderKept, PTL DEF Spec

\* MountBindVolume binds each volume whose two paths can be bound at all, before
\* the process changes its root: one that was missing was made to fit the other.
THEOREM VolumesFit == Spec => []VolumesSeen
<1>1. TypeOK /\ PathInv => VolumesSeen
  <2> SUFFICES ASSUME TypeOK, PathInv, NEW s \in Slots, NEW v \in AllVolumes,
                      init[s].pc = "running", init[s].root = "container", v \notin init[s].bound
               PROVE  /\ "absent" \notin {asked.host[v], asked.guest[v]}
                      /\ IsFile(asked.host[v]) # IsFile(asked.guest[v])
    BY DEF VolumesSeen
  <2>1. VolumesOf(s) /\ PathsOf(v)
    BY DEF PathInv
  <2>2. init[s].vol = Volumes + 1 /\ v < Volumes + 1
    BY <2>1, StartupAssumptions DEF VolumesOf, AllVolumes
  <2>3. ~(IsFile(host[v]) <=> IsFile(guest[v]))
    BY <2>1, <2>2 DEF VolumesOf
  <2>4. "absent" \notin {asked.host[v], asked.guest[v]}
    <3>1. ~("absent" \in {asked.host[v], asked.guest[v]} /\
            ~(host[v] = asked.host[v] /\ guest[v] = asked.guest[v]))
      BY <2>1, <2>3 DEF PathsOf
    <3>2. host[v] # "absent" /\ guest[v] # "absent"
      BY <2>1, <2>2 DEF VolumesOf
    <3> QED
      BY <3>1, <3>2
  <2>5. ~(asked.host[v] = "file" <=> asked.guest[v] = "file")
    BY <2>1, <2>3, <2>4 DEF PathsOf, IsFile
  <2>6. (asked.host[v] = "file") # (asked.guest[v] = "file")
    BY <2>5
  <2> QED
    BY <2>4, <2>6 DEF IsFile
<1> QED
  BY <1>1, TypeCorrect, PathsAlways, PTL

\* The copy in MountBindVolume never replaces what the user has on the host.
THEOREM HostDataSafe == Spec => []HostDataKept
<1>1. PathInv => HostDataKept
  BY DEF PathInv, PathsOf, HostDataKept
<1> QED
  BY <1>1, PathsAlways, PTL

=============================================================================

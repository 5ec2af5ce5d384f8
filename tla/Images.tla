------------------------------- MODULE Images --------------------------------
(***************************************************************************)
(* Images: how run finds the layers of an image and extracts the first of  *)
(* them, how commit makes a new layer and enters it in the index, and how  *)
(* "image ls" goes through the index.                                      *)
(*                                                                         *)
(* A layer is an archive until it is first run, and a directory from then  *)
(* on.  The index is one file, rewritten as a whole.  A step is one access *)
(* to a file or a directory.                                               *)
(***************************************************************************)
EXTENDS Naturals, Sequences, FiniteSets

CONSTANTS
  Users,       \* where commands are typed; each runs one at a time
  Refs,        \* what may be typed for an image: <<name>> or <<name, tag>>
  Last,        \* the tag "last"
  Base,        \* the layer that was installed by hand
  Ids,         \* bound: identifiers of layers that commits make
  Containers,  \* bound: containers
  MaxMishaps   \* bound: kinds of things that go wrong in one behaviour

Names == {r[1] : r \in Refs}
Tags == {r[2] : r \in {s \in Refs : Len(s) = 2}}

\* Nobody types the identifier of a layer: a new layer is run through the index.
ASSUME ImagesAssumptions ==
  /\ \A r \in Refs : r = <<r[1]>> \/ r = <<r[1], r[2]>>
  /\ Ids \cap ({Base} \cup Names \cup Tags) = {}

VARIABLES
  tars,    \* the archives: layer -> "none", "partial" or "whole"
  dirs,    \* the directories, likewise, or "spoilt": see Crash
  meta,    \* the layers with a file that says how to run them
  index,   \* the index: whether it is there, and the layers of each image
  boxes,   \* the workspace of each container
  proc,    \* the command each user is running
  seen     \* what has gone wrong so far

vars == <<tars, dirs, meta, index, boxes, proc, seen>>

-----------------------------------------------------------------------------
(* Data. *)

Layers == {Base} \cup Ids \cup Names \cup Tags

Extents == {"none", "partial", "whole"}

NoImages == [k \in {} |-> <<>>]

\* The name and the tag that a reference stands for.
Key(ref) == <<ref[1], IF Len(ref) = 2 THEN ref[2] ELSE Last>>

\* GetImageLower: the layers of an image, the newest first.  Without an index
\* that can be read the name alone stands for its layer; what the index does
\* not know is taken as it was typed, and a ":" separates layers.
LayersOf(i, ref) ==
  CASE i.state = "whole" /\ Key(ref) \in DOMAIN i.images -> i.images[Key(ref)]
    [] i.state = "whole" /\ Key(ref) \notin DOMAIN i.images -> ref
    [] OTHER -> <<ref[1]>>

NoBox == [state |-> "none", layers |-> <<>>]

Idle ==
  [pc |-> "idle", ref |-> <<>>, box |-> "none", given |-> FALSE, found |-> FALSE,
   id |-> Base, layers |-> <<>>, copy |-> NoImages, todo |-> {}]

Busy == {u \in Users : proc[u].pc # "idle"}

Continue(u, c) == proc' = [proc EXCEPT ![u] = c]
Goto(u, pc) == Continue(u, [proc[u] EXCEPT !.pc = pc])
Ends(u) == Continue(u, Idle)

Top(u) == proc[u].layers[1]

\* The runs whose tar is writing into the directory of layer l.
Writers(l) == {u \in Users : proc[u].pc = "extracting" /\ Top(u) = l}

Init ==
  /\ tars = [l \in Layers |-> IF l = Base THEN "whole" ELSE "none"]
  /\ dirs = [l \in Layers |-> "none"]
  /\ meta = {}
  /\ index = [state |-> "none", images |-> NoImages]
  /\ boxes = [b \in Containers |-> NoBox]
  /\ proc = [u \in Users |-> Idle]
  /\ seen = {}

-----------------------------------------------------------------------------
(* A command is typed. *)

Mishaps == {"overlap", "tar", "extract", "index"}

\* Bound: what has gone wrong may go wrong again, but for commands that overlap.
Allowed(tags) ==
  /\ Cardinality(seen \cup tags) <= MaxMishaps
  /\ "overlap" \in tags => "overlap" \notin seen

FreeBoxes == {b \in Containers : boxes[b] = NoBox} \ {proc[u].box : u \in Users}
FreeIds == Ids \ (meta \cup {proc[u].id : u \in Users})

Overlaps == IF Busy = {} THEN {} ELSE {"overlap"}

\* Containers and layers get random identifiers, which are taken to be new.
Type(u) ==
  /\ proc[u] = Idle
  /\ Allowed(Overlaps)
  /\ seen' = seen \cup Overlaps
  /\ \/ \E r \in Refs, b \in FreeBoxes, given \in BOOLEAN :
          Continue(u, [Idle EXCEPT !.pc = "meta", !.ref = r, !.box = b, !.given = given])
     \/ \E r \in Refs, b \in Containers, i \in FreeIds :
          /\ boxes[b].state = "recorded"
          /\ Continue(u, [Idle EXCEPT !.pc = "describe", !.ref = r, !.box = b, !.id = i])
     \/ Continue(u, [Idle EXCEPT !.pc = "list"])
  /\ UNCHANGED <<tars, dirs, meta, index, boxes>>

\* A container and its workspace are removed (module Container).
RemoveBox ==
  \E b \in Containers :
    /\ boxes[b].state = "recorded"
    /\ boxes' = [boxes EXCEPT ![b] = NoBox]
    /\ Allowed(Overlaps)
    /\ seen' = seen \cup Overlaps
    /\ UNCHANGED <<tars, dirs, meta, index, proc>>

-----------------------------------------------------------------------------
(* run, as far as NewWorkSpace and the command go. *)

\* GetImageMateDataInfoByName: is the image's own command known?
FindCommand(u) ==
  LET c == proc[u] IN
  /\ c.pc = "meta"
  /\ Continue(u, [c EXCEPT !.pc = "resolve", !.found = LayersOf(index, c.ref)[1] \in meta])
  /\ UNCHANGED <<tars, dirs, meta, index, boxes, seen>>

Resolve(u) ==
  /\ proc[u].pc = "resolve"
  /\ Continue(u, [proc[u] EXCEPT !.pc = "finddir", !.layers = LayersOf(index, proc[u].ref)])
  /\ UNCHANGED <<tars, dirs, meta, index, boxes, seen>>

\* CreateReadOnlyLayer, for the newest layer only.  A directory that exists is
\* taken for the layer.
FindDir(u) ==
  /\ proc[u].pc = "finddir"
  /\ Goto(u, IF dirs[Top(u)] = "none" THEN "findtar" ELSE "mount")
  /\ UNCHANGED <<tars, dirs, meta, index, boxes, seen>>

FindTar(u) ==
  /\ proc[u].pc = "findtar"
  /\ IF tars[Top(u)] = "none" THEN Ends(u) ELSE Goto(u, "mkdir")
  /\ UNCHANGED <<tars, dirs, meta, index, boxes, seen>>

\* A bug: the directory is made, and nothing is extracted.
MakeDir_Only(u) ==
  /\ proc[u].pc = "mkdir"
  /\ dirs' = [dirs EXCEPT ![Top(u)] = IF @ = "none" THEN "partial" ELSE @]
  /\ Goto(u, "mount")
  /\ UNCHANGED <<tars, meta, index, boxes, seen>>

MakeDir(u) ==
  /\ proc[u].pc = "mkdir"
  /\ dirs' = [dirs EXCEPT ![Top(u)] = IF @ = "none" THEN "partial" ELSE @]
  /\ Goto(u, "extract")
  /\ UNCHANGED <<tars, meta, index, boxes, seen>>

\* A bug: tar is started and not waited for.
Extract_NoWait(u) ==
  LET l == Top(u) IN
  /\ proc[u].pc = "extract"
  /\ IF tars[l] = "none"
       THEN Ends(u) /\ UNCHANGED dirs
       ELSE dirs' = [dirs EXCEPT ![l] = "partial"] /\ Goto(u, "droptar")
  /\ UNCHANGED <<tars, meta, index, boxes, seen>>

\* tar -x opens the archive and begins to write, also into a directory that
\* another run has made whole: a file that is there is unlinked and made anew.
Extract(u) ==
  LET l == Top(u) IN
  /\ proc[u].pc = "extract"
  /\ IF tars[l] = "none"
       THEN Ends(u) /\ UNCHANGED dirs
       ELSE dirs' = [dirs EXCEPT ![l] = "partial"] /\ Goto(u, "extracting")
  /\ UNCHANGED <<tars, meta, index, boxes, seen>>

\* tar ends.  It reads on in an archive that was deleted meanwhile; one that is
\* cut short gives an error, and what is in the directory stays.  The directory
\* is whole when no other tar is at work in it.
Extracted(u) ==
  LET l == Top(u) IN
  /\ proc[u].pc = "extracting"
  /\ IF tars[l] = "partial"
       THEN Ends(u) /\ UNCHANGED dirs
       ELSE /\ Goto(u, "droptar")
            /\ \/ Writers(l) = {u} /\ dirs' = [dirs EXCEPT ![l] = "whole"]
               \/ (Writers(l) # {u} \/ dirs[l] = "spoilt") /\ UNCHANGED dirs
  /\ UNCHANGED <<tars, meta, index, boxes, seen>>

DropTar(u) ==
  /\ proc[u].pc = "droptar"
  /\ tars' = [tars EXCEPT ![Top(u)] = "none"]
  /\ Goto(u, "mount")
  /\ UNCHANGED <<dirs, meta, index, boxes, seen>>

\* CreateMountPointWithOverlay2: the kernel refuses a layer without directory.
Mount(u) ==
  LET c == proc[u] IN
  /\ c.pc = "mount"
  /\ IF \A n \in DOMAIN c.layers : dirs[c.layers[n]] # "none"
       THEN /\ boxes' = [boxes EXCEPT ![c.box] = [state |-> "mounted", layers |-> c.layers]]
            /\ Goto(u, "start")
       ELSE Ends(u) /\ UNCHANGED boxes
  /\ UNCHANGED <<tars, dirs, meta, index, seen>>

\* The process is started; cmdList[0] panics when there is no command, and the
\* workspace has no record then.
Start(u) ==
  LET c == proc[u] IN
  /\ c.pc = "start"
  /\ boxes' = IF c.given \/ c.found
                THEN [boxes EXCEPT ![c.box].state = "recorded"] ELSE boxes
  /\ Ends(u)
  /\ UNCHANGED <<tars, dirs, meta, index, seen>>

-----------------------------------------------------------------------------
(* CommitContainer. *)

\* A bug: an image that has no command of its own is not described.
Describe_Later(u) ==
  /\ proc[u].pc = "describe"
  /\ Goto(u, "lower")
  /\ UNCHANGED <<tars, dirs, meta, index, boxes, seen>>

\* recordImageMateDataInfo, with an identifier of its own.
Describe(u) ==
  /\ proc[u].pc = "describe"
  /\ meta' = meta \cup {proc[u].id}
  /\ Goto(u, "lower")
  /\ UNCHANGED <<tars, dirs, index, boxes, seen>>

\* The layers below are those of the container's workspace.
ReadLower(u) ==
  LET c == proc[u] IN
  /\ c.pc = "lower"
  /\ Continue(u, IF boxes[c.box] = NoBox THEN Idle
                 ELSE [c EXCEPT !.pc = "pack", !.layers = <<c.id>> \o boxes[c.box].layers])
  /\ UNCHANGED <<tars, dirs, meta, index, boxes, seen>>

\* A bug: tar runs on its own, and may not come to it.
Pack_Background(u) ==
  /\ proc[u].pc = "pack"
  /\ \/ tars' = [tars EXCEPT ![proc[u].id] = "whole"]
     \/ UNCHANGED tars
  /\ Goto(u, "readindex")
  /\ UNCHANGED <<dirs, meta, index, boxes, seen>>

Pack(u) ==
  /\ proc[u].pc = "pack"
  /\ tars' = [tars EXCEPT ![proc[u].id] = "partial"]
  /\ Goto(u, "packed")
  /\ UNCHANGED <<dirs, meta, index, boxes, seen>>

\* An error of tar is only logged.
Packed(u) ==
  LET c == proc[u] IN
  /\ c.pc = "packed"
  /\ \/ /\ boxes[c.box] # NoBox
        /\ tars' = [tars EXCEPT ![c.id] = "whole"]
        /\ UNCHANGED seen
     \/ /\ Allowed({"tar"})
        /\ seen' = seen \cup {"tar"}
        /\ UNCHANGED tars
  /\ Goto(u, "readindex")
  /\ UNCHANGED <<dirs, meta, index, boxes>>

\* recordImageInfo: an index that does not parse ends it, and stays.
ReadIndex(u) ==
  LET c == proc[u] IN
  /\ c.pc = "readindex"
  /\ Continue(u, IF index.state = "torn" THEN Idle
                 ELSE [c EXCEPT !.pc = "truncate", !.copy = index.images])
  /\ UNCHANGED <<tars, dirs, meta, index, boxes, seen>>

Truncate(u) ==
  /\ proc[u].pc = "truncate"
  /\ index' = [state |-> "torn", images |-> NoImages]
  /\ Goto(u, "write")
  /\ UNCHANGED <<tars, dirs, meta, boxes, seen>>

\* The copy with the new image in it.
Entered(c) ==
  [k \in DOMAIN c.copy \cup {Key(c.ref)} |->
     IF k = Key(c.ref) THEN c.layers ELSE c.copy[k]]

\* A bug: the index holds the new image only.
WriteIndex_Alone(u) ==
  LET c == proc[u] IN
  /\ c.pc = "write"
  /\ index' = [state |-> "whole", images |-> [k \in {Key(c.ref)} |-> c.layers]]
  /\ Ends(u)
  /\ UNCHANGED <<tars, dirs, meta, boxes, seen>>

WriteIndex(u) ==
  /\ proc[u].pc = "write"
  /\ index' = [state |-> "whole", images |-> Entered(proc[u])]
  /\ Ends(u)
  /\ UNCHANGED <<tars, dirs, meta, boxes, seen>>

-----------------------------------------------------------------------------
(* listImage, and getImageSize for each layer of each image. *)

ReadList(u) ==
  /\ proc[u].pc = "list"
  /\ Continue(u, [proc[u] EXCEPT !.pc = "size",
        !.todo = UNION {{index.images[k][n] : n \in DOMAIN index.images[k]} :
                         k \in DOMAIN index.images}])
  /\ UNCHANGED <<tars, dirs, meta, index, boxes, seen>>

\* The directory is looked for first, then the archive.
Size(u) ==
  LET c == proc[u] IN
  /\ c.pc = "size"
  /\ \/ /\ c.todo = {} /\ Ends(u)
     \/ \E l \in c.todo :
          IF dirs[l] # "none"
            THEN Continue(u, [c EXCEPT !.todo = @ \ {l}])
            ELSE Continue(u, [c EXCEPT !.pc = "sizetar", !.id = l, !.todo = @ \ {l}])
  /\ UNCHANGED <<tars, dirs, meta, index, boxes, seen>>

\* The size of an archive that is not there is asked of a nil pointer.
SizePanics(u) == proc[u].pc = "sizetar" /\ tars[proc[u].id] = "none"

SizeTar(u) ==
  LET c == proc[u] IN
  /\ c.pc = "sizetar"
  /\ Continue(u, IF SizePanics(u) THEN Idle ELSE [c EXCEPT !.pc = "size", !.id = Base])
  /\ UNCHANGED <<tars, dirs, meta, index, boxes, seen>>

-----------------------------------------------------------------------------
\* A command is killed: in an extraction that has begun, or when the index was
\* truncated and not yet written, or elsewhere.
CutShort(c) ==
  CASE c.pc \in {"extract", "extracting"} -> {"extract"}
    [] c.pc = "write" -> {"index"}
    [] OTHER -> {}

\* A tar that is killed can spoil what another one wrote before into the same
\* directory.  (A tar that outlives its command is a command killed later.)
Crash(u) ==
  LET l == Top(u) IN
  /\ u \in Busy
  /\ Allowed(CutShort(proc[u]))
  /\ seen' = seen \cup CutShort(proc[u])
  /\ dirs' = IF proc[u].pc = "extracting" /\ Writers(l) # {u}
               THEN [dirs EXCEPT ![l] = "spoilt"] ELSE dirs
  /\ Ends(u)
  /\ UNCHANGED <<tars, meta, index, boxes>>

Step(u) ==
  \/ FindCommand(u) \/ Resolve(u) \/ FindDir(u) \/ FindTar(u) \/ MakeDir(u)
  \/ Extract(u) \/ Extracted(u) \/ DropTar(u) \/ Mount(u) \/ Start(u)
  \/ Describe(u) \/ ReadLower(u) \/ Pack(u) \/ Packed(u)
  \/ ReadIndex(u) \/ Truncate(u) \/ WriteIndex(u)
  \/ ReadList(u) \/ Size(u) \/ SizeTar(u)

Next ==
  \/ \E u \in Users : Type(u) \/ Step(u) \/ Crash(u)
  \/ RemoveBox

Spec == Init /\ [][Next]_vars

-----------------------------------------------------------------------------
(* Types. *)

\* The points of a run that knows its layers, and of a commit that does.
Running ==
  {"finddir", "findtar", "mkdir", "extract", "extracting", "droptar", "mount", "start"}
Packing == {"pack", "packed", "readindex", "truncate", "write"}

\* The points of a command on a container.
Boxed == Running \cup Packing \cup {"meta", "resolve", "describe", "lower"}

Stacks == Seq(Layers) \ {<<>>}
Keys == {Key(r) : r \in Refs}
IsImages(f) == DOMAIN f \subseteq Keys /\ f \in [DOMAIN f -> Stacks]

IsIndex(i) == IsImages(i.images) /\ i \in [state : {"none", "torn", "whole"}, images : {i.images}]

BoxType == [state : {"none", "mounted", "recorded"}, layers : Seq(Layers)]

IsCommand(c) ==
  /\ IsImages(c.copy)
  /\ c \in [pc : Boxed \cup {"idle", "list", "size", "sizetar"}, ref : Refs \cup {<<>>},
            box : Containers \cup {"none"}, given : BOOLEAN, found : BOOLEAN, id : Layers,
            layers : Seq(Layers), copy : {c.copy}, todo : SUBSET Layers]
  /\ c.pc \in Boxed => c.ref \in Refs /\ c.box \in Containers
  /\ c.pc \in Running \cup Packing => c.layers # <<>>
  /\ c.pc \in Packing \cup {"describe", "lower"} => c.id \in Ids

TypeOK ==
  /\ tars \in [Layers -> Extents] /\ dirs \in [Layers -> Extents \cup {"spoilt"}]
  /\ meta \subseteq Ids
  /\ IsIndex(index)
  /\ boxes \in [Containers -> BoxType]
  /\ proc = [u \in Users |-> proc[u]] /\ \A u \in Users : IsCommand(proc[u])
  /\ seen \subseteq Mishaps

-----------------------------------------------------------------------------
(* Properties. *)

\* Every layer of f is an archive or a directory.
Available(f) ==
  \A k \in DOMAIN f : \A n \in DOMAIN f[k] :
    tars[f[k][n]] # "none" \/ dirs[f[k][n]] # "none"

\* Whatever overlaps or is killed, every image of the index can be run: its
\* layers exist (a layer is packed before its image is entered, its directory is
\* made before its archive is deleted, and the layers below it are directories
\* by then), and its newest layer has the file that says how to run it, so run
\* needs no command.
IndexedUsable ==
  /\ Available(index.images)
  /\ \A k \in DOMAIN index.images : index.images[k][1] \in meta

\* While no extraction and no archive is cut short, and commands do not
\* overlap, no container runs on a layer that was extracted in part, though
\* only the newest layer is ever looked at (volume.go 228-282).
RunsOnWholeLayers ==
  seen \cap {"overlap", "extract", "tar"} = {} =>
    \A b \in Containers : \A n \in DOMAIN boxes[b].layers :
      dirs[boxes[b].layers[n]] = "whole"

\* A layer of an image is lost only when tar fails to pack it, or when commands
\* overlap and an extraction is cut short as well: whatever is killed as long as
\* nothing overlaps, and whatever overlaps as long as no extraction is killed,
\* it is whole as an archive or as a directory, or a tar is at work on it
\* (volume.go 257-273 deletes the archive that another run may still be reading).
NothingLost ==
  "tar" \in seen \/ {"overlap", "extract"} \subseteq seen \/
    \A l \in {Base} \cup UNION {{index.images[k][n] : n \in DOMAIN index.images[k]} :
                                  k \in DOMAIN index.images} :
      tars[l] = "whole" \/ dirs[l] = "whole" \/ Writers(l) # {}

\* "image ls" alone finds every layer of the index, and does not panic; it can
\* while a run extracts a layer, between its two looks.
ListsAlone == [][\A u \in Users : SizeTar(u) /\ SizePanics(u) => "overlap" \in seen]_vars

Entries(f) == {<<k, f[k]>> : k \in DOMAIN f}

\* What the index holds, or the command that is rewriting it.
Held ==
  IF index.state # "torn" THEN Entries(index.images)
  ELSE UNION {Entries(Entered(proc[u])) : u \in {v \in Users : proc[v].pc = "write"}}

\* Commits that neither overlap nor are killed while they write keep every
\* image as it is, but for the one that they make anew.
ImagesAccumulate ==
  [][seen' \cap {"overlap", "index"} = {} =>
       \A e \in Held :
         \/ e \in Held'
         \/ \E u \in Users : /\ Truncate(u) /\ Key(proc[u].ref) = e[1]
                             /\ <<e[1], proc[u].layers>> \in Held']_vars

=============================================================================

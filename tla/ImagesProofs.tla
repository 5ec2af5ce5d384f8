---------------------------- MODULE ImagesProofs ----------------------------
(***************************************************************************)
(* Theorems about Images, for any number of users, images, layers and      *)
(* containers, whatever overlaps or is killed.                             *)
(***************************************************************************)
EXTENDS Images, SequenceTheorems, TLAPS

-----------------------------------------------------------------------------
(* Data. *)

Points == Boxed \cup {"idle", "list", "size", "sizetar"}

LEMMA RefTyped ==
  ASSUME NEW r \in Refs
  PROVE  /\ r \in Stacks
         /\ r[1] \in Names
         /\ \A n \in DOMAIN r : r[n] \in Names \cup Tags
         /\ Key(r) \in Keys
<1>1. r[1] \in Names /\ Key(r) \in Keys
  BY DEF Names, Keys
<1>2. CASE r = <<r[1]>>
  <2> DEFINE x == r[1]
  <2>1. <<x>> \in Seq({x}) /\ <<x>> # <<>> /\ \A n \in DOMAIN <<x>> : <<x>>[n] = x
    OBVIOUS
  <2>2. x \in Names /\ x \in Layers /\ r = <<x>>
    BY <1>1, <1>2 DEF Layers
  <2> HIDE DEF x
  <2>3. <<x>> \in Seq(Layers)
    BY <2>2
  <2> QED
    BY <1>1, <2>1, <2>2, <2>3 DEF Stacks
<1>3. CASE r = <<r[1], r[2]>>
  <2> DEFINE x == r[1]
             y == r[2]
  <2>1. r = <<x, y>>
    BY <1>3
  <2>2. Len(r) = 2
    BY <2>1
  <2>3. y \in Tags
    BY <2>2 DEF Tags
  <2>4. x \in Names /\ x \in Layers /\ y \in Layers
    BY <1>1, <2>3 DEF Layers
  <2> HIDE DEF x, y
  <2>5. <<x, y>> \in Seq(Layers) /\ <<x, y>> # <<>>
    BY <2>4
  <2>6. \A n \in DOMAIN <<x, y>> : <<x, y>>[n] \in {x, y}
    OBVIOUS
  <2> QED
    BY <1>1, <2>1, <2>3, <2>4, <2>5, <2>6 DEF Stacks
<1> QED
  BY <1>2, <1>3, ImagesAssumptions

LEMMA StackTyped ==
  ASSUME NEW q \in Stacks
  PROVE  q \in Seq(Layers) /\ q # <<>> /\ 1 \in DOMAIN q /\ \A n \in DOMAIN q : q[n] \in Layers
<1>1. q \in Seq(Layers) /\ q # <<>>
  BY DEF Stacks
<1>2. Len(q) \in Nat \ {0} /\ DOMAIN q = 1 .. Len(q)
  BY <1>1, EmptySeq, LenProperties
<1> QED
  BY <1>1, <1>2, ElementOfSeq

\* A layer on top of others.
LEMMA OnTop ==
  ASSUME NEW x \in Layers, NEW q \in Seq(Layers)
  PROVE  /\ <<x>> \o q \in Stacks
         /\ (<<x>> \o q)[1] = x
         /\ \A n \in DOMAIN (<<x>> \o q) :
              n = 1 \/ \E m \in DOMAIN q : (<<x>> \o q)[n] = q[m]
<1> DEFINE t == <<x>> \o q
<1>1. <<x>> \in Seq(Layers) /\ Len(<<x>>) = 1
  OBVIOUS
<1>2. Len(q) \in Nat /\ DOMAIN q = 1 .. Len(q)
  BY LenProperties
<1>3. /\ t \in Seq(Layers) /\ Len(t) = 1 + Len(q)
      /\ \A i \in 1 .. 1 + Len(q) : t[i] = IF i <= 1 THEN <<x>>[i] ELSE q[i - 1]
  BY <1>1, ConcatProperties
<1>4. DOMAIN t = 1 .. 1 + Len(q)
  BY <1>3, LenProperties
<1>5. t[1] = x
  BY <1>2, <1>3
<1>6. \A n \in 2 .. 1 + Len(q) : n - 1 \in DOMAIN q /\ t[n] = q[n - 1]
  BY <1>2, <1>3
<1>7. t # <<>>
  BY <1>2, <1>3
<1> HIDE DEF t
<1>8. \A n \in DOMAIN t : n = 1 \/ n \in 2 .. 1 + Len(q)
  BY <1>2, <1>4
<1>9. \A n \in DOMAIN t : n = 1 \/ \E m \in DOMAIN q : t[n] = q[m]
  BY <1>6, <1>8
<1> QED
  BY <1>3, <1>5, <1>7, <1>9 DEF t, Stacks

LEMMA LayersTyped ==
  ASSUME NEW i, IsIndex(i), NEW r \in Refs
  PROVE  LayersOf(i, r) \in Stacks
<1>1. r \in Stacks /\ <<r[1]>> \in Stacks
  BY RefTyped DEF Stacks, Layers
<1>2. Key(r) \in DOMAIN i.images => i.images[Key(r)] \in Stacks
  BY DEF IsIndex, IsImages
<1> QED
  BY <1>1, <1>2 DEF LayersOf

LEMMA NoImagesTyped == IsImages(NoImages)
  BY DEF IsImages, NoImages

LEMMA IdleTyped == IsCommand(Idle)
<1>1. Base \in Layers /\ <<>> \in Seq(Layers)
  BY DEF Layers
<1>2. Idle.copy = NoImages /\ Idle.pc = "idle"
  BY DEF Idle
<1>3. Idle.pc \notin Boxed \cup Running \cup Packing
  BY <1>2 DEF Boxed, Running, Packing
<1>4. Idle \in [pc : Points, ref : Refs \cup {<<>>}, box : Containers \cup {"none"},
                given : BOOLEAN, found : BOOLEAN, id : Layers, layers : Seq(Layers),
                copy : {Idle.copy}, todo : SUBSET Layers]
  BY <1>1 DEF Idle, Points
<1> QED
  BY <1>2, <1>3, <1>4, NoImagesTyped DEF IsCommand, Points

LEMMA EnteredTyped ==
  ASSUME NEW c, IsCommand(c), c.pc = "write"
  PROVE  IsImages(Entered(c))
<1>1. Key(c.ref) \in Keys /\ c.layers \in Stacks
  BY RefTyped DEF IsCommand, Boxed, Packing, Stacks
<1>2. DOMAIN c.copy \subseteq Keys /\ \A k \in DOMAIN c.copy : c.copy[k] \in Stacks
  BY DEF IsCommand, IsImages
<1> QED
  BY <1>1, <1>2 DEF Entered, IsImages

-----------------------------------------------------------------------------
(* Types. *)

Moves(u) == Type(u) \/ Step(u) \/ Crash(u)

\* A step of one user leaves the others alone.
LEMMA Others ==
  ASSUME TypeOK, NEW u \in Users, Moves(u)
  PROVE  /\ proc' = [v \in Users |-> proc'[v]]
         /\ \A v \in Users : v # u => proc'[v] = proc[v]
<1>1. \A c : Continue(u, c) =>
        /\ proc' = [v \in Users |-> proc'[v]]
        /\ \A v \in Users : v # u => proc'[v] = proc[v]
  BY DEF Continue, TypeOK
<1>2. \E c : Continue(u, c)
  BY DEF Moves, Step, Type, Crash, FindCommand, Resolve, FindDir, FindTar, MakeDir, Extract,
         Extracted, DropTar, Mount, Start, Describe, ReadLower, Pack, Packed, ReadIndex, Truncate,
         WriteIndex, ReadList, Size, SizeTar, Goto, Ends
<1> QED
  BY <1>1, <1>2

LEMMA Becomes ==
  ASSUME TypeOK, NEW u \in Users, NEW c, Continue(u, c)
  PROVE  proc'[u] = c
  BY DEF Continue, TypeOK

LEMMA Goes ==
  ASSUME NEW c, IsCommand(c), NEW pc \in Points,
         pc \in Boxed => c.pc \in Boxed,
         pc \in Running \cup Packing => c.layers # <<>>,
         pc \in Packing \cup {"describe", "lower"} => c.id \in Ids
  PROVE  IsCommand([c EXCEPT !.pc = pc])
<1> DEFINE d == [c EXCEPT !.pc = pc]
<1>1. /\ d.pc = pc /\ d.ref = c.ref /\ d.box = c.box /\ d.layers = c.layers
      /\ d.copy = c.copy /\ d.id = c.id
      /\ d \in [pc : Points, ref : Refs \cup {<<>>}, box : Containers \cup {"none"},
                given : BOOLEAN, found : BOOLEAN, id : Layers, layers : Seq(Layers),
                copy : {c.copy}, todo : SUBSET Layers]
  BY DEF IsCommand, Points
<1> HIDE DEF d
<1>2. IsCommand(d)
  BY <1>1 DEF IsCommand, Points
<1> QED
  BY <1>2 DEF d

LEMMA GoesOn ==
  ASSUME TypeOK, NEW u \in Users, NEW pc \in Points, Goto(u, pc),
         pc \in Boxed => proc[u].pc \in Boxed,
         pc \in Running \cup Packing => proc[u].layers # <<>>,
         pc \in Packing \cup {"describe", "lower"} => proc[u].id \in Ids
  PROVE  IsCommand(proc'[u]) /\ proc'[u] = [proc[u] EXCEPT !.pc = pc]
<1>1. proc'[u] = [proc[u] EXCEPT !.pc = pc]
  BY Becomes DEF Goto
<1>2. IsCommand(proc[u])
  BY DEF TypeOK
<1> QED
  BY <1>1, <1>2, Goes

LEMMA EndsIdle ==
  ASSUME TypeOK, NEW u \in Users, Ends(u)
  PROVE  IsCommand(proc'[u]) /\ proc'[u] = Idle
  BY Becomes, IdleTyped DEF Ends

\* What the points have in common.
LEMMA PointSets ==
  /\ Running \cup Packing \subseteq Boxed /\ Boxed \subseteq Points
  /\ {"idle", "list", "size", "sizetar"} \subseteq Points \ Boxed
  /\ {"meta", "resolve", "describe", "lower"} \subseteq Boxed
  /\ Running \cap (Packing \cup {"describe", "lower"}) = {}
  BY DEF Boxed, Points, Running, Packing

LEMMA CommandOfType ==
  ASSUME TypeOK, NEW u \in Users
  PROVE  /\ proc[u].id \in Layers /\ proc[u].layers \in Seq(Layers)
         /\ proc[u].todo \subseteq Layers /\ IsImages(proc[u].copy)
         /\ proc[u].pc \in Boxed => proc[u].ref \in Refs /\ proc[u].box \in Containers
         /\ proc[u].pc \in Running \cup Packing => proc[u].layers \in Stacks
         /\ proc[u].pc \in Packing \cup {"describe", "lower"} => proc[u].id \in Ids
  BY DEF TypeOK, IsCommand, Stacks

LEMMA TypedCommand ==
  ASSUME TypeOK, NEW u \in Users, Type(u)
  PROVE  IsCommand(proc'[u])
<1>1. \A c : Continue(u, c) => proc'[u] = c
  BY Becomes
<1>2. IsCommand(Idle) /\ Idle.pc = "idle" /\ Idle.layers = <<>>
  BY IdleTyped DEF Idle
<1>3. CASE \E r \in Refs, b \in FreeBoxes, given \in BOOLEAN :
             Continue(u, [Idle EXCEPT !.pc = "meta", !.ref = r, !.box = b, !.given = given])
  <2>1. PICK r \in Refs, b \in FreeBoxes, given \in BOOLEAN :
          proc'[u] = [Idle EXCEPT !.pc = "meta", !.ref = r, !.box = b, !.given = given]
    BY <1>1, <1>3
  <2>2. b \in Containers
    BY DEF FreeBoxes
  <2> QED
    BY <1>2, <2>1, <2>2 DEF IsCommand, Boxed, Running, Packing
<1>4. CASE \E r \in Refs, b \in Containers, i \in FreeIds :
             Continue(u, [Idle EXCEPT !.pc = "describe", !.ref = r, !.box = b, !.id = i])
  <2>1. PICK r \in Refs, b \in Containers, i \in FreeIds :
          proc'[u] = [Idle EXCEPT !.pc = "describe", !.ref = r, !.box = b, !.id = i]
    BY <1>1, <1>4
  <2>2. i \in Layers /\ i \in Ids
    BY DEF FreeIds, Layers
  <2> QED
    BY <1>2, <2>1, <2>2 DEF IsCommand, Boxed, Running, Packing
<1>5. CASE Continue(u, [Idle EXCEPT !.pc = "list"])
  <2>1. "list" \in Points /\ "list" \notin Boxed \cup Running \cup Packing \cup {"describe", "lower"}
    BY DEF Points, Boxed, Running, Packing
  <2>2. IsCommand([Idle EXCEPT !.pc = "list"])
    BY <1>2, <2>1, Goes
  <2> QED
    BY <1>1, <1>5, <2>2
<1> QED
  BY <1>3, <1>4, <1>5 DEF Type

LEMMA RunTyped ==
  ASSUME TypeOK, NEW u \in Users,
         \/ FindCommand(u) \/ Resolve(u) \/ FindDir(u) \/ FindTar(u) \/ MakeDir(u)
         \/ Extract(u) \/ Extracted(u) \/ DropTar(u) \/ Mount(u) \/ Start(u)
  PROVE  IsCommand(proc'[u])
<1>1. IsCommand(proc[u]) /\ IsIndex(index)
  BY DEF TypeOK
<1>2. CASE FindCommand(u)
  <2> DEFINE f == LayersOf(index, proc[u].ref)[1] \in meta
  <2>1. /\ proc[u].pc = "meta"
        /\ Continue(u, [proc[u] EXCEPT !.pc = "resolve", !.found = f])
    BY <1>2 DEF FindCommand
  <2>2. f \in BOOLEAN
    OBVIOUS
  <2> HIDE DEF f
  <2>3. proc'[u] = [proc[u] EXCEPT !.pc = "resolve", !.found = f]
    BY <2>1, Becomes
  <2> QED
    BY <1>1, <2>1, <2>2, <2>3 DEF IsCommand, Boxed, Running, Packing
<1>3. CASE Resolve(u)
  <2>1. /\ proc[u].pc = "resolve"
        /\ proc'[u] = [proc[u] EXCEPT !.pc = "finddir", !.layers = LayersOf(index, proc[u].ref)]
    BY <1>3, Becomes DEF Resolve
  <2>2. LayersOf(index, proc[u].ref) \in Stacks
    BY <1>1, <2>1, CommandOfType, LayersTyped, PointSets
  <2> QED
    BY <1>1, <2>1, <2>2 DEF IsCommand, Boxed, Running, Packing, Stacks
<1>4. CASE Ends(u)
  BY <1>4, EndsIdle
<1>5. ASSUME proc[u].pc \in Running, NEW pc \in Running, Goto(u, pc) PROVE IsCommand(proc'[u])
  <2>1. proc[u].layers # <<>>
    BY <1>1, <1>5 DEF IsCommand
  <2> QED
    BY <1>5, <2>1, GoesOn, PointSets
<1>6. CASE FindDir(u) \/ FindTar(u) \/ MakeDir(u) \/ Extract(u) \/ Extracted(u) \/ DropTar(u) \/ Mount(u) \/ Start(u)
  <2>1. proc[u].pc \in Running /\ (Ends(u) \/ \E pc \in Running : Goto(u, pc))
    BY <1>6 DEF FindDir, FindTar, MakeDir, Extract, Extracted, DropTar, Mount, Start, Running
  <2> QED
    BY <1>4, <1>5, <2>1
<1> QED
  BY <1>2, <1>3, <1>6

LEMMA CommitTyped ==
  ASSUME TypeOK, NEW u \in Users,
         \/ Describe(u) \/ ReadLower(u) \/ Pack(u) \/ Packed(u)
         \/ ReadIndex(u) \/ Truncate(u) \/ WriteIndex(u)
  PROVE  IsCommand(proc'[u])
<1>1. IsCommand(proc[u]) /\ IsIndex(index)
  BY DEF TypeOK
<1>2. CASE Ends(u)
  BY <1>2, EndsIdle
<1>3. CASE Describe(u)
  <2>1. proc[u].pc = "describe" /\ Goto(u, "lower")
    BY <1>3 DEF Describe
  <2>2. proc[u].id \in Ids
    BY <2>1, CommandOfType
  <2> QED
    BY <2>1, <2>2, GoesOn, PointSets DEF Running, Packing
<1>4. CASE ReadLower(u)
  <2>1. proc[u].pc = "lower"
    BY <1>4 DEF ReadLower
  <2>2. CASE Continue(u, Idle)
    BY <2>2, Becomes, IdleTyped
  <2>3. CASE Continue(u, [proc[u] EXCEPT !.pc = "pack",
                                         !.layers = <<proc[u].id>> \o boxes[proc[u].box].layers])
    <3>1. proc[u].box \in Containers /\ proc[u].id \in Layers
      BY <2>1, CommandOfType, PointSets
    <3>2. boxes[proc[u].box].layers \in Seq(Layers)
      BY <3>1 DEF TypeOK, BoxType
    <3>3. <<proc[u].id>> \o boxes[proc[u].box].layers \in Stacks
      BY <3>1, <3>2, OnTop
    <3>4. proc'[u] = [proc[u] EXCEPT !.pc = "pack",
                                     !.layers = <<proc[u].id>> \o boxes[proc[u].box].layers]
      BY <2>3, Becomes
    <3> QED
      BY <1>1, <2>1, <3>3, <3>4 DEF IsCommand, Boxed, Running, Packing, Stacks
  <2> QED
    BY <1>4, <2>2, <2>3 DEF ReadLower
<1>5. CASE ReadIndex(u)
  <2>1. proc[u].pc = "readindex"
    BY <1>5 DEF ReadIndex
  <2>2. CASE Continue(u, Idle)
    BY <2>2, Becomes, IdleTyped
  <2>3. CASE Continue(u, [proc[u] EXCEPT !.pc = "truncate", !.copy = index.images])
    <3>1. proc'[u] = [proc[u] EXCEPT !.pc = "truncate", !.copy = index.images]
      BY <2>3, Becomes
    <3>2. IsImages(index.images)
      BY <1>1 DEF IsIndex
    <3> QED
      BY <1>1, <2>1, <3>1, <3>2 DEF IsCommand, Boxed, Running, Packing
  <2> QED
    BY <1>5, <2>2, <2>3 DEF ReadIndex
<1>6. CASE Pack(u) \/ Packed(u) \/ Truncate(u) \/ WriteIndex(u)
  <2>1. proc[u].pc \in Packing /\ (Ends(u) \/ \E pc \in Packing : Goto(u, pc))
    BY <1>6 DEF Pack, Packed, Truncate, WriteIndex, Packing
  <2>2. proc[u].layers # <<>> /\ proc[u].id \in Ids
    BY <1>1, <2>1 DEF IsCommand
  <2> QED
    BY <1>2, <2>1, <2>2, GoesOn, PointSets
<1> QED
  BY <1>3, <1>4, <1>5, <1>6

LEMMA ListTyped ==
  ASSUME TypeOK, NEW u \in Users, ReadList(u) \/ Size(u) \/ SizeTar(u)
  PROVE  IsCommand(proc'[u])
<1>1. IsCommand(proc[u]) /\ IsIndex(index)
  BY DEF TypeOK
<1> DEFINE all == UNION {{index.images[k][n] : n \in DOMAIN index.images[k]} :
                          k \in DOMAIN index.images}
<1>2. all \subseteq Layers
  <2>1. \A k \in DOMAIN index.images : index.images[k] \in Stacks
    BY <1>1 DEF IsIndex, IsImages
  <2> QED
    BY <2>1, StackTyped
<1>3. CASE ReadList(u)
  <2>1. proc[u].pc = "list" /\ proc'[u] = [proc[u] EXCEPT !.pc = "size", !.todo = all]
    BY <1>3, Becomes DEF ReadList
  <2> HIDE DEF all
  <2> QED
    BY <1>1, <1>2, <2>1 DEF IsCommand, Boxed, Running, Packing
<1>4. CASE Size(u)
  <2>1. proc[u].pc = "size" /\ proc[u].todo \subseteq Layers
    BY <1>4, CommandOfType DEF Size
  <2>2. CASE Ends(u)
    BY <2>2, EndsIdle
  <2>3. ASSUME NEW l \in proc[u].todo,
               \/ Continue(u, [proc[u] EXCEPT !.todo = @ \ {l}])
               \/ Continue(u, [proc[u] EXCEPT !.pc = "sizetar", !.id = l, !.todo = @ \ {l}])
        PROVE  IsCommand(proc'[u])
    <3>1. \/ proc'[u] = [proc[u] EXCEPT !.todo = @ \ {l}]
          \/ proc'[u] = [proc[u] EXCEPT !.pc = "sizetar", !.id = l, !.todo = @ \ {l}]
      BY <2>3, Becomes
    <3> QED
      BY <1>1, <2>1, <3>1 DEF IsCommand, Boxed, Running, Packing
  <2> QED
    BY <1>4, <2>2, <2>3 DEF Size
<1>5. CASE SizeTar(u)
  <2>1. proc[u].pc = "sizetar"
    BY <1>5 DEF SizeTar
  <2>2. \/ proc'[u] = Idle
        \/ proc'[u] = [proc[u] EXCEPT !.pc = "size", !.id = Base]
    BY <1>5, Becomes DEF SizeTar
  <2>3. Base \in Layers
    BY DEF Layers
  <2> QED
    BY <1>1, <2>1, <2>2, <2>3, IdleTyped DEF IsCommand, Boxed, Running, Packing
<1> QED
  BY <1>3, <1>4, <1>5

LEMMA FilesTyped ==
  ASSUME TypeOK, NEW u \in Users, Moves(u)
  PROVE  /\ tars' \in [Layers -> Extents] /\ dirs' \in [Layers -> Extents \cup {"spoilt"}]
         /\ meta' \subseteq Ids
         /\ seen' \subseteq Mishaps
<1>1. /\ tars \in [Layers -> Extents] /\ dirs \in [Layers -> Extents \cup {"spoilt"}]
      /\ meta \subseteq Ids /\ seen \subseteq Mishaps
  BY DEF TypeOK
<1> USE DEF Extents
<1>2. CASE Type(u) \/ Crash(u)
  BY <1>1, <1>2 DEF Type, Crash, Overlaps, CutShort, Mishaps
<1>3. CASE \/ FindCommand(u) \/ Resolve(u) \/ FindDir(u) \/ FindTar(u) \/ Mount(u) \/ Start(u)
           \/ ReadLower(u) \/ ReadIndex(u) \/ Truncate(u) \/ WriteIndex(u)
           \/ ReadList(u) \/ Size(u) \/ SizeTar(u)
  BY <1>1, <1>3 DEF FindCommand, Resolve, FindDir, FindTar, Mount, Start, ReadLower, ReadIndex,
                    Truncate, WriteIndex, ReadList, Size, SizeTar
<1>4. CASE MakeDir(u) \/ Extract(u) \/ Extracted(u) \/ DropTar(u)
  BY <1>1, <1>4 DEF MakeDir, Extract, Extracted, DropTar
<1>5. CASE Describe(u)
  <2>1. proc[u].id \in Ids
    BY <1>5, CommandOfType DEF Describe
  <2> QED
    BY <1>1, <1>5, <2>1 DEF Describe
<1>6. CASE Pack(u) \/ Packed(u)
  BY <1>1, <1>6 DEF Pack, Packed, Mishaps
<1> QED
  BY <1>2, <1>3, <1>4, <1>5, <1>6 DEF Moves, Step

LEMMA IndexTyped ==
  ASSUME TypeOK, NEW u \in Users, Moves(u)
  PROVE  IsIndex(index')
<1>1. IsIndex(index) /\ IsCommand(proc[u])
  BY DEF TypeOK
<1>2. CASE Truncate(u)
  BY <1>2, NoImagesTyped DEF Truncate, IsIndex
<1>3. CASE WriteIndex(u)
  <2>1. IsImages(Entered(proc[u]))
    BY <1>1, <1>3, EnteredTyped DEF WriteIndex
  <2> QED
    BY <1>3, <2>1 DEF WriteIndex, IsIndex
<1>4. CASE ~Truncate(u) /\ ~WriteIndex(u)
  <2>1. index' = index
    BY <1>4 DEF Moves, Step, Type, Crash, FindCommand, Resolve, FindDir, FindTar, MakeDir, Extract,
                Extracted, DropTar, Mount, Start, Describe, ReadLower, Pack, Packed, ReadIndex, ReadList,
                Size, SizeTar
  <2> QED
    BY <1>1, <2>1
<1> QED
  BY <1>2, <1>3, <1>4

LEMMA BoxesTyped ==
  ASSUME TypeOK, NEW u \in Users, Moves(u)
  PROVE  boxes' \in [Containers -> BoxType]
<1>1. boxes \in [Containers -> BoxType]
  BY DEF TypeOK
<1>2. CASE Mount(u)
  <2>1. proc[u].layers \in Seq(Layers)
    BY CommandOfType
  <2>2. [state |-> "mounted", layers |-> proc[u].layers] \in BoxType
    BY <2>1 DEF BoxType
  <2> QED
    BY <1>1, <1>2, <2>2 DEF Mount
<1>3. CASE Start(u)
  <2>1. \A b \in Containers : [boxes[b] EXCEPT !.state = "recorded"] \in BoxType
    BY <1>1 DEF BoxType
  <2> QED
    BY <1>1, <1>3, <2>1 DEF Start
<1>4. CASE ~Mount(u) /\ ~Start(u)
  <2>1. boxes' = boxes
    BY <1>4 DEF Moves, Step, Type, Crash, FindCommand, Resolve, FindDir, FindTar, MakeDir, Extract,
                Extracted, DropTar, Truncate, WriteIndex, Describe, ReadLower, Pack, Packed, ReadIndex, ReadList,
                Size, SizeTar
  <2> QED
    BY <1>1, <2>1
<1> QED
  BY <1>2, <1>3, <1>4

LEMMA TypeStep == TypeOK /\ [Next]_vars => TypeOK'
<1> SUFFICES ASSUME TypeOK, [Next]_vars PROVE TypeOK'
  OBVIOUS
<1>1. CASE UNCHANGED vars
  BY <1>1 DEF vars, TypeOK
<1>2. CASE RemoveBox
  <2>1. NoBox \in BoxType
    BY EmptySeq DEF NoBox, BoxType
  <2>2. boxes' \in [Containers -> BoxType] /\ seen' \subseteq Mishaps
    BY <1>2, <2>1 DEF RemoveBox, TypeOK, Overlaps, Mishaps
  <2> QED
    BY <1>2, <2>2 DEF RemoveBox, TypeOK
<1>3. ASSUME NEW u \in Users, Moves(u) PROVE TypeOK'
  <2>1. IsCommand(proc'[u])
    <3>1. CASE Crash(u)
      BY <3>1, EndsIdle DEF Crash
    <3> QED
      BY <1>3, <3>1, TypedCommand, RunTyped, CommitTyped, ListTyped DEF Moves, Step
  <2>2. \A v \in Users : IsCommand(proc'[v])
    BY <1>3, <2>1, Others DEF TypeOK
  <2> QED
    BY <1>3, <2>2, Others, FilesTyped, IndexTyped, BoxesTyped DEF TypeOK
<1> QED
  BY <1>1, <1>2, <1>3 DEF Next, Moves

LEMMA InitTyped == Init => TypeOK
<1> SUFFICES ASSUME Init PROVE TypeOK
  OBVIOUS
<1>1. NoBox \in BoxType
  BY EmptySeq DEF NoBox, BoxType
<1>2. boxes \in [Containers -> BoxType]
  BY <1>1 DEF Init
<1>3. IsIndex(index)
  BY NoImagesTyped DEF Init, IsIndex
<1>4. proc = [u \in Users |-> proc[u]] /\ \A u \in Users : IsCommand(proc[u])
  BY IdleTyped DEF Init
<1>5. tars \in [Layers -> Extents] /\ dirs \in [Layers -> Extents] /\ meta = {} /\ seen = {}
  BY DEF Init, Extents
<1> QED
  BY <1>2, <1>3, <1>4, <1>5 DEF TypeOK

\* Every file, image and command keeps its type, and a command that uses a
\* stack of layers has one.
THEOREM ImagesTypeCorrect == Spec => []TypeOK
<1>1. Init => TypeOK
  BY InitTyped
<1>2. TypeOK /\ [Next]_vars => TypeOK'
  BY TypeStep
<1> QED
  BY <1>1, <1>2, PTL DEF Spec

-----------------------------------------------------------------------------
(* The layers of the index are there. *)

Present(l) == tars[l] # "none" \/ dirs[l] # "none"
HasDir(l) == dirs[l] # "none"

Usable(f) ==
  \A k \in DOMAIN f : f[k][1] \in meta /\ \A n \in DOMAIN f[k] : Present(f[k][n])

\* Where a command is with the layers it uses.
UsesOf(u) ==
  LET c == proc[u] IN
  /\ c.pc \in {"extract", "extracting", "droptar"} => HasDir(c.layers[1])
  /\ c.pc = "lower" => c.id \in meta
  /\ c.pc \in Packing =>
       /\ c.id \in meta /\ c.layers[1] = c.id
       /\ \A n \in DOMAIN c.layers : n = 1 \/ HasDir(c.layers[n])
  /\ c.pc \in Packing \ {"pack"} => Present(c.id)
  /\ c.pc \in {"truncate", "write"} => Usable(c.copy)

UseInv ==
  /\ Usable(index.images)
  /\ \A b \in Containers : \A n \in DOMAIN boxes[b].layers : HasDir(boxes[b].layers[n])
  /\ \A u \in Users : UsesOf(u)

\* No step takes a directory, a description or the last form of a layer away.
Lasts ==
  /\ meta \subseteq meta'
  /\ \A l \in Layers : (HasDir(l) => HasDir(l)') /\ (Present(l) => Present(l)')

LEMMA LayersLast ==
  ASSUME TypeOK, UseInv, NEW u \in Users, Moves(u)
  PROVE  Lasts
<1>1. CASE Type(u) \/ Crash(u)
  <2>1. tars' = tars /\ meta' = meta /\ \A l \in Layers : dirs'[l] \in {dirs[l], "spoilt"}
    BY <1>1 DEF Type, Crash, TypeOK
  <2> QED
    BY <2>1 DEF Lasts, HasDir, Present
<1>2. CASE \/ FindCommand(u) \/ Resolve(u) \/ FindDir(u) \/ FindTar(u) \/ Mount(u) \/ Start(u)
           \/ ReadLower(u) \/ ReadIndex(u) \/ Truncate(u) \/ WriteIndex(u)
           \/ ReadList(u) \/ Size(u) \/ SizeTar(u) \/ Describe(u)
  BY <1>2 DEF FindCommand, Resolve, FindDir, FindTar, Mount, Start, ReadLower, ReadIndex,
              Truncate, WriteIndex, ReadList, Size, SizeTar, Describe, Lasts, HasDir, Present
<1>3. CASE MakeDir(u) \/ Extract(u) \/ Extracted(u)
  BY <1>3 DEF MakeDir, Extract, Extracted, Lasts, HasDir, Present, TypeOK, Extents
<1>4. CASE DropTar(u)
  <2>1. HasDir(Top(u))
    BY <1>4 DEF DropTar, UseInv, UsesOf, Top
  <2> QED
    BY <1>4, <2>1 DEF DropTar, Lasts, HasDir, Present, TypeOK
<1>5. CASE Pack(u) \/ Packed(u)
  BY <1>5 DEF Pack, Packed, Lasts, HasDir, Present, TypeOK
<1> QED
  BY <1>1, <1>2, <1>3, <1>4, <1>5 DEF Moves, Step

LEMMA UsableLasts ==
  ASSUME TypeOK, Lasts, NEW f, IsImages(f), Usable(f)
  PROVE  Usable(f)'
<1>1. \A k \in DOMAIN f : f[k] \in Stacks
  BY DEF IsImages
<1>2. \A k \in DOMAIN f : \A n \in DOMAIN f[k] : f[k][n] \in Layers
  BY <1>1, StackTyped
<1> QED
  BY <1>2 DEF Usable, Lasts

LEMMA UsesLast ==
  ASSUME TypeOK, Lasts, NEW v \in Users, UsesOf(v), proc'[v] = proc[v]
  PROVE  UsesOf(v)'
<1> DEFINE c == proc[v]
<1>1. /\ IsImages(c.copy) /\ c.id \in Layers
      /\ c.pc \in Running \cup Packing => 1 \in DOMAIN c.layers /\ \A n \in DOMAIN c.layers : c.layers[n] \in Layers
  BY CommandOfType, StackTyped
<1>2. c.pc \in {"truncate", "write"} => Usable(c.copy)'
  BY <1>1, UsableLasts DEF UsesOf
<1>3. c.pc \in {"extract", "extracting", "droptar"} => HasDir(c.layers[1])'
  BY <1>1 DEF UsesOf, Lasts, Running
<1>4. c.pc \in Packing => \A n \in DOMAIN c.layers : n = 1 \/ HasDir(c.layers[n])'
  BY <1>1 DEF UsesOf, Lasts
<1>5. c.pc \in Packing \ {"pack"} => Present(c.id)'
  BY <1>1 DEF UsesOf, Lasts
<1>6. (c.pc = "lower" => c.id \in meta') /\ (c.pc \in Packing => c.id \in meta' /\ c.layers[1] = c.id)
  BY DEF UsesOf, Lasts
<1> QED
  BY <1>2, <1>3, <1>4, <1>5, <1>6 DEF UsesOf, HasDir, Present, Usable

\* A command that has not come to its layers uses none.
LEMMA UsesNothing ==
  ASSUME NEW u \in Users,
         proc'[u].pc \notin {"extract", "extracting", "droptar", "lower"} \cup Packing
  PROVE  UsesOf(u)'
  BY DEF UsesOf, Packing

LEMMA GotoParts ==
  ASSUME TypeOK, NEW u \in Users, NEW pc, Goto(u, pc)
  PROVE  /\ proc'[u].pc = pc /\ proc'[u].layers = proc[u].layers /\ proc'[u].id = proc[u].id
         /\ proc'[u].copy = proc[u].copy
<1>1. proc'[u] = [proc[u] EXCEPT !.pc = pc]
  BY Becomes DEF Goto
<1> QED
  BY <1>1 DEF TypeOK, IsCommand

LEMMA IdleUses ==
  ASSUME TypeOK, NEW u \in Users, Ends(u)
  PROVE  UsesOf(u)'
<1>1. proc'[u].pc = "idle"
  BY EndsIdle DEF Idle
<1> QED
  BY <1>1, UsesNothing DEF Packing

\* Where the steps lead that are not to do with a layer.
LEMMA Quiet ==
  ASSUME TypeOK, NEW u \in Users, FindCommand(u) \/ Start(u) \/ Crash(u) \/ Ends(u)
  PROVE  proc'[u].pc \in {"resolve", "idle"}
<1>1. CASE Start(u) \/ Crash(u) \/ Ends(u)
  BY <1>1, EndsIdle DEF Start, Crash, Idle
<1>2. CASE FindCommand(u)
  <2> DEFINE f == LayersOf(index, proc[u].ref)[1] \in meta
  <2>1. Continue(u, [proc[u] EXCEPT !.pc = "resolve", !.found = f])
    BY <1>2 DEF FindCommand
  <2> HIDE DEF f
  <2> QED
    BY <2>1, Becomes DEF TypeOK, IsCommand
<1> QED
  BY <1>1, <1>2

LEMMA Elsewhere ==
  ASSUME TypeOK, NEW u \in Users,
         \/ FindCommand(u) \/ ReadList(u) \/ Size(u) \/ SizeTar(u)
         \/ Start(u) \/ Crash(u) \/ Ends(u)
  PROVE  proc'[u].pc \in {"resolve", "size", "sizetar", "idle"}
<1>0. IsCommand(proc[u]) /\ \A c : Continue(u, c) => proc'[u] = c
  BY Becomes DEF TypeOK
<1>1. CASE FindCommand(u) \/ Start(u) \/ Crash(u) \/ Ends(u)
  BY <1>1, Quiet
<1>3. CASE ReadList(u)
  <2>1. \E q : proc'[u] = [proc[u] EXCEPT !.pc = "size", !.todo = q]
    BY <1>0, <1>3 DEF ReadList
  <2> QED
    BY <1>0, <2>1 DEF IsCommand
<1>4. CASE Size(u) /\ ~Ends(u)
  <2>1. PICK l \in proc[u].todo :
          \/ proc'[u] = [proc[u] EXCEPT !.todo = @ \ {l}]
          \/ proc'[u] = [proc[u] EXCEPT !.pc = "sizetar", !.id = l, !.todo = @ \ {l}]
    BY <1>0, <1>4 DEF Size
  <2>2. proc[u].pc = "size"
    BY <1>4 DEF Size
  <2> QED
    BY <1>0, <2>1, <2>2 DEF IsCommand
<1>5. CASE SizeTar(u)
  <2>1. \/ proc'[u] = Idle
        \/ proc'[u] = [proc[u] EXCEPT !.pc = "size", !.id = Base]
    BY <1>0, <1>5 DEF SizeTar
  <2>2. [proc[u] EXCEPT !.pc = "size", !.id = Base].pc = "size" /\ Idle.pc = "idle"
    BY <1>0 DEF IsCommand, Idle
  <2> QED
    BY <2>1, <2>2
<1> QED
  BY <1>1, <1>3, <1>4, <1>5

LEMMA Resolves ==
  ASSUME TypeOK, NEW u \in Users, Resolve(u)
  PROVE  /\ proc'[u].pc = "finddir" /\ proc[u].ref \in Refs
         /\ proc'[u].layers = LayersOf(index, proc[u].ref)
<1>1. /\ proc[u].pc = "resolve"
      /\ proc'[u] = [proc[u] EXCEPT !.pc = "finddir", !.layers = LayersOf(index, proc[u].ref)]
  BY Becomes DEF Resolve
<1>2. proc[u].ref \in Refs /\ IsCommand(proc[u])
  BY <1>1, CommandOfType, PointSets DEF TypeOK
<1>3. \A q : [proc[u] EXCEPT !.pc = "finddir", !.layers = q].pc = "finddir" /\
            [proc[u] EXCEPT !.pc = "finddir", !.layers = q].layers = q
  BY <1>2 DEF IsCommand
<1> QED
  BY <1>1, <1>2, <1>3

LEMMA Begins ==
  ASSUME TypeOK, NEW u \in Users, Type(u)
  PROVE  /\ proc[u] = Idle
         /\ proc'[u].pc \in {"meta", "list"} \/ (proc'[u].pc = "describe" /\ proc'[u].id \in FreeIds)
<1>1. \A c : Continue(u, c) => proc'[u] = c
  BY Becomes
<1>2. CASE \E r \in Refs, b \in FreeBoxes, given \in BOOLEAN :
             Continue(u, [Idle EXCEPT !.pc = "meta", !.ref = r, !.box = b, !.given = given])
  <2>1. PICK r, b, given :
          proc'[u] = [Idle EXCEPT !.pc = "meta", !.ref = r, !.box = b, !.given = given]
    BY <1>1, <1>2
  <2> QED
    BY <2>1 DEF Idle, Type
<1>3. CASE \E r \in Refs, b \in Containers, i \in FreeIds :
             Continue(u, [Idle EXCEPT !.pc = "describe", !.ref = r, !.box = b, !.id = i])
  <2>1. PICK r \in Refs, b \in Containers, i \in FreeIds :
          proc'[u] = [Idle EXCEPT !.pc = "describe", !.ref = r, !.box = b, !.id = i]
    BY <1>1, <1>3
  <2> QED
    BY <2>1 DEF Idle, Type
<1>4. CASE Continue(u, [Idle EXCEPT !.pc = "list"])
  BY <1>1, <1>4 DEF Idle, Type
<1> QED
  BY <1>2, <1>3, <1>4 DEF Type

LEMMA RunUses ==
  ASSUME TypeOK, UseInv, NEW u \in Users,
         \/ Type(u) \/ FindCommand(u) \/ Resolve(u) \/ FindDir(u) \/ FindTar(u) \/ MakeDir(u)
         \/ Extract(u) \/ Extracted(u) \/ DropTar(u) \/ Mount(u) \/ Start(u)
         \/ ReadList(u) \/ Size(u) \/ SizeTar(u) \/ Crash(u)
  PROVE  UsesOf(u)'
<1>0. IsCommand(proc[u])
  BY DEF TypeOK
<1>1. CASE Ends(u)
  BY <1>1, IdleUses
<1>2. CASE MakeDir(u)
  <2>1. /\ proc[u].pc = "mkdir" /\ Goto(u, "extract")
        /\ dirs' = [dirs EXCEPT ![Top(u)] = IF @ = "none" THEN "partial" ELSE @]
    BY <1>2 DEF MakeDir
  <2>2. Top(u) \in Layers
    BY <2>1, CommandOfType, StackTyped DEF Top, Running
  <2>3. HasDir(Top(u))'  <=> dirs'[proc'[u].layers[1]] # "none"
    BY DEF HasDir, Top
  <2>4. dirs'[proc[u].layers[1]] # "none"
    BY <2>1, <2>2 DEF TypeOK, Top
  <2>5. proc'[u].pc = "extract" /\ proc'[u].layers = proc[u].layers
    BY <2>1, GotoParts
  <2> QED
    BY <2>4, <2>5 DEF UsesOf, HasDir, Packing
<1>3. CASE (Extract(u) \/ Extracted(u)) /\ ~Ends(u)
  <2>1. /\ proc[u].pc \in {"extract", "extracting"}
        /\ Goto(u, "extracting") \/ Goto(u, "droptar")
        /\ dirs' \in {dirs, [dirs EXCEPT ![Top(u)] = "partial"], [dirs EXCEPT ![Top(u)] = "whole"]}
    BY <1>3 DEF Extract, Extracted
  <2>2. Top(u) \in Layers
    BY <2>1, CommandOfType, StackTyped DEF Top, Running
  <2>3. dirs[Top(u)] # "none"
    BY <2>1 DEF UseInv, UsesOf, HasDir, Top
  <2>4. dirs'[proc[u].layers[1]] # "none"
    BY <2>1, <2>2, <2>3 DEF TypeOK, Top
  <2>5. proc'[u].pc \in {"extracting", "droptar"} /\ proc'[u].layers = proc[u].layers
    BY <2>1, GotoParts
  <2> QED
    BY <2>4, <2>5 DEF UsesOf, HasDir, Packing
<1>4. CASE FindDir(u) \/ FindTar(u) \/ DropTar(u) \/ Mount(u)
  <2>1. Ends(u) \/ \E pc \in {"findtar", "mount", "mkdir", "start"} : Goto(u, pc)
    BY <1>4 DEF FindDir, FindTar, DropTar, Mount
  <2>2. ASSUME NEW pc \in {"findtar", "mount", "mkdir", "start"}, Goto(u, pc) PROVE UsesOf(u)'
    BY <2>2, GotoParts, UsesNothing DEF Packing
  <2> QED
    BY <1>1, <2>1, <2>2
<1>5. CASE Start(u) \/ Crash(u)
  BY <1>1, <1>5 DEF Start, Crash
<1>6. CASE FindCommand(u) \/ Resolve(u) \/ ReadList(u) \/ Size(u) \/ SizeTar(u)
  BY <1>6, Elsewhere, Resolves, UsesNothing DEF Packing
<1>7. CASE Type(u)
  BY <1>7, Begins, UsesNothing DEF Packing
<1> QED
  BY <1>1, <1>2, <1>3, <1>4, <1>5, <1>6, <1>7

LEMMA CommitUses ==
  ASSUME TypeOK, UseInv, Lasts, NEW u \in Users,
         \/ Describe(u) \/ ReadLower(u) \/ Pack(u) \/ Packed(u)
         \/ ReadIndex(u) \/ Truncate(u) \/ WriteIndex(u)
  PROVE  UsesOf(u)'
<1>0. IsCommand(proc[u]) /\ UsesOf(u) /\ proc[u].id \in Layers
  BY CommandOfType DEF TypeOK, UseInv
<1>1. CASE Ends(u)
  BY <1>1, IdleUses
<1>2. CASE Describe(u)
  <2>1. proc[u].id \in meta' /\ Goto(u, "lower")
    BY <1>2 DEF Describe
  <2> QED
    BY <2>1, GotoParts DEF UsesOf, Packing
<1>3. CASE ReadLower(u)
  <2>1. proc[u].pc = "lower" /\ proc[u].box \in Containers
    BY <1>3, CommandOfType, PointSets DEF ReadLower
  <2>2. CASE Continue(u, Idle)
    BY <1>1, <2>2 DEF Ends
  <2>3. CASE ~Continue(u, Idle)
    <3> DEFINE low == boxes[proc[u].box].layers
    <3>1. proc'[u] = [proc[u] EXCEPT !.pc = "pack", !.layers = <<proc[u].id>> \o low]
      BY <1>3, <2>3, Becomes DEF ReadLower
    <3>2. low \in Seq(Layers) /\ \A n \in DOMAIN low : HasDir(low[n])
      BY <2>1 DEF TypeOK, BoxType, UseInv
    <3>3. dirs' = dirs /\ tars' = tars /\ meta' = meta /\ proc[u].id \in meta
      BY <1>0, <1>3, <2>1 DEF ReadLower, UsesOf
    <3> HIDE DEF low
    <3>4. /\ proc'[u].pc = "pack" /\ proc'[u].layers = <<proc[u].id>> \o low
          /\ proc'[u].id = proc[u].id
      BY <1>0, <3>1 DEF IsCommand
    <3>5. PICK q : q = <<proc[u].id>> \o low
      OBVIOUS
    <3>6. q[1] = proc[u].id /\ \A n \in DOMAIN q : n = 1 \/ dirs'[q[n]] # "none"
      BY <1>0, <3>2, <3>3, <3>5, OnTop DEF HasDir
    <3> QED
      BY <3>3, <3>4, <3>5, <3>6 DEF UsesOf, Packing, HasDir
  <2> QED
    BY <2>2, <2>3
<1>4. CASE Pack(u) \/ Packed(u) \/ Truncate(u)
  <2>1. /\ proc[u].pc \in Packing
        /\ \E pc \in Packing \ {"pack"} : /\ Goto(u, pc)
                                          /\ pc \in {"truncate", "write"} => proc[u].pc = "truncate"
        /\ proc[u].pc = "pack" => tars'[proc[u].id] # "none"
    BY <1>0, <1>4 DEF Pack, Packed, Truncate, Packing, TypeOK
  <2>2. PICK pc \in Packing \ {"pack"} : /\ Goto(u, pc)
                                         /\ pc \in {"truncate", "write"} => proc[u].pc = "truncate"
    BY <2>1
  <2>3. /\ proc'[u].pc = pc /\ proc'[u].layers = proc[u].layers /\ proc'[u].id = proc[u].id
        /\ proc'[u].copy = proc[u].copy
    BY <2>2, GotoParts
  <2>4. \A n \in DOMAIN proc[u].layers : proc[u].layers[n] \in Layers
    BY <2>1, CommandOfType, StackTyped
  <2>5. \A n \in DOMAIN proc[u].layers : n = 1 \/ dirs'[proc[u].layers[n]] # "none"
    BY <1>0, <2>1, <2>4 DEF UsesOf, Lasts, HasDir
  <2>6. tars'[proc[u].id] # "none" \/ dirs'[proc[u].id] # "none"
    BY <1>0, <2>1 DEF UsesOf, Lasts, Present
  <2>7. proc[u].id \in meta' /\ proc[u].layers[1] = proc[u].id
    BY <1>0, <2>1 DEF UsesOf, Lasts
  <2>8. proc[u].pc = "truncate" => Usable(proc[u].copy)'
    <3>1. PICK f : f = proc[u].copy
      OBVIOUS
    <3>2. proc[u].pc = "truncate" => Usable(f)'
      BY <1>0, <3>1, UsableLasts DEF UsesOf, IsCommand
    <3> QED
      BY <2>3, <3>1, <3>2 DEF Usable, Present
  <2> QED
    BY <2>2, <2>3, <2>5, <2>6, <2>7, <2>8 DEF UsesOf, HasDir, Present, Usable, Packing
<1>5. CASE ReadIndex(u)
  <2>1. CASE Continue(u, Idle)
    BY <1>1, <2>1 DEF Ends
  <2>2. CASE ~Continue(u, Idle)
    <3>1. /\ proc'[u] = [proc[u] EXCEPT !.pc = "truncate", !.copy = index.images]
          /\ proc[u].pc = "readindex"
          /\ dirs' = dirs /\ tars' = tars /\ meta' = meta
      BY <1>5, <2>2, Becomes DEF ReadIndex
    <3>2. /\ proc'[u].pc = "truncate" /\ proc'[u].layers = proc[u].layers
          /\ proc'[u].id = proc[u].id /\ proc'[u].copy = index.images
      BY <1>0, <3>1 DEF IsCommand
    <3>3. PICK f : f = index.images
      OBVIOUS
    <3>4. Usable(f)'
      BY <3>1, <3>3 DEF UseInv, Usable, Present
    <3>5. Usable(proc[u].copy)' 
      BY <3>2, <3>3, <3>4 DEF Usable, Present
    <3> QED
      BY <1>0, <3>1, <3>2, <3>5 DEF UsesOf, HasDir, Present, Packing
  <2> QED
    BY <2>1, <2>2
<1>6. CASE WriteIndex(u)
  BY <1>1, <1>6 DEF WriteIndex
<1> QED
  BY <1>2, <1>3, <1>4, <1>5, <1>6

LEMMA ProcUses ==
  ASSUME TypeOK, UseInv, NEW u \in Users, Moves(u)
  PROVE  \A v \in Users : UsesOf(v)'
<1>1. Lasts
  BY LayersLast
<1>2. UsesOf(u)'
  BY <1>1, RunUses, CommitUses DEF Moves, Step
<1>3. \A v \in Users : v # u => UsesOf(v)'
  BY <1>1, Others, UsesLast DEF UseInv
<1> QED
  BY <1>2, <1>3

LEMMA IndexUses ==
  ASSUME TypeOK, UseInv, NEW u \in Users, Moves(u)
  PROVE  Usable(index.images)'
<1>1. Lasts /\ IsImages(index.images) /\ UsesOf(u)
  BY LayersLast DEF TypeOK, IsIndex, UseInv
<1>2. CASE Truncate(u)
  BY <1>2 DEF Truncate, Usable, NoImages
<1>3. CASE WriteIndex(u)
  <2> DEFINE c == proc[u]
  <2>1. c.pc = "write" /\ index'.images = Entered(c)
    BY <1>3 DEF WriteIndex
  <2>2. /\ c.layers[1] \in meta' /\ IsImages(c.copy)
        /\ \A n \in DOMAIN c.layers : c.layers[n] \in Layers /\ Present(c.layers[n])
    BY <1>1, <2>1, CommandOfType, StackTyped DEF UsesOf, Packing, Present, HasDir, Lasts
  <2>3. PICK f : f = c.copy
    OBVIOUS
  <2>4. Usable(f)'
    BY <1>1, <2>1, <2>2, <2>3, UsableLasts DEF UsesOf
  <2>5. \A n \in DOMAIN c.layers : tars'[c.layers[n]] # "none" \/ dirs'[c.layers[n]] # "none"
    BY <1>1, <2>2 DEF Lasts, Present
  <2>6. \A k \in DOMAIN Entered(c) :
          Entered(c)[k] = c.layers \/ (k \in DOMAIN f /\ Entered(c)[k] = f[k])
    BY <2>3 DEF Entered
  <2> QED
    BY <2>1, <2>2, <2>4, <2>5, <2>6 DEF Usable, Present
<1>4. CASE ~Truncate(u) /\ ~WriteIndex(u)
  <2>1. index' = index
    BY <1>4 DEF Moves, Step, Type, Crash, FindCommand, Resolve, FindDir, FindTar, MakeDir, Extract,
                Extracted, DropTar, Mount, Start, Describe, ReadLower, Pack, Packed, ReadIndex, ReadList,
                Size, SizeTar
  <2>2. PICK f : f = index.images
    OBVIOUS
  <2>3. Usable(f)'
    BY <1>1, <2>2, UsableLasts DEF UseInv
  <2> QED
    BY <2>1, <2>2, <2>3 DEF Usable, Present
<1> QED
  BY <1>2, <1>3, <1>4

LEMMA BoxesUse ==
  ASSUME TypeOK, UseInv, NEW u \in Users, Moves(u)
  PROVE  (\A b \in Containers : \A n \in DOMAIN boxes[b].layers : HasDir(boxes[b].layers[n]))'
<1>1. /\ Lasts
      /\ \A b \in Containers : \A n \in DOMAIN boxes[b].layers :
            boxes[b].layers[n] \in Layers /\ HasDir(boxes[b].layers[n])
  <2>1. \A b \in Containers : boxes[b].layers \in Seq(Layers)
    BY DEF TypeOK, BoxType
  <2> QED
    BY <2>1, LayersLast, ElementOfSeq, LenProperties DEF UseInv
<1>2. CASE Mount(u) /\ boxes' # boxes
  <2>1. /\ dirs' = dirs
        /\ \A n \in DOMAIN proc[u].layers : HasDir(proc[u].layers[n])
        /\ boxes' = [boxes EXCEPT ![proc[u].box] = [state |-> "mounted", layers |-> proc[u].layers]]
    BY <1>2 DEF Mount, HasDir
  <2> QED
    BY <1>1, <2>1 DEF HasDir, TypeOK
<1>3. CASE ~Mount(u) \/ boxes' = boxes
  <2>1. \A b \in Containers : boxes'[b].layers = boxes[b].layers
    <3>1. CASE Start(u)
      BY <3>1 DEF Start, TypeOK, BoxType
    <3>2. CASE ~Start(u)
      BY <1>3, <3>2 DEF Moves, Step, Type, Crash, FindCommand, Resolve, FindDir, FindTar, MakeDir,
                Extract, Extracted, DropTar, Truncate, WriteIndex, Describe, ReadLower, Pack, Packed, ReadIndex,
                ReadList, Size, SizeTar
    <3> QED
      BY <3>1, <3>2
  <2> QED
    BY <1>1, <2>1 DEF Lasts, HasDir
<1> QED
  BY <1>2, <1>3

LEMMA UseStep == TypeOK /\ UseInv /\ [Next]_vars => UseInv'
<1> SUFFICES ASSUME TypeOK, UseInv, [Next]_vars PROVE UseInv'
  OBVIOUS
<1>1. CASE UNCHANGED vars
  BY <1>1 DEF vars, UseInv, UsesOf, Usable, Present, HasDir
<1>2. CASE RemoveBox
  <2>1. \A b \in Containers : boxes'[b] = boxes[b] \/ boxes'[b].layers = <<>>
    BY <1>2 DEF RemoveBox, NoBox, TypeOK
  <2>2. DOMAIN <<>> = {}
    OBVIOUS
  <2> QED
    BY <1>2, <2>1, <2>2 DEF RemoveBox, UseInv, UsesOf, Usable, Present, HasDir
<1>3. ASSUME NEW u \in Users, Moves(u) PROVE UseInv'
  BY <1>3, ProcUses, IndexUses, BoxesUse DEF UseInv
<1> QED
  BY <1>1, <1>2, <1>3 DEF Next, Moves

LEMMA InitUses == Init => UseInv
<1> SUFFICES ASSUME Init PROVE UseInv
  OBVIOUS
<1>1. \A u \in Users : UsesOf(u)
  BY DEF Init, UsesOf, Idle, Packing
<1>2. Usable(index.images)
  BY DEF Init, Usable, NoImages
<1>3. \A b \in Containers : DOMAIN boxes[b].layers = {}
  BY DEF Init, NoBox
<1> QED
  BY <1>1, <1>2, <1>3 DEF UseInv

\* Whatever overlaps or is killed, every image of the index can be run.
THEOREM IndexAlwaysUsable == Spec => []IndexedUsable
<1>1. Init => TypeOK /\ UseInv
  BY InitTyped, InitUses
<1>2. TypeOK /\ UseInv /\ [Next]_vars => (TypeOK /\ UseInv)'
  BY TypeStep, UseStep
<1>3. UseInv => IndexedUsable
  BY DEF UseInv, Usable, Present, IndexedUsable, Available
<1> QED
  BY <1>1, <1>2, <1>3, PTL DEF Spec

-----------------------------------------------------------------------------
(* No layer is lost. *)

\* What is told apart: layers may be lost once an archive could not be packed,
\* or an extraction was cut short while something overlapped.
Damaged == "tar" \in seen \/ {"overlap", "extract"} \subseteq seen

\* The layers that need no archive: whole as a directory, or written by a tar
\* that comes to its end.
DirLayers ==
  {l \in Layers :
     \/ Damaged
     \/ tars[l] # "partial" /\ (dirs[l] = "whole" \/ (dirs[l] = "partial" /\ Writers(l) # {}))}

SafeLayers == {l \in Layers : tars[l] = "whole"} \cup DirLayers

\* The layers that a tar is at work on.
TarLayers ==
  {l \in Layers :
     (Damaged \/ dirs[l] = "partial") /\ ("overlap" \in seen \/ tars[l] # "none")}

Safe(l) == l \in SafeLayers

Extracting == {"mkdir", "extract", "extracting", "droptar"}
Making == Packing \cup {"describe", "lower"}
Fresh == {"describe", "lower", "pack"}

\* Where a command is with the layers it reads or makes.
KeepsOf(u) ==
  LET c == proc[u] IN
  /\ c.pc \in Running => \A n \in DOMAIN c.layers : Safe(c.layers[n]) \/ c.layers[n] \notin Ids
  /\ c.pc \in Extracting => c.layers[1] \in meta \cup {Base}
  /\ c.pc = "extracting" => c.layers[1] \in TarLayers
  /\ c.pc = "droptar" => c.layers[1] \in DirLayers
  /\ c.pc \in Fresh => ~Present(c.id)
  /\ c.pc \in Packing \cup {"lower"} => c.id \in meta
  /\ c.pc \in Packing =>
       c.layers[1] = c.id /\ \A n \in DOMAIN c.layers : n = 1 \/ Safe(c.layers[n])
  /\ c.pc \in Packing \ {"pack", "packed"} => Safe(c.id)
  /\ c.pc \in {"truncate", "write"} =>
       \A k \in DOMAIN c.copy : \A n \in DOMAIN c.copy[k] : Safe(c.copy[k][n])

\* A layer that is being made is nobody else's.
Apart(u, v) ==
  /\ proc[u].pc \in Making /\ proc[v].pc \in Making /\ u # v => proc[u].id # proc[v].id
  /\ proc[u].pc \in Fresh /\ proc[v].pc \in Extracting => proc[v].layers[1] # proc[u].id

OneBusy == "overlap" \notin seen => \A u, v \in Busy : u = v
SafeIndex == \A k \in DOMAIN index.images : \A n \in DOMAIN index.images[k] : Safe(index.images[k][n])
SafeBoxes == \A b \in Containers : \A n \in DOMAIN boxes[b].layers : Safe(boxes[b].layers[n])
Described == \A l \in Layers : Present(l) => l \in meta \cup {Base}

KeepInv ==
  /\ OneBusy
  /\ Safe(Base) /\ Described /\ SafeIndex /\ SafeBoxes
  /\ \A u \in Users : KeepsOf(u)
  /\ \A u, v \in Users : Apart(u, v)

\* Safe after the step.
Saved(l) == l \in SafeLayers'

\* No step loses a layer, nor what another command relies on.
Kept ==
  /\ meta \subseteq meta' /\ seen \subseteq seen'
  /\ SafeLayers \subseteq SafeLayers'
  /\ "overlap" \in seen' => DirLayers \subseteq DirLayers'

Spared(v) ==
  "overlap" \in seen' /\ proc[v].pc = "extracting" /\ proc[v].layers[1] \in TarLayers =>
    proc[v].layers[1] \in TarLayers'

Appears(u) ==
  \A l \in Layers : Present(l)' =>
    \/ Present(l)
    \/ proc[u].pc \in Extracting /\ l = proc[u].layers[1]
    \/ proc[u].pc \in {"pack", "packed"} /\ l = proc[u].id

LEMMA Grows ==
  ASSUME NEW u \in Users, Moves(u)
  PROVE  meta \subseteq meta' /\ seen \subseteq seen'
<1>1. CASE Type(u) \/ Crash(u)
  BY <1>1 DEF Type, Crash
<1>2. CASE Step(u)
  BY <1>2 DEF Step, FindCommand, Resolve, FindDir, FindTar, MakeDir, Extract, Extracted, DropTar,
              Mount, Start, Describe, ReadLower, Pack, Packed, ReadIndex, Truncate, WriteIndex,
              ReadList, Size, SizeTar
<1> QED
  BY <1>1, <1>2 DEF Moves

\* A command that takes a step while nothing overlaps runs alone.
LEMMA StepsAlone ==
  ASSUME TypeOK, OneBusy, NEW u \in Users, Moves(u), "overlap" \notin seen'
  PROVE  /\ "overlap" \notin seen
         /\ \A v \in Users : v # u => proc[v].pc = "idle" /\ proc'[v] = proc[v]
         /\ u \in Busy \/ (Type(u) /\ Busy = {})
<1>1. "overlap" \notin seen
  BY Grows
<1>2. u \in Busy \/ (Type(u) /\ Busy = {})
  <2>1. CASE Type(u)
    BY <2>1 DEF Type, Overlaps
  <2>2. CASE Step(u)
    BY <2>2 DEF Busy, Step, FindCommand, Resolve, FindDir, FindTar, MakeDir, Extract, Extracted, DropTar, Mount,
                Start, Describe, ReadLower, Pack, Packed, ReadIndex, Truncate, WriteIndex, ReadList,
                Size, SizeTar
  <2>3. CASE Crash(u)
    BY <2>3 DEF Crash
  <2> QED
    BY <2>1, <2>2, <2>3 DEF Moves
<1>3. \A v \in Users : v # u => v \notin Busy
  BY <1>1, <1>2 DEF OneBusy
<1> QED
  BY <1>1, <1>2, <1>3, Others DEF Busy

LEMMA StayOne ==
  ASSUME TypeOK, OneBusy, NEW u \in Users, Moves(u)
  PROVE  OneBusy'
<1>1. "overlap" \notin seen' => \A v \in Users : v # u => proc'[v].pc = "idle"
  BY StepsAlone
<1> QED
  BY <1>1 DEF OneBusy, Busy

\* Only MakeDir and Extract lead to where a layer is extracted.
LEMMA OnlyExtract ==
  ASSUME TypeOK, NEW u \in Users, Moves(u)
  PROVE  /\ ~Extract(u) => proc'[u].pc # "extracting"
         /\ ~MakeDir(u) => proc'[u].pc # "extract"
<1>0. IsCommand(proc[u])
  BY DEF TypeOK
<1>1. CASE FindCommand(u) \/ ReadList(u) \/ Size(u) \/ SizeTar(u) \/ Start(u) \/ Crash(u) \/ Ends(u)
  BY <1>1, Elsewhere
<1>2. CASE Type(u) \/ Resolve(u)
  BY <1>2, Begins, Resolves
<1>3. CASE (\/ FindDir(u) \/ FindTar(u) \/ Extracted(u) \/ DropTar(u) \/ Mount(u)
            \/ Describe(u) \/ Pack(u) \/ Packed(u) \/ Truncate(u)) /\ ~Ends(u)
  <2>1. \E pc \in Points \ {"extract", "extracting"} : Goto(u, pc)
    BY <1>3 DEF FindDir, FindTar, Extracted, DropTar, Mount, Describe, Pack, Packed,
                Truncate, Points, Boxed, Running, Packing
  <2> QED
    BY <2>1, GotoParts
<1>4. CASE ReadLower(u) /\ ~Ends(u)
  <2>1. \E q : proc'[u] = [proc[u] EXCEPT !.pc = "pack", !.layers = q]
    BY <1>4, Becomes DEF ReadLower, Ends
  <2> QED
    BY <1>0, <2>1 DEF IsCommand
<1>5. CASE ReadIndex(u) /\ ~Ends(u)
  <2>1. \E q : proc'[u] = [proc[u] EXCEPT !.pc = "truncate", !.copy = q]
    BY <1>5, Becomes DEF ReadIndex, Ends
  <2> QED
    BY <1>0, <2>1 DEF IsCommand
<1>6. CASE MakeDir(u)
  BY <1>6, GotoParts DEF MakeDir, Extract
<1>7. CASE Extract(u) /\ ~Ends(u)
  BY <1>7, GotoParts DEF Extract
<1> QED
  BY <1>1, <1>2, <1>3, <1>4, <1>5, <1>6, <1>7 DEF Moves, Step, WriteIndex

\* Who writes after a step.
LEMMA WritersAfter ==
  ASSUME TypeOK, NEW u \in Users, Moves(u), proc'[u].pc # "extracting", NEW l
  PROVE  Writers(l)' = Writers(l) \ {u}
<1>1. \A v \in Users : v # u => proc'[v] = proc[v]
  BY Others
<1> QED
  BY <1>1 DEF Writers, Top

LEMMA WriterBegins ==
  ASSUME TypeOK, NEW u \in Users, Goto(u, "extracting"), proc[u].pc # "extracting", NEW l
  PROVE  Writers(l)' = IF l = Top(u) THEN Writers(l) \cup {u} ELSE Writers(l)
<1>1. proc'[u].pc = "extracting" /\ proc'[u].layers = proc[u].layers
  BY GotoParts
<1>2. \A v \in Users : v # u => proc'[v] = proc[v]
  BY DEF Goto, Continue, TypeOK
<1> QED
  BY <1>1, <1>2 DEF Writers, Top

\* The files stay, and so does every tar.
LEMMA Steady ==
  ASSUME tars' = tars, dirs' = dirs, seen \subseteq seen', \A l \in Layers : Writers(l)' = Writers(l)
  PROVE  SafeLayers \subseteq SafeLayers' /\ DirLayers \subseteq DirLayers' /\ TarLayers \subseteq TarLayers'
<1>1. Damaged => Damaged'
  BY DEF Damaged
<1>2. DirLayers \subseteq DirLayers'
  BY <1>1 DEF DirLayers
<1>3. TarLayers \subseteq TarLayers'
  BY <1>1 DEF TarLayers
<1> QED
  BY <1>2, <1>3 DEF SafeLayers

LEMMA KeepingSteady ==
  ASSUME TypeOK, NEW u \in Users, Moves(u),
         proc[u].pc # "extracting", proc'[u].pc # "extracting", tars' = tars, dirs' = dirs
  PROVE  Kept /\ Appears(u) /\ \A v \in Users : Spared(v)
<1>1. \A l \in Layers : Writers(l)' = Writers(l) \ {u}
  BY WritersAfter
<1>2. \A l \in Layers : u \notin Writers(l)
  BY DEF Writers
<1>3. \A l \in Layers : Writers(l)' = Writers(l)
  BY <1>1, <1>2
<1> QED
  BY <1>3, Grows, Steady DEF Kept, Appears, Spared, Present

\* The layer at hand has a description, and is safe.
LEMMA TopSafe ==
  ASSUME TypeOK, KeepInv, NEW u \in Users, proc[u].pc \in Extracting
  PROVE  Top(u) \in Layers /\ Safe(Top(u))
<1>1. KeepsOf(u) /\ proc[u].pc \in Running
  BY DEF KeepInv, Extracting, Running
<1>2. Top(u) \in Layers /\ 1 \in DOMAIN proc[u].layers
  BY <1>1, CommandOfType, StackTyped DEF Top
<1>3. Top(u) \in Ids \cup {Base}
  BY <1>1 DEF KeepsOf, TypeOK, Top
<1>4. Safe(Base)
  BY DEF KeepInv
<1> QED
  BY <1>1, <1>2, <1>3, <1>4 DEF KeepsOf, Top

\* What a step does to each layer decides what is kept.
LEMMA KeptParts ==
  ASSUME seen \subseteq seen',
         Damaged \/ Damaged' \/ \A l \in Layers :
           /\ l \in SafeLayers => tars'[l] = "whole" \/ l \in DirLayers'
           /\ l \in DirLayers => l \in DirLayers'
  PROVE  SafeLayers \subseteq SafeLayers' /\ DirLayers \subseteq DirLayers'
<1>1. Damaged => Damaged'
  BY DEF Damaged
<1>2. Damaged' => DirLayers' = Layers
  BY DEF DirLayers
<1>3. SafeLayers \subseteq Layers /\ DirLayers \subseteq Layers
  BY DEF SafeLayers, DirLayers
<1> QED
  BY <1>1, <1>2, <1>3 DEF SafeLayers

LEMMA KeepingLayers ==
  ASSUME TypeOK, KeepInv, NEW u \in Users, Moves(u)
  PROVE  Kept /\ Appears(u) /\ \A v \in Users : v # u => Spared(v)
<1>0. /\ KeepsOf(u) /\ OneBusy
      /\ tars \in [Layers -> Extents] /\ dirs \in [Layers -> Extents \cup {"spoilt"}]
      /\ meta \subseteq meta' /\ seen \subseteq seen'
  BY Grows DEF KeepInv, TypeOK
<1>a. \A v \in Users : proc[v].pc \in Extracting => Top(v) \in Layers /\ Safe(Top(v))
  BY TopSafe
<1>b. \A l \in Layers : l \in SafeLayers /\ ~Damaged =>
        \/ tars[l] = "whole"
        \/ tars[l] # "partial" /\ (dirs[l] = "whole" \/ (dirs[l] = "partial" /\ Writers(l) # {}))
  BY DEF SafeLayers, DirLayers
<1>c. \A l \in Layers : l \in DirLayers /\ ~Damaged =>
        tars[l] # "partial" /\ (dirs[l] = "whole" \/ (dirs[l] = "partial" /\ Writers(l) # {}))
  BY DEF DirLayers
<1>d. \A l \in Layers :
        \/ Damaged'
        \/ tars'[l] # "partial" /\ (dirs'[l] = "whole" \/ (dirs'[l] = "partial" /\ Writers(l)' # {}))
        => l \in DirLayers'
  BY DEF DirLayers, Writers
<1>e. \A l \in Layers : (Damaged' \/ dirs'[l] = "partial") /\ "overlap" \in seen' => l \in TarLayers'
  BY DEF TarLayers
<1>f. \A l \in TarLayers : l \in Layers /\ (Damaged \/ dirs[l] = "partial")
                             /\ ("overlap" \in seen \/ tars[l] # "none")
  BY DEF TarLayers
<1>g. Damaged => Damaged'
  BY <1>0 DEF Damaged
<1>1. CASE /\ \/ Type(u) \/ FindCommand(u) \/ Resolve(u) \/ FindDir(u) \/ FindTar(u) \/ Mount(u)
              \/ Start(u) \/ ReadLower(u) \/ ReadIndex(u) \/ Truncate(u) \/ WriteIndex(u)
              \/ ReadList(u) \/ Size(u) \/ SizeTar(u) \/ Describe(u)
  <2>1. ~Extract(u) /\ proc[u].pc # "extracting" /\ tars' = tars /\ dirs' = dirs
    <3>1. CASE Type(u)
      <4>1. tars' = tars /\ dirs' = dirs /\ proc[u] = Idle
        BY <3>1 DEF Type
      <4>2. proc[u].pc = "idle"
        BY <4>1 DEF Idle
      <4> QED
        BY <4>1, <4>2 DEF Extract
    <3>2. CASE ~Type(u)
      BY <1>1, <3>2 DEF Extract, FindCommand, Resolve, FindDir, FindTar, Mount, Start, ReadLower,
                  ReadIndex, Truncate, WriteIndex, ReadList, Size, SizeTar, Describe
    <3> QED
      BY <3>1, <3>2
  <2> QED
    BY <2>1, OnlyExtract, KeepingSteady
<1>2. CASE MakeDir(u)
  <2>1. /\ proc[u].pc = "mkdir" /\ tars' = tars /\ seen' = seen /\ ~Extract(u)
        /\ Top(u) \in Layers
        /\ dirs' = [dirs EXCEPT ![Top(u)] = IF @ = "none" THEN "partial" ELSE @]
    BY <1>2, <1>a DEF MakeDir, Extract, Extracting
  <2>2. \A l \in Layers : /\ dirs'[l] = dirs[l] \/ (l = Top(u) /\ dirs[l] = "none" /\ dirs'[l] = "partial")
                          /\ Writers(l)' = Writers(l) \ {u} /\ u \notin Writers(l)
    BY <1>0, <2>1, OnlyExtract, WritersAfter DEF Writers
  <2>3. \A l \in Layers : Writers(l)' = Writers(l)
    BY <2>2
  <2>4. \A l \in Layers : /\ l \in SafeLayers => Damaged \/ tars'[l] = "whole" \/ l \in DirLayers'
                          /\ l \in DirLayers => Damaged \/ l \in DirLayers'
    BY <1>b, <1>c, <1>d, <2>1, <2>2, <2>3
  <2>5. SafeLayers \subseteq SafeLayers' /\ DirLayers \subseteq DirLayers'
    BY <1>0, <2>4, KeptParts
  <2>6. \A v \in Users : Spared(v)
    BY <1>e, <1>f, <1>g, <2>2 DEF Spared
  <2>7. Appears(u)
    BY <2>1, <2>2 DEF Appears, Present, Top, Extracting
  <2> QED
    BY <1>0, <2>5, <2>6, <2>7 DEF Kept
<1>3. CASE Extract(u) /\ tars[Top(u)] # "none"
  <2>1. /\ proc[u].pc = "extract" /\ tars' = tars /\ seen' = seen
        /\ Goto(u, "extracting") /\ dirs' = [dirs EXCEPT ![Top(u)] = "partial"]
        /\ Top(u) \in Layers /\ Safe(Top(u))
    BY <1>3, <1>a DEF Extract, Extracting
  <2>2. \A l \in Layers : /\ l # Top(u) => dirs'[l] = dirs[l] /\ Writers(l)' = Writers(l)
                          /\ l = Top(u) => dirs'[l] = "partial" /\ Writers(l)' # {}
    BY <1>0, <2>1, WriterBegins
  <2>4. \A l \in Layers : /\ l \in SafeLayers => Damaged \/ tars'[l] = "whole" \/ l \in DirLayers'
                          /\ l \in DirLayers => Damaged \/ l \in DirLayers'
    BY <1>b, <1>c, <1>d, <2>1, <2>2
  <2>5. SafeLayers \subseteq SafeLayers' /\ DirLayers \subseteq DirLayers'
    BY <1>0, <2>4, KeptParts
  <2>6. \A v \in Users : Spared(v)
    BY <1>e, <1>f, <1>g, <2>2 DEF Spared
  <2>7. Appears(u)
    BY <2>1, <2>2 DEF Appears, Present, Top, Extracting
  <2> QED
    BY <1>0, <2>5, <2>6, <2>7 DEF Kept
<1>4. CASE Extracted(u)
  <2>1. /\ proc[u].pc = "extracting" /\ tars' = tars /\ seen' = seen /\ ~Extract(u)
        /\ Top(u) \in Layers /\ Safe(Top(u)) /\ Top(u) \in TarLayers
    BY <1>0, <1>4, <1>a DEF Extracted, Extract, Extracting, KeepsOf, Top
  <2>2. \/ tars[Top(u)] = "partial" /\ dirs' = dirs
        \/ Writers(Top(u)) = {u} /\ dirs' = [dirs EXCEPT ![Top(u)] = "whole"]
        \/ (Writers(Top(u)) # {u} \/ dirs[Top(u)] = "spoilt") /\ dirs' = dirs
    BY <1>4 DEF Extracted
  <2>3. \A l \in Layers : Writers(l)' = Writers(l) \ {u} /\ (l # Top(u) => u \notin Writers(l))
    BY <2>1, OnlyExtract, WritersAfter DEF Writers, Top
  <2>4. u \in Writers(Top(u))
    BY <2>1 DEF Writers
  <2>5. \A l \in Layers : l # Top(u) => dirs'[l] = dirs[l] /\ Writers(l)' = Writers(l)
    BY <1>0, <2>2, <2>3
  <2>6. ASSUME NEW l \in Layers, l = Top(u)
        PROVE  \/ Damaged
               \/ tars[l] = "partial"
               \/ dirs'[l] = "whole"
               \/ dirs'[l] = "partial" /\ Writers(l)' # {}
    <3>1. Damaged \/ dirs[l] = "partial"
      BY <1>f, <2>1, <2>6
    <3>2. CASE tars[l] = "partial"
      BY <3>2
    <3>3. CASE Writers(l) = {u} /\ dirs' = [dirs EXCEPT ![l] = "whole"]
      BY <1>0, <3>3
    <3>4. CASE Writers(l) # {u} /\ dirs' = dirs
      <4>1. \E v \in Writers(l) : v # u
        BY <2>4, <2>6, <3>4
      <4>2. Writers(l)' # {}
        BY <2>3, <4>1
      <4> QED
        BY <3>1, <3>4, <4>2
    <3>5. CASE dirs[l] = "spoilt"
      BY <3>1, <3>5
    <3> QED
      BY <2>2, <2>6, <3>2, <3>3, <3>4, <3>5
  <2>7. \A l \in Layers : /\ l \in SafeLayers => Damaged \/ tars'[l] = "whole" \/ l \in DirLayers'
                          /\ l \in DirLayers => Damaged \/ l \in DirLayers'
    <3>1. ASSUME NEW l \in Layers, l = Top(u), ~Damaged
          PROVE  /\ l \in SafeLayers => tars'[l] = "whole" \/ l \in DirLayers'
                 /\ l \in DirLayers => l \in DirLayers'
      BY <1>b, <1>c, <1>d, <2>1, <2>6, <3>1
    <3>2. ASSUME NEW l \in Layers, l # Top(u), ~Damaged
          PROVE  /\ l \in SafeLayers => tars'[l] = "whole" \/ l \in DirLayers'
                 /\ l \in DirLayers => l \in DirLayers'
      BY <1>b, <1>c, <1>d, <2>1, <2>5, <3>2
    <3> QED
      BY <3>1, <3>2
  <2>8. SafeLayers \subseteq SafeLayers' /\ DirLayers \subseteq DirLayers'
    BY <1>0, <2>7, KeptParts
  <2>9. ASSUME NEW v \in Users, v # u PROVE Spared(v)
    <3>1. SUFFICES ASSUME "overlap" \in seen', proc[v].pc = "extracting", Top(v) \in TarLayers
                   PROVE  Top(v) \in TarLayers'
      BY DEF Spared, Top
    <3>2. v \in Writers(Top(v)) /\ Top(v) \in Layers
      BY <1>f, <3>1 DEF Writers
    <3>3. Writers(Top(u)) = {u} => Top(v) # Top(u)
      BY <2>9, <3>2
    <3>4. dirs'[Top(v)] = dirs[Top(v)]
      BY <2>2, <2>5, <3>2, <3>3
    <3> QED
      BY <1>e, <1>f, <1>g, <3>1, <3>2, <3>4
  <2>10. Appears(u)
    BY <2>1, <2>5 DEF Appears, Present, Top, Extracting
  <2> QED
    BY <1>0, <2>8, <2>9, <2>10 DEF Kept
<1>5. CASE DropTar(u)
  <2>1. /\ proc[u].pc = "droptar" /\ dirs' = dirs /\ seen' = seen /\ ~Extract(u)
        /\ Top(u) \in Layers /\ Top(u) \in DirLayers
        /\ tars' = [tars EXCEPT ![Top(u)] = "none"]
    BY <1>0, <1>5, <1>a DEF DropTar, Extract, Extracting, KeepsOf, Top
  <2>2. \A l \in Layers : /\ l # Top(u) => tars'[l] = tars[l]
                          /\ l = Top(u) => tars'[l] = "none"
                          /\ Writers(l)' = Writers(l) \ {u} /\ u \notin Writers(l)
    BY <1>0, <2>1, OnlyExtract, WritersAfter DEF Writers
  <2>3. \A l \in Layers : Writers(l)' = Writers(l)
    BY <2>2
  <2>4. \A l \in Layers : /\ l \in SafeLayers => Damaged \/ tars'[l] = "whole" \/ l \in DirLayers'
                          /\ l \in DirLayers => Damaged \/ l \in DirLayers'
    BY <1>b, <1>c, <1>d, <2>1, <2>2, <2>3
  <2>5. SafeLayers \subseteq SafeLayers' /\ DirLayers \subseteq DirLayers'
    BY <1>0, <2>4, KeptParts
  <2>6. \A v \in Users : Spared(v)
    BY <1>e, <1>f, <1>g, <2>1 DEF Spared
  <2>7. Appears(u)
    BY <2>1, <2>2 DEF Appears, Present
  <2> QED
    BY <1>0, <2>5, <2>6, <2>7 DEF Kept
<1>6. CASE Pack(u) \/ Packed(u)
  <2>1. /\ dirs' = dirs /\ ~Extract(u) /\ proc[u].pc \in {"pack", "packed"}
        /\ proc[u].id \in Layers
        /\ \A l \in Layers : l # proc[u].id => tars'[l] = tars[l]
        /\ Pack(u) => dirs[proc[u].id] = "none" /\ tars[proc[u].id] = "none"
        /\ Packed(u) => "tar" \in seen' \/ tars'[proc[u].id] = "whole"
    <3>1. Pack(u) => ~Present(proc[u].id)
      BY <1>0 DEF Pack, KeepsOf, Fresh
    <3> QED
      BY <1>0, <1>6, <3>1, CommandOfType DEF Pack, Packed, Extract, Present
  <2>2. \A l \in Layers : Writers(l)' = Writers(l) \ {u} /\ u \notin Writers(l)
    BY <2>1, OnlyExtract, WritersAfter DEF Writers
  <2>3. \A l \in Layers : Writers(l)' = Writers(l)
    BY <2>2
  <2>4. "tar" \in seen' => Damaged'
    BY DEF Damaged
  <2>5. \A l \in Layers : /\ l \in SafeLayers => Damaged \/ Damaged' \/ tars'[l] = "whole" \/ l \in DirLayers'
                          /\ l \in DirLayers => Damaged \/ Damaged' \/ l \in DirLayers'
    BY <1>6, <1>b, <1>c, <1>d, <2>1, <2>3, <2>4
  <2>6. SafeLayers \subseteq SafeLayers' /\ DirLayers \subseteq DirLayers'
    BY <1>0, <2>5, KeptParts
  <2>7. \A v \in Users : Spared(v)
    BY <1>e, <1>f, <1>g, <2>1 DEF Spared
  <2>8. Appears(u)
    BY <2>1 DEF Appears, Present
  <2> QED
    BY <1>0, <2>6, <2>7, <2>8 DEF Kept
<1>7. CASE \/ Crash(u) /\ proc[u].pc # "extracting"
           \/ Extract(u) /\ tars[Top(u)] = "none"
  <2>1. Ends(u) /\ tars' = tars /\ dirs' = dirs /\ proc[u].pc # "extracting"
    BY <1>7 DEF Crash, Extract
  <2>2. proc'[u].pc # "extracting"
    BY <2>1, Elsewhere
  <2> QED
    BY <2>1, <2>2, KeepingSteady
<1>8. CASE Crash(u) /\ proc[u].pc = "extracting"
  <2>1. /\ tars' = tars /\ seen' = seen \cup {"extract"}
        /\ Top(u) \in Layers /\ Safe(Top(u)) /\ Top(u) \in TarLayers
        /\ Ends(u) /\ u \in Busy
        /\ dirs' = IF Writers(Top(u)) # {u} THEN [dirs EXCEPT ![Top(u)] = "spoilt"] ELSE dirs
    BY <1>0, <1>8, <1>a DEF Crash, CutShort, Extracting, KeepsOf, Top
  <2>2. Appears(u)
    BY <1>0, <1>8, <2>1 DEF Appears, Present, Top, Extracting
  <2>3. CASE "overlap" \in seen'
    <3>1. Damaged'
      BY <2>1, <2>3 DEF Damaged
    <3>2. SafeLayers \subseteq SafeLayers' /\ DirLayers \subseteq DirLayers'
      BY <1>0, <3>1, KeptParts
    <3>3. \A v \in Users : Spared(v)
      BY <1>e, <1>f, <3>1 DEF Spared
    <3> QED
      BY <1>0, <2>2, <3>2, <3>3 DEF Kept
  <2>4. CASE "overlap" \notin seen'
    <3>1. \A v \in Busy : v = u
      BY <1>0, <2>1, <2>4 DEF OneBusy
    <3>2. \A v \in Users : proc[v].pc = "extracting" <=> v = u
      BY <1>8, <3>1 DEF Busy
    <3>3. Writers(Top(u)) = {u} /\ \A l \in Layers : l # Top(u) => Writers(l) = {}
      BY <3>2 DEF Writers
    <3>4. dirs' = dirs
      BY <2>1, <3>3
    <3>5. proc'[u].pc # "extracting"
      BY <2>1, Elsewhere
    <3>6. \A l \in Layers : l # Top(u) => Writers(l)' = {}
      BY <3>3, <3>5, WritersAfter
    <3>7. ASSUME NEW l \in SafeLayers PROVE tars[l] = "whole" \/ l \in DirLayers'
      <4>1. l \in Layers
        BY DEF SafeLayers, DirLayers
      <4>2. CASE l # Top(u)
        BY <1>b, <1>d, <1>g, <2>1, <3>3, <3>4, <3>6, <4>1, <4>2
      <4>3. CASE l = Top(u)
        <5>1. tars[l] # "none"
          BY <1>f, <2>1, <2>4, <4>3
        <5> QED
          BY <1>0, <1>b, <1>d, <1>g, <4>1, <5>1 DEF Extents
      <4> QED
        BY <4>2, <4>3
    <3>8. SafeLayers \subseteq SafeLayers'
      BY <2>1, <3>7 DEF SafeLayers, DirLayers
    <3>9. \A v \in Users : Spared(v)
      BY <2>4 DEF Spared
    <3> QED
      BY <1>0, <2>2, <2>4, <3>8, <3>9 DEF Kept
  <2> QED
    BY <2>3, <2>4
<1> QED
  BY <1>1, <1>2, <1>3, <1>4, <1>5, <1>6, <1>7, <1>8 DEF Moves, Step

LEMMA SafeStack ==
  ASSUME TypeOK, Kept, NEW q \in Seq(Layers)
  PROVE  \A n \in DOMAIN q : q[n] \in Layers /\ (Safe(q[n]) => Saved(q[n]))
<1>1. \A n \in DOMAIN q : q[n] \in Layers
  BY LenProperties, ElementOfSeq
<1> QED
  BY <1>1 DEF Kept, Safe, Saved

LEMMA SafeImages ==
  ASSUME TypeOK, Kept, NEW f, IsImages(f)
  PROVE  \A k \in DOMAIN f : \A n \in DOMAIN f[k] : f[k][n] \in Layers /\ (Safe(f[k][n]) => Saved(f[k][n]))
<1>1. \A k \in DOMAIN f : f[k] \in Seq(Layers)
  BY DEF IsImages, Stacks
<1> QED
  BY <1>1, SafeStack

\* What is typed is not the identifier of a layer, and what is in the index is safe.
LEMMA ResolvedSafe ==
  ASSUME TypeOK, KeepInv, NEW r \in Refs
  PROVE  \A n \in DOMAIN LayersOf(index, r) :
           Safe(LayersOf(index, r)[n]) \/ LayersOf(index, r)[n] \notin Ids
<1>1. \A n \in DOMAIN r : r[n] \notin Ids
  BY RefTyped, ImagesAssumptions
<1>2. r[1] \notin Ids
  BY RefTyped, ImagesAssumptions
<1>3. \A n \in DOMAIN <<r[1]>> : <<r[1]>>[n] \notin Ids
  <2>1. \A n \in DOMAIN <<r[1]>> : n = 1
    OBVIOUS
  <2> QED
    BY <1>2, <2>1
<1>4. Key(r) \in DOMAIN index.images =>
        \A n \in DOMAIN index.images[Key(r)] : Safe(index.images[Key(r)][n])
  BY DEF KeepInv, SafeIndex
<1> QED
  BY <1>1, <1>3, <1>4 DEF LayersOf

\* Steps of others leave a command where it is.
LEMMA KeepsLast ==
  ASSUME TypeOK, KeepInv, NEW u \in Users, Moves(u), Kept, Appears(u),
         NEW v \in Users, u # v, Spared(v), proc'[v] = proc[v]
  PROVE  KeepsOf(v)'
<1> DEFINE c == proc[v]
<1>1. KeepsOf(v) /\ IsImages(c.copy) /\ c.id \in Layers /\ c.layers \in Seq(Layers)
  BY CommandOfType DEF KeepInv
<1>2. \A n \in DOMAIN c.layers : c.layers[n] \in Layers /\ (Safe(c.layers[n]) => Saved(c.layers[n]))
  BY <1>1, SafeStack
<1>3. c.pc \in {"truncate", "write"} =>
        \A k \in DOMAIN c.copy : \A n \in DOMAIN c.copy[k] : Saved(c.copy[k][n])
  BY <1>1, SafeImages DEF KeepsOf
<1>4. c.pc \in Fresh => ~Present(c.id)'
  <2>1. Apart(u, v) /\ Apart(v, u)
    BY DEF KeepInv
  <2> QED
    BY <1>1, <2>1 DEF Appears, Apart, KeepsOf, Fresh, Making, Packing
<1>5. /\ c.pc = "droptar" => c.layers[1] \in DirLayers'
      /\ c.pc = "extracting" => c.layers[1] \in TarLayers'
  <2>1. c.pc # "idle" => "overlap" \in seen'
    BY StepsAlone DEF KeepInv
  <2> QED
    BY <1>1, <2>1 DEF KeepsOf, Kept, Spared
<1>6. /\ c.pc \in Extracting => c.layers[1] \in meta' \cup {Base}
      /\ c.pc \in Packing \cup {"lower"} => c.id \in meta'
      /\ c.pc \in Packing => c.layers[1] = c.id
  BY <1>1 DEF KeepsOf, Kept
<1>7. /\ c.pc \in Running => \A n \in DOMAIN c.layers : Saved(c.layers[n]) \/ c.layers[n] \notin Ids
      /\ c.pc \in Packing => \A n \in DOMAIN c.layers : n = 1 \/ Saved(c.layers[n])
      /\ c.pc \in Packing \ {"pack", "packed"} => Saved(c.id)
  BY <1>1, <1>2 DEF KeepsOf, Kept, Safe, Saved
<1> QED
  BY <1>3, <1>4, <1>5, <1>6, <1>7 DEF KeepsOf, Safe, Saved, Present

LEMMA KeepsNothing ==
  ASSUME NEW u \in Users, proc'[u].pc \notin Running \cup Making
  PROVE  KeepsOf(u)'
  BY DEF KeepsOf, Running, Making, Extracting, Fresh, Packing

LEMMA RunKeeps ==
  ASSUME TypeOK, KeepInv, NEW u \in Users, Kept,
         \/ Type(u) \/ FindCommand(u) \/ Resolve(u) \/ FindDir(u) \/ FindTar(u) \/ MakeDir(u)
         \/ Extract(u) \/ Extracted(u) \/ DropTar(u) \/ Mount(u) \/ Start(u)
         \/ ReadList(u) \/ Size(u) \/ SizeTar(u) \/ Crash(u)
  PROVE  KeepsOf(u)'
<1> DEFINE c == proc[u]
<1>0. KeepsOf(u) /\ c.layers \in Seq(Layers)
  BY CommandOfType DEF KeepInv
<1>1. CASE FindCommand(u) \/ ReadList(u) \/ Size(u) \/ SizeTar(u) \/ Start(u) \/ Crash(u) \/ Ends(u)
  BY <1>1, Elsewhere, KeepsNothing DEF Running, Making, Packing
<1>2. CASE Type(u)
  <2>1. CASE proc'[u].pc \in {"meta", "list"}
    BY <2>1, KeepsNothing DEF Running, Making, Packing
  <2>2. CASE proc'[u].pc = "describe" /\ proc'[u].id \in FreeIds
    <3>1. proc'[u].id \in Layers /\ proc'[u].id \notin meta /\ proc'[u].id # Base
      BY <2>2, ImagesAssumptions DEF FreeIds, Layers
    <3>2. tars' = tars /\ dirs' = dirs /\ ~Present(proc'[u].id)
      BY <1>2, <3>1 DEF Type, KeepInv, Described
    <3> QED
      BY <2>2, <3>2 DEF KeepsOf, Present, Running, Extracting, Packing
  <2> QED
    BY <1>2, <2>1, <2>2, Begins
<1>3. CASE Resolve(u)
  <2>1. /\ proc'[u].pc = "finddir" /\ proc[u].ref \in Refs
        /\ proc'[u].layers = LayersOf(index, proc[u].ref)
    BY <1>3, Resolves
  <2>2. PICK q : q = LayersOf(index, proc[u].ref)
    OBVIOUS
  <2>3. \A n \in DOMAIN q : Safe(q[n]) \/ q[n] \notin Ids
    BY <2>1, <2>2, ResolvedSafe
  <2>4. q \in Seq(Layers)
    BY <2>1, <2>2, LayersTyped DEF TypeOK, Stacks
  <2>5. \A n \in DOMAIN q : Saved(q[n]) \/ q[n] \notin Ids
    BY <2>3, <2>4, SafeStack
  <2> QED
    BY <2>1, <2>2, <2>5 DEF KeepsOf, Safe, Saved, Extracting, Fresh, Packing
<1>4. ASSUME c.pc \in Running, NEW pc \in Running, Goto(u, pc),
             pc \in Extracting => c.layers[1] \in meta' \cup {Base},
             pc = "extracting" => c.layers[1] \in TarLayers',
             pc = "droptar" => c.layers[1] \in DirLayers'
      PROVE  KeepsOf(u)'
  <2>1. proc'[u].pc = pc /\ proc'[u].layers = c.layers
    BY <1>4, GotoParts
  <2>2. \A n \in DOMAIN c.layers : Saved(c.layers[n]) \/ c.layers[n] \notin Ids
    BY <1>0, <1>4, SafeStack DEF KeepsOf
  <2> QED
    BY <1>4, <2>1, <2>2 DEF KeepsOf, Safe, Saved, Running, Fresh, Packing
<1>5. CASE FindDir(u) \/ Mount(u) \/ DropTar(u)
  <2>1. c.pc \in Running /\ (Ends(u) \/ \E pc \in Running \ Extracting : Goto(u, pc))
    BY <1>5 DEF FindDir, Mount, DropTar, Running, Extracting
  <2>2. \A pc \in Running \ Extracting : pc \notin {"extracting", "droptar"}
    BY DEF Extracting
  <2> QED
    BY <1>1, <1>4, <2>1, <2>2
<1>6. CASE FindTar(u) /\ ~Ends(u)
  <2>1. c.pc = "findtar" /\ tars[c.layers[1]] # "none" /\ Goto(u, "mkdir")
    BY <1>6 DEF FindTar, Top
  <2>2. c.layers[1] \in Layers
    BY <2>1, CommandOfType, StackTyped DEF Running
  <2>3. c.layers[1] \in meta' \cup {Base}
    BY <2>1, <2>2 DEF KeepInv, Described, Present, Kept
  <2> QED
    BY <1>4, <2>1, <2>3 DEF Running
<1>7. CASE MakeDir(u)
  <2>1. c.pc = "mkdir" /\ Goto(u, "extract")
    BY <1>7 DEF MakeDir
  <2>2. c.layers[1] \in meta' \cup {Base}
    BY <1>0, <2>1 DEF KeepsOf, Extracting, Kept
  <2> QED
    BY <1>4, <2>1, <2>2 DEF Running
<1>8. CASE Extract(u) /\ ~Ends(u)
  <2>1. /\ c.pc = "extract" /\ Goto(u, "extracting") /\ tars' = tars /\ tars[c.layers[1]] # "none"
        /\ dirs' = [dirs EXCEPT ![c.layers[1]] = "partial"]
    BY <1>8 DEF Extract, Top
  <2>2. c.layers[1] \in meta' \cup {Base}
    BY <1>0, <2>1 DEF KeepsOf, Extracting, Kept
  <2>3. c.layers[1] \in Layers
    BY <2>1, CommandOfType, StackTyped DEF Running
  <2>4. c.layers[1] \in TarLayers'
    <3>1. PICK l \in Layers : l = c.layers[1]
      BY <2>3
    <3>2. dirs'[l] = "partial" /\ tars'[l] # "none"
      BY <2>1, <3>1 DEF TypeOK
    <3>3. l \in TarLayers'
      BY <3>2 DEF TarLayers
    <3> QED
      BY <3>1, <3>3
  <2> QED
    BY <1>4, <2>1, <2>2, <2>4 DEF Running
<1>9. CASE Extracted(u) /\ ~Ends(u)
  <2>1. /\ c.pc = "extracting" /\ Goto(u, "droptar") /\ tars' = tars /\ tars[Top(u)] # "partial"
        /\ \/ Writers(Top(u)) = {u} /\ dirs' = [dirs EXCEPT ![Top(u)] = "whole"]
           \/ (Writers(Top(u)) # {u} \/ dirs[Top(u)] = "spoilt") /\ dirs' = dirs
    BY <1>9 DEF Extracted
  <2>2. c.layers[1] \in meta' \cup {Base}
    BY <1>0, <2>1 DEF KeepsOf, Extracting, Kept
  <2>3. PICK l \in Layers : l = Top(u)
    BY <2>1, CommandOfType, StackTyped DEF Running, Top
  <2>4. Damaged \/ dirs[l] = "partial"
    BY <1>0, <2>1, <2>3 DEF KeepsOf, TarLayers, Top
  <2>5. u \in Writers(l) /\ Writers(l)' = Writers(l) \ {u}
    BY <1>9, <2>1, <2>3, OnlyExtract, WritersAfter, GotoParts DEF Writers, Moves, Step
  <2>6. \/ Damaged \/ dirs'[l] = "whole"
        \/ dirs'[l] = "partial" /\ Writers(l)' # {}
    <3>1. CASE Writers(l) = {u} /\ dirs' = [dirs EXCEPT ![l] = "whole"]
      BY <3>1 DEF TypeOK
    <3>2. CASE Writers(l) # {u} /\ dirs' = dirs
      <4>1. \E v \in Writers(l) : v # u
        BY <2>5, <3>2
      <4>2. Writers(l)' # {}
        BY <2>5, <4>1
      <4> QED
        BY <2>4, <3>2, <4>2
    <3>3. CASE dirs[l] = "spoilt"
      BY <2>4, <3>3
    <3> QED
      BY <2>1, <2>3, <3>1, <3>2, <3>3
  <2>7. Damaged => Damaged'
    BY DEF Damaged, Kept
  <2>8. l \in DirLayers'
    BY <2>1, <2>3, <2>6, <2>7 DEF DirLayers
  <2> QED
    BY <1>4, <2>1, <2>2, <2>3, <2>8 DEF Running, Top
<1> QED
  BY <1>1, <1>2, <1>3, <1>5, <1>6, <1>7, <1>8, <1>9

LEMMA CommitKeeps ==
  ASSUME TypeOK, KeepInv, NEW u \in Users, Kept,
         \/ Describe(u) \/ ReadLower(u) \/ Pack(u) \/ Packed(u)
         \/ ReadIndex(u) \/ Truncate(u) \/ WriteIndex(u)
  PROVE  KeepsOf(u)'
<1> DEFINE c == proc[u]
<1>0. KeepsOf(u) /\ c.layers \in Seq(Layers) /\ c.id \in Layers /\ IsImages(c.copy) /\ IsCommand(c)
  BY CommandOfType DEF KeepInv, TypeOK
<1>1. CASE Ends(u)
  BY <1>1, Elsewhere, KeepsNothing DEF Running, Making, Packing
<1>2. CASE Describe(u)
  <2>1. c.pc = "describe" /\ c.id \in meta' /\ Goto(u, "lower") /\ tars' = tars /\ dirs' = dirs
    BY <1>2 DEF Describe
  <2>2. proc'[u].pc = "lower" /\ proc'[u].id = c.id
    BY <2>1, GotoParts
  <2>3. ~Present(c.id)
    BY <1>0, <2>1 DEF KeepsOf, Fresh
  <2> QED
    BY <2>1, <2>2, <2>3 DEF KeepsOf, Present, Running, Extracting, Packing
<1>3. CASE ReadLower(u)
  <2>1. c.pc = "lower" /\ c.box \in Containers
    BY <1>3, CommandOfType, PointSets DEF ReadLower
  <2>2. CASE Continue(u, Idle)
    BY <1>1, <2>2 DEF Ends
  <2>3. CASE ~Continue(u, Idle)
    <3> DEFINE low == boxes[c.box].layers
    <3>1. proc'[u] = [c EXCEPT !.pc = "pack", !.layers = <<c.id>> \o low]
      BY <1>3, <2>3, Becomes DEF ReadLower
    <3>2. low \in Seq(Layers) /\ \A n \in DOMAIN low : Safe(low[n])
      BY <2>1 DEF TypeOK, BoxType, KeepInv, SafeBoxes
    <3>3. dirs' = dirs /\ tars' = tars /\ seen' = seen /\ meta' = meta /\ c.id \in meta /\ ~Present(c.id)
      BY <1>0, <1>3, <2>1 DEF ReadLower, KeepsOf, Fresh
    <3> HIDE DEF low
    <3>4. /\ proc'[u].pc = "pack" /\ proc'[u].layers = <<c.id>> \o low
          /\ proc'[u].id = c.id
      BY <1>0, <3>1 DEF IsCommand
    <3>5. PICK q : q = <<c.id>> \o low
      OBVIOUS
    <3>6. q[1] = c.id /\ \A n \in DOMAIN q : n = 1 \/ Safe(q[n])
      BY <1>0, <3>2, <3>5, OnTop
    <3>7. q \in Seq(Layers)
      BY <1>0, <3>2, <3>5
    <3>8. \A n \in DOMAIN q : n = 1 \/ Saved(q[n])
      BY <3>6, <3>7, SafeStack
    <3> QED
      BY <3>3, <3>4, <3>5, <3>6, <3>8 DEF KeepsOf, Packing, Present, Safe, Saved, Running, Extracting
  <2> QED
    BY <2>2, <2>3
<1>4. ASSUME c.pc \in Packing, NEW pc \in Packing \ {"pack"}, Goto(u, pc),
             pc # "packed" => Saved(c.id),
             pc = "write" => c.pc = "truncate", pc # "truncate"
      PROVE  KeepsOf(u)'
  <2>1. proc'[u].pc = pc /\ proc'[u].layers = c.layers /\ proc'[u].id = c.id /\ proc'[u].copy = c.copy
    BY <1>4, GotoParts
  <2>2. \A n \in DOMAIN c.layers : n = 1 \/ Saved(c.layers[n])
    BY <1>0, <1>4, SafeStack DEF KeepsOf
  <2>3. c.id \in meta' /\ c.layers[1] = c.id
    BY <1>0, <1>4 DEF KeepsOf, Kept
  <2>4. pc = "write" => \A k \in DOMAIN c.copy : \A n \in DOMAIN c.copy[k] : Saved(c.copy[k][n])
    BY <1>0, <1>4, SafeImages DEF KeepsOf
  <2> QED
    BY <1>4, <2>1, <2>2, <2>3, <2>4 DEF KeepsOf, Safe, Saved, Running, Extracting, Fresh, Packing
<1>5. CASE Pack(u)
  BY <1>4, <1>5 DEF Pack, Packing
<1>6. CASE Packed(u)
  <2>1. Saved(c.id)
    <3>1. PICK l \in Layers : l = c.id
      BY <1>0
    <3>2. tars'[l] = "whole" \/ Damaged'
      BY <1>6, <3>1 DEF Packed, Damaged, TypeOK
    <3>3. l \in SafeLayers'
      BY <3>2 DEF SafeLayers, DirLayers
    <3> QED
      BY <3>1, <3>3 DEF Saved
  <2> QED
    BY <1>4, <1>6, <2>1 DEF Packed, Packing
<1>7. CASE Truncate(u)
  <2>1. c.pc = "truncate" /\ Goto(u, "write")
    BY <1>7 DEF Truncate
  <2>2. Saved(c.id)
    BY <1>0, <2>1 DEF KeepsOf, Kept, Packing, Safe, Saved
  <2> QED
    BY <1>4, <2>1, <2>2 DEF Packing
<1>8. CASE ReadIndex(u)
  <2>1. CASE Continue(u, Idle)
    BY <1>1, <2>1 DEF Ends
  <2>2. CASE ~Continue(u, Idle)
    <3>1. /\ proc'[u] = [c EXCEPT !.pc = "truncate", !.copy = index.images]
          /\ c.pc = "readindex"
          /\ dirs' = dirs /\ tars' = tars /\ meta' = meta /\ seen' = seen
      BY <1>8, <2>2, Becomes DEF ReadIndex
    <3>2. /\ proc'[u].pc = "truncate" /\ proc'[u].layers = c.layers
          /\ proc'[u].id = c.id /\ proc'[u].copy = index.images
      BY <1>0, <3>1 DEF IsCommand
    <3>3. PICK f : f = index.images
      OBVIOUS
    <3>4. IsImages(f)
      BY <3>3 DEF TypeOK, IsIndex
    <3>5. \A k \in DOMAIN f : \A n \in DOMAIN f[k] : Saved(f[k][n])
      BY <3>3, <3>4, SafeImages DEF KeepInv, SafeIndex
    <3>6. /\ c.id \in meta' /\ c.layers[1] = c.id /\ Saved(c.id)
          /\ \A n \in DOMAIN c.layers : n = 1 \/ Saved(c.layers[n])
      BY <1>0, <3>1, SafeStack DEF KeepsOf, Packing, Kept, Safe, Saved
    <3> QED
      BY <3>2, <3>3, <3>5, <3>6 DEF KeepsOf, Safe, Saved, Running, Extracting, Fresh, Packing
  <2> QED
    BY <2>1, <2>2
<1>9. CASE WriteIndex(u)
  BY <1>1, <1>9 DEF WriteIndex
<1> QED
  BY <1>2, <1>3, <1>5, <1>6, <1>7, <1>8, <1>9

\* What a command makes or extracts after a step it was at before, or has just taken.
LEMMA Takes ==
  ASSUME TypeOK, KeepInv, NEW u \in Users, Moves(u)
  PROVE  /\ proc'[u].pc \in Making =>
              \/ proc[u].pc \in Making /\ proc'[u].id = proc[u].id
                   /\ (proc'[u].pc \in Fresh => proc[u].pc \in Fresh)
              \/ proc'[u].id \in FreeIds
         /\ proc'[u].pc \in Extracting =>
              \/ proc[u].pc \in Extracting /\ proc'[u].layers[1] = proc[u].layers[1]
              \/ Present(proc'[u].layers[1]) /\ proc'[u].layers[1] \in Layers
<1>0. IsCommand(proc[u])
  BY DEF TypeOK
<1>1. CASE FindCommand(u) \/ ReadList(u) \/ Size(u) \/ SizeTar(u) \/ Start(u) \/ Crash(u) \/ Ends(u)
  BY <1>1, Elsewhere DEF Making, Packing, Extracting
<1>2. CASE Type(u) \/ Resolve(u)
  BY <1>2, Begins, Resolves DEF Making, Packing, Extracting
<1>3. CASE (FindDir(u) \/ FindTar(u) \/ MakeDir(u) \/ Extract(u) \/ Extracted(u) \/ DropTar(u) \/ Mount(u)) /\ ~Ends(u)
  <2>1. \E pc \in Running :
          /\ Goto(u, pc)
          /\ pc \in Extracting => proc[u].pc \in Extracting \/ FindTar(u)
    BY <1>3 DEF FindDir, FindTar, MakeDir, Extract, Extracted, DropTar, Mount, Running, Extracting
  <2>2. FindTar(u) /\ ~Ends(u) => Present(proc[u].layers[1]) /\ proc[u].layers[1] \in Layers
    BY CommandOfType, StackTyped DEF FindTar, Present, Top, Running
  <2>3. proc'[u].pc \in Running /\ proc'[u].layers = proc[u].layers
        /\ (proc'[u].pc \in Extracting => proc[u].pc \in Extracting \/ FindTar(u))
    BY <2>1, GotoParts
  <2>4. proc'[u].pc \notin Making
    BY <2>3 DEF Running, Making, Packing
  <2>5. FindTar(u) => Present(proc'[u].layers[1]) /\ proc'[u].layers[1] \in Layers
    BY <1>3, <2>2, <2>3
  <2> QED
    BY <2>3, <2>4, <2>5
<1>4. CASE (\/ Describe(u) \/ ReadLower(u) \/ Pack(u) \/ Packed(u)
            \/ ReadIndex(u) \/ Truncate(u) \/ WriteIndex(u)) /\ ~Ends(u)
  <2>1. /\ proc'[u].pc \in Making /\ proc[u].pc \in Making /\ proc'[u].id = proc[u].id
        /\ proc'[u].pc \in Fresh => proc[u].pc \in Fresh
    <3>1. CASE ReadLower(u)
      <4>1. \E q : proc'[u] = [proc[u] EXCEPT !.pc = "pack", !.layers = q]
        BY <1>4, <3>1, Becomes DEF ReadLower, Ends
      <4>2. proc[u].pc = "lower"
        BY <3>1 DEF ReadLower
      <4> QED
        BY <1>0, <4>1, <4>2 DEF IsCommand, Making, Packing, Fresh
    <3>2. CASE ReadIndex(u)
      <4>1. \E q : proc'[u] = [proc[u] EXCEPT !.pc = "truncate", !.copy = q]
        BY <1>4, <3>2, Becomes DEF ReadIndex, Ends
      <4>2. proc[u].pc = "readindex"
        BY <3>2 DEF ReadIndex
      <4> QED
        BY <1>0, <4>1, <4>2 DEF IsCommand, Making, Packing, Fresh
    <3>3. CASE Describe(u) \/ Pack(u) \/ Packed(u) \/ Truncate(u)
      <4>1. proc[u].pc \in Making /\ \E pc \in Making :
              Goto(u, pc) /\ (pc \in Fresh => proc[u].pc \in Fresh)
        BY <3>3 DEF Describe, Pack, Packed, Truncate, Making, Packing, Fresh
      <4> QED
        BY <4>1, GotoParts
    <3> QED
      BY <1>4, <3>1, <3>2, <3>3 DEF WriteIndex
  <2>2. proc'[u].pc \notin Extracting
    BY <2>1 DEF Making, Packing, Extracting
  <2> QED
    BY <2>1, <2>2
<1> QED
  BY <1>1, <1>2, <1>3, <1>4 DEF Moves, Step

LEMMA StayApart ==
  ASSUME TypeOK, KeepInv, NEW u \in Users, Moves(u)
  PROVE  (\A v, w \in Users : Apart(v, w))'
<1>1. ASSUME NEW v \in Users, v # u PROVE Apart(u, v)' /\ Apart(v, u)'
  <2>1. proc'[v] = proc[v] /\ Apart(u, v) /\ Apart(v, u) /\ KeepsOf(v) /\ KeepsOf(u)
    BY <1>1, Others DEF KeepInv
  <2>2. \A i \in FreeIds : i # proc[v].id /\ i \notin meta \cup {Base}
    BY ImagesAssumptions DEF FreeIds
  <2>3. Apart(u, v)'
    <3>1. proc'[u].pc \in Making /\ proc[v].pc \in Making => proc'[u].id # proc[v].id
      BY <1>1, <2>1, <2>2, Takes DEF Apart
    <3>2. proc'[u].pc \in Fresh => proc'[u].pc \in Making
      BY DEF Fresh, Making, Packing
    <3>3. proc'[u].pc \in Fresh /\ proc[v].pc \in Extracting => proc[v].layers[1] # proc'[u].id
      BY <1>1, <2>1, <2>2, <3>2, Takes DEF Apart, KeepsOf
    <3> QED
      BY <1>1, <2>1, <3>1, <3>3 DEF Apart
  <2>4. Apart(v, u)'
    <3>1. proc'[u].pc \in Making /\ proc[v].pc \in Making => proc'[u].id # proc[v].id
      BY <1>1, <2>1, <2>2, Takes DEF Apart
    <3>2. proc[v].pc \in Fresh /\ proc'[u].pc \in Extracting => proc'[u].layers[1] # proc[v].id
      BY <1>1, <2>1, Takes DEF Apart, KeepsOf
    <3> QED
      BY <1>1, <2>1, <3>1, <3>2 DEF Apart
  <2> QED
    BY <2>3, <2>4
<1>2. \A v \in Users : Apart(v, v)'
  BY DEF Apart, Fresh, Extracting
<1>3. ASSUME NEW v \in Users, NEW w \in Users, v # u, w # u PROVE Apart(v, w)'
  <2>1. proc'[v] = proc[v] /\ proc'[w] = proc[w] /\ Apart(v, w)
    BY <1>3, Others DEF KeepInv
  <2> QED
    BY <2>1 DEF Apart
<1> QED
  BY <1>1, <1>2, <1>3

LEMMA StayDescribed ==
  ASSUME TypeOK, KeepInv, NEW u \in Users, Kept, Appears(u)
  PROVE  Described'
<1>1. KeepsOf(u) /\ Described
  BY DEF KeepInv
<1> QED
  BY <1>1 DEF Described, KeepsOf, Kept, Appears, Packing, Present

LEMMA IndexSafe ==
  ASSUME TypeOK, KeepInv, NEW u \in Users, Moves(u), Kept
  PROVE  SafeIndex'
<1>1. IsImages(index.images) /\ KeepsOf(u)
  BY DEF TypeOK, IsIndex, KeepInv
<1>2. CASE Truncate(u)
  BY <1>2 DEF Truncate, SafeIndex, NoImages
<1>3. CASE WriteIndex(u)
  <2> DEFINE c == proc[u]
  <2>1. c.pc = "write" /\ index'.images = Entered(c)
    BY <1>3 DEF WriteIndex
  <2>2. c.layers \in Seq(Layers) /\ IsImages(c.copy)
    BY CommandOfType
  <2>3. \A n \in DOMAIN c.layers : Saved(c.layers[n])
    <3>1. \A n \in DOMAIN c.layers : Safe(c.layers[n])
      BY <1>1, <2>1 DEF KeepsOf, Packing
    <3> QED
      BY <2>2, <3>1, SafeStack
  <2>4. \A k \in DOMAIN c.copy : \A n \in DOMAIN c.copy[k] : Saved(c.copy[k][n])
    BY <1>1, <2>1, <2>2, SafeImages DEF KeepsOf
  <2>5. \A k \in DOMAIN Entered(c) :
          Entered(c)[k] = c.layers \/ (k \in DOMAIN c.copy /\ Entered(c)[k] = c.copy[k])
    BY DEF Entered
  <2> QED
    BY <2>1, <2>3, <2>4, <2>5 DEF SafeIndex, Safe, Saved
<1>4. CASE ~Truncate(u) /\ ~WriteIndex(u)
  <2>1. index' = index
    BY <1>4 DEF Moves, Step, Type, Crash, FindCommand, Resolve, FindDir, FindTar, MakeDir, Extract,
                Extracted, DropTar, Mount, Start, Describe, ReadLower, Pack, Packed, ReadIndex, ReadList,
                Size, SizeTar
  <2>2. \A k \in DOMAIN index.images : \A n \in DOMAIN index.images[k] : Saved(index.images[k][n])
    BY <1>1, SafeImages DEF KeepInv, SafeIndex
  <2> QED
    BY <2>1, <2>2 DEF SafeIndex, Safe, Saved
<1> QED
  BY <1>2, <1>3, <1>4

\* A box is mounted on layers, and no step changes those of another.
LEMMA BoxSteps ==
  ASSUME TypeOK, NEW u \in Users, Moves(u)
  PROVE  \/ \A b \in Containers : boxes'[b].layers = boxes[b].layers
         \/ /\ Mount(u) /\ dirs' = dirs /\ proc[u].pc = "mount"
            /\ \A n \in DOMAIN proc[u].layers : HasDir(proc[u].layers[n])
            /\ \A b \in Containers : boxes'[b].layers \in {boxes[b].layers, proc[u].layers}
<1>1. CASE Mount(u) /\ boxes' # boxes
  <2>1. boxes' = [boxes EXCEPT ![proc[u].box] = [state |-> "mounted", layers |-> proc[u].layers]]
    BY <1>1 DEF Mount
  <2>2. \A b \in Containers : boxes'[b] \in {boxes[b], [state |-> "mounted", layers |-> proc[u].layers]}
    BY <2>1 DEF TypeOK
  <2> QED
    BY <1>1, <2>2 DEF Mount, HasDir
<1>2. CASE Start(u)
  BY <1>2 DEF Start, TypeOK, BoxType
<1>3. CASE ~Start(u) /\ (~Mount(u) \/ boxes' = boxes)
  BY <1>3 DEF Moves, Step, Type, Crash, FindCommand, Resolve, FindDir, FindTar, MakeDir,
              Extract, Extracted, DropTar, Truncate, WriteIndex, Describe, ReadLower, Pack, Packed, ReadIndex,
              ReadList, Size, SizeTar
<1> QED
  BY <1>1, <1>2, <1>3

LEMMA BoxesSafe ==
  ASSUME TypeOK, KeepInv, NEW u \in Users, Moves(u), Kept
  PROVE  SafeBoxes'
<1>1. \A b \in Containers : \A n \in DOMAIN boxes[b].layers : Saved(boxes[b].layers[n])
  <2>1. \A b \in Containers : boxes[b].layers \in Seq(Layers)
    BY DEF TypeOK, BoxType
  <2> QED
    BY <2>1, SafeStack DEF KeepInv, SafeBoxes
<1>2. CASE \A b \in Containers : boxes'[b].layers = boxes[b].layers
  BY <1>1, <1>2 DEF SafeBoxes, Safe, Saved
<1>3. CASE /\ proc[u].pc = "mount"
           /\ \A n \in DOMAIN proc[u].layers : HasDir(proc[u].layers[n])
           /\ \A b \in Containers : boxes'[b].layers \in {boxes[b].layers, proc[u].layers}
  <2>1. proc[u].layers \in Seq(Layers) /\ KeepsOf(u)
    BY CommandOfType DEF KeepInv
  <2>2. \A n \in DOMAIN proc[u].layers : proc[u].layers[n] \in Layers
    BY <2>1, SafeStack
  <2>3. \A n \in DOMAIN proc[u].layers : proc[u].layers[n] \in Ids \cup {Base}
    BY <1>3, <2>2 DEF KeepInv, Described, Present, HasDir, TypeOK
  <2>4. \A n \in DOMAIN proc[u].layers : Safe(proc[u].layers[n])
    BY <1>3, <2>1, <2>3 DEF KeepsOf, Running, KeepInv
  <2>5. \A n \in DOMAIN proc[u].layers : Saved(proc[u].layers[n])
    BY <2>1, <2>4, SafeStack
  <2> QED
    BY <1>1, <1>3, <2>5 DEF SafeBoxes, Safe, Saved
<1> QED
  BY <1>2, <1>3, BoxSteps

LEMMA KeepStep == TypeOK /\ KeepInv /\ [Next]_vars => KeepInv'
<1> SUFFICES ASSUME TypeOK, KeepInv, [Next]_vars PROVE KeepInv'
  OBVIOUS
<1> USE DEF KeepInv
<1>1. CASE UNCHANGED vars
  BY <1>1 DEF vars, OneBusy, Busy, SafeIndex, SafeBoxes, Described, KeepsOf, Apart, Safe, SafeLayers,
              DirLayers, TarLayers, Damaged, Writers, Top, Present
<1>2. CASE RemoveBox
  <2>1. \A b \in Containers : boxes'[b] = boxes[b] \/ boxes'[b].layers = <<>>
    BY <1>2 DEF RemoveBox, NoBox, TypeOK
  <2>2. DOMAIN <<>> = {}
    OBVIOUS
  <2>3. tars' = tars /\ dirs' = dirs /\ meta' = meta /\ index' = index /\ proc' = proc /\ seen \subseteq seen'
    BY <1>2 DEF RemoveBox
  <2>4. /\ SafeLayers \subseteq SafeLayers' /\ DirLayers \subseteq DirLayers'
        /\ TarLayers \subseteq TarLayers'
    <3>1. \A l \in Layers : Writers(l)' = Writers(l)
      BY <2>3 DEF Writers, Top
    <3> QED
      BY <2>3, <3>1, Steady
  <2>5. Safe(Base)' /\ Described' /\ SafeIndex'
    BY <2>3, <2>4 DEF Described, SafeIndex, Safe, Present
  <2>6. SafeBoxes'
    BY <2>1, <2>2, <2>3, <2>4 DEF SafeBoxes, Safe
  <2>7. \A u \in Users : KeepsOf(u)'
    BY <2>3, <2>4 DEF KeepsOf, Safe, Present
  <2>8. \A u, v \in Users : Apart(u, v)'
    BY <2>3 DEF Apart
  <2>9. OneBusy'
    BY <2>3 DEF OneBusy, Busy
  <2> QED
    BY <2>5, <2>6, <2>7, <2>8, <2>9
<1>3. ASSUME NEW u \in Users, Moves(u) PROVE KeepInv'
  <2>1. Kept /\ Appears(u) /\ \A v \in Users : v # u => Spared(v)
    BY <1>3, KeepingLayers
  <2>2. KeepsOf(u)'
    BY <1>3, <2>1, RunKeeps, CommitKeeps DEF Moves, Step
  <2>3. \A v \in Users : KeepsOf(v)'
    BY <1>3, <2>1, <2>2, Others, KeepsLast
  <2>4. Safe(Base)'
    BY <2>1 DEF Kept, Safe
  <2>5. (\A v, w \in Users : Apart(v, w))'
    BY <1>3, StayApart
  <2>6. OneBusy'
    BY <1>3, StayOne
  <2> QED
    BY <1>3, <2>1, <2>3, <2>4, <2>5, <2>6, StayDescribed, IndexSafe, BoxesSafe
<1> QED
  BY <1>1, <1>2, <1>3 DEF Next, Moves

LEMMA InitKeeps == Init => KeepInv
<1> SUFFICES ASSUME Init PROVE KeepInv
  OBVIOUS
<1>1. \A u, v \in Users : KeepsOf(u) /\ Apart(u, v)
  BY DEF Init, KeepsOf, Apart, Idle, Running, Extracting, Making, Packing, Fresh
<1>2. SafeIndex
  BY DEF Init, SafeIndex, NoImages
<1>3. SafeBoxes
  <2>1. \A b \in Containers : DOMAIN boxes[b].layers = {}
    BY DEF Init, NoBox
  <2> QED
    BY <2>1 DEF SafeBoxes
<1>4. Safe(Base) /\ Described
  BY DEF Init, Safe, SafeLayers, Described, Present, Layers
<1>5. OneBusy
  BY DEF Init, OneBusy, Busy, Idle
<1> QED
  BY <1>1, <1>2, <1>3, <1>4, <1>5 DEF KeepInv

\* No layer of an image is lost, unless tar fails to pack one, or commands
\* overlap and an extraction is cut short as well: an archive that is deleted is
\* whole as a directory, or a tar that has it open still writes it.
THEOREM NoLayerLost == Spec => []NothingLost
<1>1. Init => TypeOK /\ KeepInv
  BY InitTyped, InitKeeps
<1>2. TypeOK /\ KeepInv /\ [Next]_vars => (TypeOK /\ KeepInv)'
  BY TypeStep, KeepStep
<1>3. KeepInv => NothingLost
  <2> SUFFICES ASSUME KeepInv, ~Damaged, NEW l, Safe(l)
               PROVE  tars[l] = "whole" \/ dirs[l] = "whole" \/ Writers(l) # {}
    BY DEF KeepInv, SafeIndex, NothingLost, Damaged
  <2> QED
    BY DEF Safe, SafeLayers, DirLayers
<1> QED
  BY <1>1, <1>2, <1>3, PTL DEF Spec

-----------------------------------------------------------------------------
(* Commands that do not overlap. *)

ListPart(u) ==
  /\ proc[u].pc \in {"size", "sizetar"} => \A l \in proc[u].todo : Present(l)
  /\ proc[u].pc = "sizetar" => tars[proc[u].id] # "none"

DirPart(u) == proc[u].pc \in {"findtar", "mkdir"} => dirs[proc[u].layers[1]] = "none"

IndexPart(u) ==
  /\ proc[u].pc = "truncate" => index.state # "torn" /\ proc[u].copy = index.images
  /\ proc[u].pc = "write" => index.state = "torn"

AloneInv ==
  "overlap" \notin seen =>
    \A u \in Users : ListPart(u) /\ DirPart(u) /\ IndexPart(u)

LEMMA AloneNothing ==
  ASSUME NEW u \in Users,
         proc'[u].pc \notin {"size", "sizetar", "findtar", "mkdir", "truncate", "write"}
  PROVE  (ListPart(u) /\ DirPart(u) /\ IndexPart(u))'
  BY DEF ListPart, DirPart, IndexPart

\* What "image ls" has still to look at.
LEMMA ListMoves ==
  ASSUME TypeOK, NEW u \in Users, ReadList(u) \/ Size(u) \/ SizeTar(u)
  PROVE  \/ proc'[u].pc = "idle"
         \/ /\ proc'[u].pc = "size"
            /\ proc'[u].todo = UNION {{index.images[k][n] : n \in DOMAIN index.images[k]} :
                                        k \in DOMAIN index.images}
         \/ /\ proc[u].pc \in {"size", "sizetar"} /\ proc'[u].pc = "size"
            /\ proc'[u].todo \subseteq proc[u].todo
         \/ /\ proc[u].pc = "size" /\ proc'[u].pc = "sizetar"
            /\ proc'[u].todo \subseteq proc[u].todo
            /\ proc'[u].id \in proc[u].todo /\ dirs[proc'[u].id] = "none"
<1>0. IsCommand(proc[u]) /\ \A c : Continue(u, c) => proc'[u] = c
  BY Becomes DEF TypeOK
<1>1. CASE ReadList(u)
  <2> DEFINE all == UNION {{index.images[k][n] : n \in DOMAIN index.images[k]} :
                            k \in DOMAIN index.images}
  <2>1. Continue(u, [proc[u] EXCEPT !.pc = "size", !.todo = all])
    BY <1>1 DEF ReadList
  <2> HIDE DEF all
  <2>2. proc'[u].pc = "size" /\ proc'[u].todo = all
    BY <1>0, <2>1 DEF IsCommand
  <2> QED
    BY <2>2 DEF all
<1>2. CASE Size(u)
  <2>1. proc[u].pc = "size"
    BY <1>2 DEF Size
  <2>2. CASE Ends(u)
    BY <2>2, EndsIdle DEF Idle
  <2>3. CASE ~Ends(u)
    <3>1. PICK l \in proc[u].todo :
            IF dirs[l] # "none"
              THEN Continue(u, [proc[u] EXCEPT !.todo = @ \ {l}])
              ELSE Continue(u, [proc[u] EXCEPT !.pc = "sizetar", !.id = l, !.todo = @ \ {l}])
      BY <1>2, <2>3 DEF Size
    <3>2. CASE dirs[l] # "none"
      <4>1. proc'[u] = [proc[u] EXCEPT !.todo = @ \ {l}]
        BY <1>0, <3>1, <3>2
      <4>2. proc'[u].pc = "size" /\ proc'[u].todo = proc[u].todo \ {l}
        BY <1>0, <2>1, <4>1 DEF IsCommand
      <4> QED
        BY <2>1, <4>2
    <3>3. CASE dirs[l] = "none"
      <4>1. proc'[u] = [proc[u] EXCEPT !.pc = "sizetar", !.id = l, !.todo = @ \ {l}]
        BY <1>0, <3>1, <3>3
      <4>2. proc'[u].pc = "sizetar" /\ proc'[u].id = l /\ proc'[u].todo = proc[u].todo \ {l}
        BY <1>0, <4>1 DEF IsCommand
      <4> QED
        BY <2>1, <3>3, <4>2
    <3> QED
      BY <3>2, <3>3
  <2> QED
    BY <2>2, <2>3
<1>3. CASE SizeTar(u)
  <2>1. CASE proc'[u] = Idle
    BY <2>1 DEF Idle
  <2>2. CASE proc'[u] # Idle
    <3>1. proc[u].pc = "sizetar" /\ proc'[u] = [proc[u] EXCEPT !.pc = "size", !.id = Base]
      BY <1>0, <1>3, <2>2 DEF SizeTar
    <3>2. proc'[u].pc = "size" /\ proc'[u].todo = proc[u].todo
      BY <1>0, <3>1 DEF IsCommand
    <3> QED
      BY <3>1, <3>2
  <2> QED
    BY <2>1, <2>2
<1> QED
  BY <1>1, <1>2, <1>3

LEMMA AloneParts ==
  ASSUME TypeOK, UseInv, NEW u \in Users, Moves(u), ListPart(u), DirPart(u), IndexPart(u)
  PROVE  (ListPart(u) /\ DirPart(u) /\ IndexPart(u))'
<1>1. CASE ReadList(u) \/ Size(u) \/ SizeTar(u)
  <2>1. tars' = tars /\ dirs' = dirs
    BY <1>1 DEF ReadList, Size, SizeTar
  <2>2. \A l \in UNION {{index.images[k][n] : n \in DOMAIN index.images[k]} :
                         k \in DOMAIN index.images} : Present(l)
    BY DEF UseInv, Usable
  <2>3. proc'[u].pc \in {"idle", "size", "sizetar"}
    BY <1>1, ListMoves
  <2>4. proc'[u].pc \in {"size", "sizetar"} => \A l \in proc'[u].todo : Present(l)
    BY <1>1, <2>2, ListMoves DEF ListPart
  <2>5. proc'[u].pc = "sizetar" => tars[proc'[u].id] # "none"
    BY <1>1, ListMoves DEF ListPart, Present
  <2> QED
    BY <2>1, <2>3, <2>4, <2>5 DEF ListPart, DirPart, IndexPart, Present
<1>2. CASE FindCommand(u) \/ Start(u) \/ Crash(u) \/ Ends(u)
  BY <1>2, Elsewhere, Quiet, AloneNothing
<1>3. CASE Type(u) \/ Resolve(u)
  BY <1>3, Begins, Resolves, AloneNothing
<1>4. CASE FindDir(u) \/ FindTar(u)
  <2>1. \/ Ends(u) \/ Goto(u, "mount")
        \/ /\ dirs[proc[u].layers[1]] = "none" /\ dirs' = dirs
           /\ Goto(u, "findtar") \/ Goto(u, "mkdir")
    BY <1>4 DEF FindDir, FindTar, DirPart, Top
  <2>2. CASE Goto(u, "mount")
    BY <2>2, GotoParts, AloneNothing
  <2>3. CASE /\ dirs[proc[u].layers[1]] = "none" /\ dirs' = dirs
             /\ Goto(u, "findtar") \/ Goto(u, "mkdir")
    <3>1. proc'[u].pc \in {"findtar", "mkdir"} /\ proc'[u].layers = proc[u].layers
      BY <2>3, GotoParts
    <3> QED
      BY <2>3, <3>1 DEF ListPart, DirPart, IndexPart
  <2> QED
    BY <1>2, <2>1, <2>2, <2>3
<1>5. ASSUME NEW pc \in {"extract", "extracting", "droptar", "mount", "start", "lower", "packed", "readindex"},
             Goto(u, pc)
      PROVE  (ListPart(u) /\ DirPart(u) /\ IndexPart(u))'
  BY <1>5, GotoParts, AloneNothing
<1>6. CASE MakeDir(u) \/ Extract(u) \/ Extracted(u) \/ DropTar(u) \/ Mount(u) \/ Describe(u) \/ Pack(u) \/ Packed(u)
  <2>1. Ends(u) \/ \E pc \in {"extract", "extracting", "droptar", "mount", "start", "lower", "packed", "readindex"} :
                     Goto(u, pc)
    BY <1>6 DEF MakeDir, Extract, Extracted, DropTar, Mount, Describe, Pack, Packed
  <2> QED
    BY <1>2, <1>5, <2>1
<1>7. CASE ReadLower(u) /\ ~Ends(u)
  <2>1. \E q : proc'[u] = [proc[u] EXCEPT !.pc = "pack", !.layers = q]
    BY <1>7, Becomes DEF ReadLower, Ends
  <2>2. proc'[u].pc = "pack"
    BY <2>1 DEF TypeOK, IsCommand
  <2> QED
    BY <2>2, AloneNothing
<1>8. CASE ReadIndex(u) /\ ~Ends(u)
  <2>1. /\ proc'[u] = [proc[u] EXCEPT !.pc = "truncate", !.copy = index.images]
        /\ index.state # "torn" /\ index' = index
    BY <1>8, Becomes DEF ReadIndex, Ends
  <2>2. proc'[u].pc = "truncate" /\ proc'[u].copy = index.images
    BY <2>1 DEF TypeOK, IsCommand
  <2> QED
    BY <2>1, <2>2 DEF ListPart, DirPart, IndexPart
<1>9. CASE Truncate(u)
  <2>1. Goto(u, "write") /\ index'.state = "torn"
    BY <1>9 DEF Truncate
  <2>2. proc'[u].pc = "write"
    BY <2>1, GotoParts
  <2> QED
    BY <2>1, <2>2 DEF ListPart, DirPart, IndexPart
<1>10. CASE WriteIndex(u)
  BY <1>2, <1>10 DEF WriteIndex
<1> QED
  BY <1>1, <1>2, <1>3, <1>4, <1>6, <1>7, <1>8, <1>9, <1>10 DEF Moves, Step

LEMMA AloneStep == TypeOK /\ UseInv /\ KeepInv /\ AloneInv /\ [Next]_vars => AloneInv'
<1> SUFFICES ASSUME TypeOK, UseInv, KeepInv, AloneInv, [Next]_vars, "overlap" \notin seen'
             PROVE  (\A u \in Users : ListPart(u) /\ DirPart(u) /\ IndexPart(u))'
  BY DEF AloneInv
<1>1. CASE UNCHANGED vars \/ RemoveBox
  <2>1. "overlap" \notin seen /\ tars' = tars /\ dirs' = dirs /\ index' = index /\ proc' = proc
    BY <1>1 DEF vars, RemoveBox
  <2> QED
    BY <2>1 DEF AloneInv, ListPart, DirPart, IndexPart, Present
<1>2. ASSUME NEW u \in Users, Moves(u)
      PROVE  (\A v \in Users : ListPart(v) /\ DirPart(v) /\ IndexPart(v))'
  <2>1. /\ "overlap" \notin seen
        /\ \A v \in Users : v # u => proc[v].pc = "idle" /\ proc'[v] = proc[v]
    BY <1>2, StepsAlone DEF KeepInv
  <2>2. (ListPart(u) /\ DirPart(u) /\ IndexPart(u))'
    BY <1>2, <2>1, AloneParts DEF AloneInv
  <2>3. \A v \in Users : v # u => proc'[v].pc = "idle"
    BY <2>1
  <2>4. \A v \in Users : v # u => (ListPart(v) /\ DirPart(v) /\ IndexPart(v))'
    BY <2>3, AloneNothing
  <2> QED
    BY <2>2, <2>4
<1> QED
  BY <1>1, <1>2 DEF Next, Moves

LEMMA InitAlone == Init => AloneInv
  BY DEF Init, AloneInv, ListPart, DirPart, IndexPart, Idle

SoFar == TypeOK /\ UseInv /\ KeepInv /\ AloneInv

LEMMA SoFarHolds == Spec => []SoFar
<1>1. Init => SoFar
  BY InitTyped, InitUses, InitKeeps, InitAlone DEF SoFar
<1>2. SoFar /\ [Next]_vars => SoFar'
  BY TypeStep, UseStep, KeepStep, AloneStep DEF SoFar
<1> QED
  BY <1>1, <1>2, PTL DEF Spec

\* "image ls" alone does not panic.
THEOREM ListingAlone == Spec => ListsAlone
<1>1. SoFar /\ [Next]_vars => [\A u \in Users : SizeTar(u) /\ SizePanics(u) => "overlap" \in seen]_vars
  BY DEF SoFar, AloneInv, ListPart, SizePanics
<1> QED
  BY <1>1, SoFarHolds, PTL DEF Spec, ListsAlone

-----------------------------------------------------------------------------
(* Containers run on whole layers. *)

Orderly == seen \cap {"overlap", "extract", "tar"} = {}

\* A directory that is not whole is being extracted.
DirsInv ==
  Orderly =>
    /\ \A l \in Layers : dirs[l] \in {"partial", "spoilt"} =>
         \E u \in Users : proc[u].pc \in {"extract", "extracting"} /\ proc[u].layers[1] = l
    /\ \A u \in Users : proc[u].pc \in {"extract", "extracting"} => dirs[proc[u].layers[1]] = "partial"
    /\ \A b \in Containers : \A n \in DOMAIN boxes[b].layers : dirs[boxes[b].layers[n]] = "whole"

\* What a step of a command that runs alone does to the directories.
LEMMA DirsAlone ==
  ASSUME SoFar, DirsInv, NEW u \in Users, Moves(u), Orderly'
  PROVE  /\ Orderly
         /\ \A v \in Users : v # u => proc[v].pc = "idle" /\ proc'[v] = proc[v]
         /\ \/ /\ dirs' = dirs
               /\ proc[u].pc \notin {"extract", "extracting"}
               /\ proc'[u].pc \notin {"extract", "extracting"}
            \/ /\ Top(u) \in Layers /\ proc'[u].pc \in {"extract", "extracting"}
               /\ proc'[u].layers = proc[u].layers
               /\ dirs[Top(u)] # "whole" /\ dirs' = [dirs EXCEPT ![Top(u)] = "partial"]
            \/ /\ proc[u].pc = "extracting" /\ Top(u) \in Layers
               /\ proc'[u].pc \notin {"extract", "extracting"}
               /\ dirs' = [dirs EXCEPT ![Top(u)] = "whole"]
<1> USE DEF SoFar
<1>0. /\ Kept /\ KeepsOf(u) /\ OneBusy /\ IsCommand(proc[u]) /\ tars \in [Layers -> Extents]
      /\ dirs \in [Layers -> Extents \cup {"spoilt"}]
      /\ "overlap" \notin seen' /\ "tar" \notin seen' /\ "extract" \notin seen'
  BY KeepingLayers DEF KeepInv, TypeOK, Orderly
<1>1. Orderly /\ ~Damaged /\ \A v \in Users : v # u => proc[v].pc = "idle" /\ proc'[v] = proc[v]
  BY <1>0, StepsAlone DEF Kept, Orderly, Damaged
<1>2. proc[u].pc \in Extracting => Top(u) \in Layers /\ Safe(Top(u))
  BY TopSafe
<1>3. \A l : Writers(l) \subseteq {u}
  BY <1>1 DEF Writers
<1>4. proc[u].pc \in {"extract", "extracting"} => dirs[Top(u)] = "partial"
  BY <1>1 DEF DirsInv, Top
<1>5. CASE MakeDir(u)
  <2>1. /\ proc[u].pc = "mkdir" /\ Goto(u, "extract")
        /\ dirs' = [dirs EXCEPT ![Top(u)] = IF @ = "none" THEN "partial" ELSE @]
    BY <1>5 DEF MakeDir
  <2>2. dirs[Top(u)] = "none"
    BY <1>1, <2>1 DEF AloneInv, DirPart, Orderly, Top
  <2>3. Top(u) \in Layers /\ proc'[u].pc = "extract" /\ proc'[u].layers = proc[u].layers
    BY <1>2, <2>1, GotoParts DEF Extracting
  <2> QED
    BY <1>0, <1>1, <2>1, <2>2, <2>3
<1>6. CASE Extract(u)
  <2>1. proc[u].pc = "extract" /\ Top(u) \in SafeLayers /\ Top(u) \in Layers
    BY <1>2, <1>6 DEF Extract, Extracting, Safe
  <2>2. Writers(Top(u)) = {}
    BY <1>3, <2>1 DEF Writers
  <2>3. tars[Top(u)] = "whole"
    BY <1>1, <1>4, <2>1, <2>2 DEF SafeLayers, DirLayers
  <2>4. Goto(u, "extracting") /\ dirs' = [dirs EXCEPT ![Top(u)] = "partial"]
    BY <1>6, <2>3 DEF Extract
  <2>5. proc'[u].pc = "extracting" /\ proc'[u].layers = proc[u].layers
    BY <2>4, GotoParts
  <2> QED
    BY <1>1, <1>4, <2>1, <2>4, <2>5
<1>7. CASE Extracted(u)
  <2>1. /\ proc[u].pc = "extracting" /\ Top(u) \in SafeLayers /\ Top(u) \in Layers
        /\ Top(u) \in TarLayers
    BY <1>0, <1>2, <1>7 DEF Extracted, Extracting, Safe, KeepsOf, Top
  <2>2. Writers(Top(u)) = {u}
    BY <1>3, <2>1 DEF Writers
  <2>3. tars[Top(u)] # "partial"
    BY <1>1, <2>1 DEF SafeLayers, DirLayers
  <2>4. Goto(u, "droptar") /\ dirs' = [dirs EXCEPT ![Top(u)] = "whole"]
    BY <1>4, <1>7, <2>1, <2>2, <2>3 DEF Extracted
  <2>5. proc'[u].pc = "droptar"
    BY <2>4, GotoParts
  <2> QED
    BY <1>1, <2>1, <2>4, <2>5
<1>8. CASE Crash(u)
  <2>1. dirs' = dirs /\ proc[u].pc \notin {"extract", "extracting"} /\ proc'[u].pc = "idle"
    BY <1>0, <1>8, EndsIdle DEF Crash, CutShort, Idle
  <2> QED
    BY <1>1, <2>1
<1>9. CASE ~MakeDir(u) /\ ~Extract(u) /\ ~Extracted(u) /\ ~Crash(u)
  <2>1. dirs' = dirs /\ proc[u].pc \notin {"extract", "extracting"}
    <3>1. CASE Type(u)
      <4>1. dirs' = dirs /\ proc[u] = Idle
        BY <3>1 DEF Type
      <4> QED
        BY <4>1 DEF Idle
    <3>2. CASE Step(u)
      BY <1>9, <3>2 DEF Step, FindCommand, Resolve, FindDir, FindTar, DropTar, Mount,
          Start, Describe, ReadLower, Pack, Packed, ReadIndex, Truncate, WriteIndex, ReadList,
          Size, SizeTar
    <3> QED
      BY <1>9, <3>1, <3>2 DEF Moves
  <2>2. proc'[u].pc # "extract"
    BY <1>9, OnlyExtract
  <2>3. proc'[u].pc # "extracting"
    BY <1>9, OnlyExtract
  <2> QED
    BY <1>1, <2>1, <2>2, <2>3
<1> QED
  BY <1>5, <1>6, <1>7, <1>8, <1>9

LEMMA PartsExtracted ==
  ASSUME SoFar, DirsInv, NEW u \in Users, Moves(u), Orderly'
  PROVE  /\ \A l \in Layers : dirs'[l] \in {"partial", "spoilt"} =>
              proc'[u].pc \in {"extract", "extracting"} /\ proc'[u].layers[1] = l
         /\ \A v \in Users : proc'[v].pc \in {"extract", "extracting"} =>
              dirs'[proc'[v].layers[1]] = "partial"
<1>0. dirs \in [Layers -> Extents \cup {"spoilt"}]
  BY DEF SoFar, TypeOK
<1>1. /\ \A v \in Users : v # u => proc[v].pc = "idle" /\ proc'[v] = proc[v]
      /\ \A l \in Layers : dirs[l] \in {"partial", "spoilt"} =>
            proc[u].pc \in {"extract", "extracting"} /\ Top(u) = l
  BY DirsAlone DEF DirsInv, Top
<1>2. CASE /\ dirs' = dirs
           /\ proc[u].pc \notin {"extract", "extracting"}
           /\ proc'[u].pc \notin {"extract", "extracting"}
  BY <1>1, <1>2
<1>3. CASE /\ Top(u) \in Layers /\ proc'[u].pc \in {"extract", "extracting"}
           /\ proc'[u].layers = proc[u].layers
           /\ dirs' = [dirs EXCEPT ![Top(u)] = "partial"]
  BY <1>0, <1>1, <1>3 DEF Top
<1>4. CASE /\ proc[u].pc = "extracting" /\ Top(u) \in Layers
           /\ proc'[u].pc \notin {"extract", "extracting"}
           /\ dirs' = [dirs EXCEPT ![Top(u)] = "whole"]
  BY <1>0, <1>1, <1>4
<1> QED
  BY <1>2, <1>3, <1>4, DirsAlone

LEMMA BoxesWhole ==
  ASSUME SoFar, DirsInv, NEW u \in Users, Moves(u), Orderly'
  PROVE  (\A b \in Containers : \A n \in DOMAIN boxes[b].layers : dirs[boxes[b].layers[n]] = "whole")'
<1> USE DEF SoFar
<1>0. Kept /\ Orderly /\ dirs \in [Layers -> Extents \cup {"spoilt"}]
  BY KeepingLayers, DirsAlone DEF TypeOK
<1>1. \A l \in Layers : dirs[l] = "whole" => dirs'[l] = "whole"
  BY <1>0, DirsAlone
<1>2. \A b \in Containers : \A n \in DOMAIN boxes[b].layers : dirs'[boxes[b].layers[n]] = "whole"
  <2>1. \A b \in Containers : boxes[b].layers \in Seq(Layers)
    BY DEF TypeOK, BoxType
  <2>2. \A b \in Containers : \A n \in DOMAIN boxes[b].layers : boxes[b].layers[n] \in Layers
    BY <2>1, SafeStack, <1>0
  <2> QED
    BY <1>0, <1>1, <2>2 DEF DirsInv
<1>3. CASE \A b \in Containers : boxes'[b].layers = boxes[b].layers
  BY <1>2, <1>3
<1>4. CASE /\ dirs' = dirs /\ proc[u].pc = "mount"
           /\ \A n \in DOMAIN proc[u].layers : HasDir(proc[u].layers[n])
           /\ \A b \in Containers : boxes'[b].layers \in {boxes[b].layers, proc[u].layers}
  <2>1. \A n \in DOMAIN proc[u].layers : proc[u].layers[n] \in Layers
    BY <1>0, CommandOfType, SafeStack
  <2>2. \A l \in Layers : dirs[l] \notin {"partial", "spoilt"}
    BY <1>0, <1>4, DirsAlone DEF DirsInv
  <2>3. \A n \in DOMAIN proc[u].layers : dirs[proc[u].layers[n]] = "whole"
    BY <1>0, <1>4, <2>1, <2>2 DEF HasDir, Extents
  <2> QED
    BY <1>2, <1>4, <2>3
<1> QED
  BY <1>3, <1>4, BoxSteps

LEMMA DirsStep == SoFar /\ DirsInv /\ [Next]_vars => DirsInv'
<1> SUFFICES ASSUME SoFar, DirsInv, [Next]_vars PROVE DirsInv'
  OBVIOUS
<1>1. CASE UNCHANGED vars
  BY <1>1 DEF vars, DirsInv, Orderly
<1>2. CASE RemoveBox
  <2>1. \A b \in Containers : boxes'[b] = boxes[b] \/ boxes'[b].layers = <<>>
    BY <1>2 DEF RemoveBox, NoBox, SoFar, TypeOK
  <2>2. DOMAIN <<>> = {}
    OBVIOUS
  <2>3. dirs' = dirs /\ proc' = proc /\ (Orderly' => Orderly)
    BY <1>2 DEF RemoveBox, Orderly
  <2> QED
    BY <2>1, <2>2, <2>3 DEF DirsInv
<1>3. ASSUME NEW u \in Users, Moves(u) PROVE DirsInv'
  BY <1>3, PartsExtracted, BoxesWhole DEF DirsInv
<1> QED
  BY <1>1, <1>2, <1>3 DEF Next, Moves

\* While nothing overlaps or is cut short, containers run on whole layers.
THEOREM WholeLayers == Spec => []RunsOnWholeLayers
<1>1. Init => DirsInv
  BY DEF Init, DirsInv, NoBox, Idle
<1>2. SoFar /\ DirsInv /\ [Next]_vars => DirsInv'
  BY DirsStep
<1>3. DirsInv => RunsOnWholeLayers
  BY DEF DirsInv, Orderly, RunsOnWholeLayers
<1> QED
  BY <1>1, <1>2, <1>3, SoFarHolds, PTL DEF Spec

-----------------------------------------------------------------------------
(* The index accumulates. *)

LEMMA TruncateHolds ==
  ASSUME SoFar, NEW u \in Users, Truncate(u), "overlap" \notin seen', NEW e \in Held
  PROVE  \/ e \in Held'
         \/ Key(proc[u].ref) = e[1] /\ <<e[1], proc[u].layers>> \in Held'
<1> DEFINE c == proc[u]
<1>1. c.pc = "truncate" /\ Goto(u, "write") /\ index' = [state |-> "torn", images |-> NoImages]
  BY DEF Truncate
<1>2. index.state # "torn" /\ c.copy = index.images
  BY <1>1, StepsAlone DEF SoFar, KeepInv, AloneInv, IndexPart, Moves, Step
<1>3. proc'[u] = [c EXCEPT !.pc = "write"] /\ IsCommand(c)
  BY <1>1, Becomes DEF Goto, SoFar, TypeOK
<1>4. /\ proc'[u].pc = "write" /\ proc'[u].copy = c.copy /\ proc'[u].ref = c.ref
      /\ proc'[u].layers = c.layers
  BY <1>3 DEF IsCommand
<1>5. Entered(proc'[u]) = Entered(c)
  BY <1>4 DEF Entered
<1>6. \A k \in DOMAIN Entered(c) : <<k, Entered(c)[k]>> \in Held'
  BY <1>1, <1>4, <1>5 DEF Held, Entries
<1>7. PICK k \in DOMAIN c.copy : e = <<k, c.copy[k]>>
  BY <1>2 DEF Held, Entries
<1>8. k \in DOMAIN Entered(c) /\ Entered(c)[k] = IF k = Key(c.ref) THEN c.layers ELSE c.copy[k]
  BY <1>7 DEF Entered
<1> QED
  BY <1>6, <1>7, <1>8

LEMMA OthersHold ==
  ASSUME SoFar, NEW u \in Users, Moves(u), ~Truncate(u), seen' \cap {"overlap", "index"} = {}
  PROVE  \A e \in Held : e \in Held'
<1> USE DEF SoFar
<1>1. /\ "overlap" \notin seen
      /\ \A v \in Users : v # u => proc[v].pc = "idle" /\ proc'[v] = proc[v]
      /\ u \in Busy \/ (Type(u) /\ Busy = {})
  BY StepsAlone DEF KeepInv
<1>2. CASE WriteIndex(u)
  <2>1. proc[u].pc = "write" /\ index' = [state |-> "whole", images |-> Entered(proc[u])]
    BY <1>2 DEF WriteIndex
  <2>2. index.state = "torn"
    BY <1>1, <2>1 DEF AloneInv, IndexPart
  <2>3. \A v \in Users : proc[v].pc = "write" => v = u
    BY <1>1
  <2>4. Held' = Entries(Entered(proc[u]))
    BY <2>1 DEF Held, Entries
  <2> QED
    BY <2>2, <2>3, <2>4 DEF Held
<1>3. CASE ~WriteIndex(u)
  <2>1. index' = index
    BY <1>3 DEF Moves, Step, Type, Crash, FindCommand, Resolve, FindDir, FindTar, MakeDir, Extract,
                Extracted, DropTar, Mount, Start, Describe, ReadLower, Pack, Packed, ReadIndex, ReadList,
                Size, SizeTar
  <2>2. \A v \in Users : proc[v].pc # "write"
    <3>1. CASE Type(u)
      <4>1. proc[u] = Idle
        BY <3>1 DEF Type
      <4>2. proc[u].pc = "idle"
        BY <4>1 DEF Idle
      <4> QED
        BY <1>1, <4>2
    <3>2. CASE Crash(u)
      BY <1>1, <3>2 DEF Crash, CutShort
    <3>3. CASE Step(u)
      BY <1>1, <1>3, <3>3 DEF Step, FindCommand, Resolve, FindDir, FindTar, MakeDir, Extract,
          Extracted, DropTar, Mount, Start, Describe, ReadLower, Pack, Packed, ReadIndex, Truncate, ReadList,
          Size, SizeTar
    <3> QED
      BY <3>1, <3>2, <3>3 DEF Moves
  <2> QED
    BY <2>1, <2>2 DEF Held, Entries
<1> QED
  BY <1>2, <1>3

\* Commits that neither overlap nor are killed while they write keep every
\* image but the one that they make.
THEOREM ImagesKept == Spec => ImagesAccumulate
<1>1. ASSUME SoFar, [Next]_vars, seen' \cap {"overlap", "index"} = {}, NEW e \in Held
      PROVE  \/ e \in Held'
             \/ \E u \in Users : /\ Truncate(u) /\ Key(proc[u].ref) = e[1]
                                 /\ <<e[1], proc[u].layers>> \in Held'
  <2>1. CASE UNCHANGED vars \/ RemoveBox
    <3>1. index' = index /\ proc' = proc
      BY <2>1 DEF vars, RemoveBox
    <3>2. Held' = Held
      BY <3>1 DEF Held, Entries, Entered
    <3> QED
      BY <1>1, <3>2
  <2>2. ASSUME NEW u \in Users, Moves(u), Truncate(u)
        PROVE  \/ e \in Held'
               \/ Key(proc[u].ref) = e[1] /\ <<e[1], proc[u].layers>> \in Held'
    BY <1>1, <2>2, TruncateHolds
  <2>3. ASSUME NEW u \in Users, Moves(u), ~Truncate(u) PROVE e \in Held'
    BY <1>1, <2>3, OthersHold
  <2> QED
    BY <1>1, <2>1, <2>2, <2>3 DEF Next, Moves
<1>2. SoFar /\ [Next]_vars =>
        [seen' \cap {"overlap", "index"} = {} =>
           \A e \in Held :
             \/ e \in Held'
             \/ \E u \in Users : /\ Truncate(u) /\ Key(proc[u].ref) = e[1]
                                 /\ <<e[1], proc[u].layers>> \in Held']_vars
  BY <1>1
<1> QED
  BY <1>2, SoFarHolds, PTL DEF Spec, ImagesAccumulate

=============================================================================

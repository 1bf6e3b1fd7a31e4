---------------------------- MODULE DeliveryProofs ----------------------------
(***************************************************************************)
(* What the program hands on arrives whole.  A release leaves no package   *)
(* on the registry whose internal ranges it does not serve, for any        *)
(* packages, dependencies and lists, wherever runs fail and processes are  *)
(* killed, when the tree is quiet during a run.  An attachment to a hub    *)
(* loses no record uncounted and leaves no question without a row, for any *)
(* number of sessions, whichever sockets die; its readers page through a   *)
(* ring without missing what came in order.  A signal reaches whoever      *)
(* stays subscribed, once, and is retained as its channel's policy says.   *)
(***************************************************************************)
EXTENDS Publish, Devtools, SequenceTheorems, FiniteSetTheorems, WellFoundedInduction, TLAPS

Shape ==
  /\ publishPackageOrder \in Lists
  /\ manifest = [p \in Package |-> manifest[p]]
  /\ Working =>
       /\ run = [stage |-> run.stage, mode |-> run.mode, id |-> run.id,
                 context |-> run.context, at |-> run.at, build |-> run.build,
                 part |-> run.part, packed |-> run.packed, nested |-> run.nested,
                 uploads |-> run.uploads]
       /\ run.at \in DOMAIN Order

\* The manifests a run has checked are the manifests it publishes.
Checked == Working => assertPublishMetadata /\ assertPublishOrder

\* What stands before the package at hand has been taken.
Prefix == Working /\ run.stage = "publish" => \A i \in 1 .. run.at - 1 : Exists(Order[i])

IInv == Shape /\ Checked /\ Prefix /\ DependenciesFirst

-----------------------------------------------------------------------------
(* The list *)

LEMMA OrderType ==
  ASSUME Shape
  PROVE  /\ Order \in Seq(Package) /\ DOMAIN Order = 1 .. Len(Order) /\ 1 \in DOMAIN Order
         /\ Len(Order) \in Nat
         /\ \A i \in DOMAIN Order : Order[i] \in Package
  <1>1. publishPackageOrder \in Seq(Package) /\ publishPackageOrder # <<>>
    BY PackagesAssumption DEF Shape
  <1> QED
    BY <1>1 DEF Order

LEMMA PositionOf ==
  ASSUME Shape, NEW i \in DOMAIN Order
  PROVE  Position(Order[i]) = i
  <1>1. \A j \in DOMAIN publishPackageOrder :
          publishPackageOrder[j] = publishPackageOrder[i] => j = i
    BY PackagesAssumption DEF Shape, Order
  <1> QED
    BY <1>1 DEF Position, Order

LEMMA PositionIn ==
  ASSUME Shape, NEW p \in Package
  PROVE  Position(p) \in DOMAIN Order /\ Order[Position(p)] = p
  <1>1. \E i \in DOMAIN publishPackageOrder : publishPackageOrder[i] = p
    BY PackagesAssumption DEF Shape
  <1> QED
    BY <1>1 DEF Position, Order

-----------------------------------------------------------------------------
(* Steps that publish nothing *)

RunShape(r) ==
  r = [stage |-> r.stage, mode |-> r.mode, id |-> r.id, context |-> r.context,
       at |-> r.at, build |-> r.build, part |-> r.part, packed |-> r.packed,
       nested |-> r.nested, uploads |-> r.uploads]

\* The run ends, or goes on with nothing behind it that was not taken.
Goes(r) ==
  \/ r = Idle
  \/ /\ Working /\ RunShape(r) /\ r.at \in DOMAIN Order
     /\ r.stage = "publish" => r.at = 1 \/ (run.stage = "publish" /\ r.at = run.at)

LEMMA GoesPreserves ==
  ASSUME IInv, Goes(run'), UNCHANGED <<publishPackageOrder, manifest, registry>>
  PROVE  IInv'
  <1>1. Shape'
    BY DEF IInv, Shape, Goes, RunShape, Working, Order
  <1>2. Checked'
    BY DEF IInv, Checked, Goes, Working, assertPublishMetadata, assertPublishOrder, RangeOf, Position
  <1>3. Prefix'
    <2> SUFFICES ASSUME Working', (run.stage = "publish")', NEW i \in 1 .. (run.at)' - 1
                 PROVE  Exists(Order[i])'
      BY DEF Prefix
    <2>1. run.stage = "publish" /\ run'.at = run.at /\ Working
      BY OrderType DEF IInv, Goes, Working
    <2> QED
      BY <2>1 DEF IInv, Prefix, Exists, Served, Order
  <1>4. DependenciesFirst'
    BY DEF IInv, DependenciesFirst, Served
  <1> QED
    BY <1>1, <1>2, <1>3, <1>4 DEF IInv

LEMMA AtIn ==
  ASSUME IInv, Working
  PROVE  /\ RunShape(run) /\ run.at \in DOMAIN Order /\ 1 \in DOMAIN Order
         /\ run.at # Len(Order) => run.at + 1 \in DOMAIN Order
  BY OrderType DEF IInv, Shape, RunShape

LEMMA ChecksGo ==
  ASSUME IInv, workspaceChecks
  PROVE  IInv'
  BY AtIn, GoesPreserves DEF workspaceChecks, Continues, Fails, Goes, RunShape, tree

LEMMA BuildGoes ==
  ASSUME IInv, buildPackage \/ compile \/ rollupDeclarations
  PROVE  IInv'
  <1>1. Working /\ UNCHANGED <<publishPackageOrder, manifest, registry>>
    BY DEF buildPackage, compile, rollupDeclarations, Building, tree
  <1>2. \/ run' = Idle
        \/ run' = [run EXCEPT !.part = "compile"] \/ run' = [run EXCEPT !.part = "rollup"]
        \/ run' = [run EXCEPT !.build = Tail(@), !.part = "clean"]
    BY DEF buildPackage, compile, rollupDeclarations, Continues, BuildFails, Fails
  <1>3. Goes(run')
    BY <1>1, <1>2, AtIn DEF Goes, RunShape
  <1> QED
    BY <1>1, <1>3, GoesPreserves

LEMMA ArtifactsGo ==
  ASSUME IInv, buildArtifacts
  PROVE  IInv'
  <1>1. Working /\ run.stage = "build" /\ UNCHANGED <<publishPackageOrder, manifest, registry>>
    BY DEF buildArtifacts, Ready, tree
  <1>2. run' = Enter(run, "pack") \/ run' = [run EXCEPT !.stage = "view"]
    BY DEF buildArtifacts, OpensDirectory, Continues
  <1>3. Goes(run')
    BY <1>1, <1>2, AtIn DEF Goes, RunShape, Enter
  <1> QED
    BY <1>1, <1>3, GoesPreserves

LEMMA TriesGo ==
  ASSUME IInv, packageVersionExists \/ publishDryRun
  PROVE  IInv'
  <1>1. Working /\ UNCHANGED <<publishPackageOrder, manifest, registry>>
    BY DEF packageVersionExists, publishDryRun, Ready, tree
  <1>2. \/ run' = Idle
        \/ run' = [run EXCEPT !.stage = "dry-run", !.build = Prepack[Current]]
        \/ run' = Enter(run, "pack")
        \/ run.at # Len(Order) /\ run' = [run EXCEPT !.at = @ + 1, !.stage = "view"]
    BY DEF packageVersionExists, publishDryRun, Tried, OpensDirectory, Continues, Fails
  <1>3. Goes(run')
    BY <1>1, <1>2, AtIn DEF Goes, RunShape, Enter
  <1> QED
    BY <1>1, <1>3, GoesPreserves

LEMMA PackGoes ==
  ASSUME IInv, packPackage
  PROVE  IInv'
  <1>1. Working /\ run.stage = "pack" /\ UNCHANGED <<publishPackageOrder, manifest, registry>>
    BY DEF packPackage, Ready, tree
  <1>2. \/ run' = Idle
        \/ \E packed : \/ run' = [run EXCEPT !.packed = packed, !.stage = "write"]
                       \/ /\ run.at # Len(Order)
                          /\ run' = [run EXCEPT !.packed = packed, !.at = @ + 1,
                                                !.build = Prepack[Order[run.at + 1]]]
    <2> DEFINE packed == run.packed \cup {Artefact(Current)}
               r == [run EXCEPT !.packed = packed]
    <2>1. run' = Idle \/ run' = Next1(r, [r EXCEPT !.stage = "write"])
      BY DEF packPackage, Continues, Fails
    <2>2. RunShape(run)
      BY <1>1, AtIn
    <2> HIDE DEF packed
    <2>3. \/ run' = Idle
          \/ run' = [run EXCEPT !.packed = packed, !.stage = "write"]
          \/ /\ run.at # Len(Order)
             /\ run' = [run EXCEPT !.packed = packed, !.at = @ + 1,
                                   !.build = Prepack[Order[run.at + 1]]]
      BY <2>1, <2>2 DEF Next1, RunShape
    <2> QED
      BY <2>3
  <1>3. Goes(run')
    BY <1>1, <1>2, AtIn DEF Goes, RunShape
  <1> QED
    BY <1>1, <1>3, GoesPreserves

LEMMA SmokeGoes ==
  ASSUME IInv, writeSmokeProject \/ smokeInstall \/ assertPackedBinaries \/ packAndSmoke
  PROVE  IInv'
  <1>1. Working /\ UNCHANGED <<publishPackageOrder, manifest, registry>>
    BY DEF writeSmokeProject, smokeInstall, assertPackedBinaries, packAndSmoke, Ready, tree
  <1>2. \/ run' = Idle
        \/ run' = [run EXCEPT !.stage = "install"] \/ run' = [run EXCEPT !.stage = "smoke"]
        \/ \E copies : run' = [run EXCEPT !.stage = "layout", !.nested = copies]
        \/ run' = Enter(run, "publish")
    BY DEF writeSmokeProject, smokeInstall, assertPackedBinaries, packAndSmoke, Continues, Fails
  <1>3. Goes(run')
    BY <1>1, <1>2, AtIn DEF Goes, RunShape, Enter
  <1> QED
    BY <1>1, <1>3, GoesPreserves

LEMMA KillGoes ==
  ASSUME IInv, Kill
  PROVE  IInv'
  BY GoesPreserves DEF Kill, Goes, tree

-----------------------------------------------------------------------------
(* A run begins, the tree changes, a package is published *)

LEMMA StartPreserves ==
  ASSUME IInv, NEW mode, NEW ci, NEW tty, Start(mode, ci, tty)
  PROVE  IInv'
  <1>1. ~Working /\ UNCHANGED <<publishPackageOrder, manifest, registry>>
    BY DEF Start, tree
  <1>2. CASE run' = run
    BY <1>1, <1>2, GoesPreserves DEF Goes, Working
  <1>3. CASE run' # run
    <2>1. assertPublishMetadata /\ assertPublishOrder
      BY <1>3 DEF Start
    <2>2. /\ RunShape(run') /\ run'.at = 1
          /\ run'.stage # "publish"
      <3> DEFINE stage == IF mode = "smoke-only" THEN "build" ELSE "checks"
                 build == IF mode = "smoke-only" THEN Targets ELSE <<>>
                 id == runs'
      <3>1. run' = [stage |-> stage, mode |-> mode, id |-> id, context |-> manifest,
                    at |-> 1, build |-> build, part |-> "clean",
                    packed |-> {}, nested |-> {}, uploads |-> {}]
        BY <1>3 DEF Start
      <3>2. stage # "publish"
        OBVIOUS
      <3> HIDE DEF stage, build, id
      <3> QED
        BY <3>1, <3>2 DEF RunShape
    <2>3. Shape'
      BY <1>1, <2>2, OrderType DEF IInv, Shape, RunShape, Order
    <2>4. Checked'
      BY <1>1, <2>1 DEF Checked, assertPublishMetadata, assertPublishOrder, RangeOf, Position
    <2>5. Prefix'
      BY <2>2 DEF Prefix
    <2>6. DependenciesFirst'
      BY <1>1 DEF IInv, DependenciesFirst, Served
    <2> QED
      BY <2>3, <2>4, <2>5, <2>6 DEF IInv
  <1> QED
    BY <1>2, <1>3

LEMMA EditPreserves ==
  ASSUME IInv, Edit, QuietTree
  PROVE  IInv'
  <1>1. ~Working /\ UNCHANGED <<publishPackageOrder, registry, run>>
    BY DEF Edit
  <1>2. manifest' = [p \in Package |-> manifest'[p]]
    BY DEF Edit
  <1> QED
    BY <1>1, <1>2 DEF IInv, Shape, Checked, Prefix, DependenciesFirst, Served, Working

\* The dependencies of the package at hand stand before it.
LEMMA PublishPreserves ==
  ASSUME IInv, publishToNpm
  PROVE  IInv'
  <1>1. Working /\ run.stage = "publish" /\ UNCHANGED <<publishPackageOrder, manifest>>
    BY DEF publishToNpm, Ready, tree
  <1>2. CASE UNCHANGED registry /\ run' = Idle
    BY <1>1, <1>2, GoesPreserves DEF Goes
  <1>3. CASE registry' = registry \cup {Artefact(Current)}
    <2>1. /\ Current \in Package /\ Position(Current) = run.at
          /\ run.at \in DOMAIN Order
      BY <1>1, AtIn, OrderType, PositionOf DEF IInv, Current
    <2>2. \A p, v : Served(p, v) => Served(p, v)'
      BY <1>3 DEF Served
    <2>3. Artefact(Current).pkg = Current
          /\ Artefact(Current).version = manifest[Current].version
          /\ Artefact(Current).ranges = manifest[Current].ranges
      BY DEF Artefact
    <2>4. ASSUME NEW d \in DependsOn[Current]
          PROVE  Served(d, manifest[Current].ranges[d])
      <3>1. d \in Package /\ <<Current, d>> \in internalEdges
        BY <2>1, <2>4, PackagesAssumption DEF internalEdges
      <3>2. /\ manifest[Current].ranges[d] = manifest[d].version
            /\ Position(d) < Position(Current)
        BY <1>1, <3>1 DEF IInv, Checked, assertPublishMetadata, assertPublishOrder, RangeOf
      <3>3. Position(d) \in 1 .. run.at - 1 /\ Order[Position(d)] = d
        BY <2>1, <3>1, <3>2, PositionIn, OrderType DEF IInv
      <3>4. Exists(d)
        BY <1>1, <3>3 DEF IInv, Prefix
      <3> QED
        BY <3>2, <3>4 DEF Exists
    <2>5. DependenciesFirst'
      <3> SUFFICES ASSUME NEW a \in registry', NEW d \in DependsOn[a.pkg]
                   PROVE  Served(d, a.ranges[d])'
        BY DEF DependenciesFirst
      <3>1. CASE a \in registry
        BY <2>2, <3>1 DEF IInv, DependenciesFirst
      <3>2. CASE a = Artefact(Current)
        BY <2>2, <2>3, <2>4, <3>2
      <3> QED
        BY <1>3, <3>1, <3>2
    <2>6. \E a \in registry' : a.pkg = Current /\ a.version = manifest[Current].version
      BY <1>3, <2>3
    <2>7. \/ run' = Idle
          \/ /\ RunShape(run') /\ run'.at = run.at + 1 /\ run.at + 1 \in DOMAIN Order
             /\ run'.stage = "publish"
      <3> DEFINE uploads == run.uploads \cup {Artefact(Current)}
                 r == [run EXCEPT !.uploads = uploads]
      <3>1. run' = Idle \/ run' = Next1(r, Idle)
        BY DEF publishToNpm, Continues, Fails, Uploaded
      <3>2. RunShape(run) /\ (run.at # Len(Order) => run.at + 1 \in DOMAIN Order)
        BY <1>1, AtIn
      <3> HIDE DEF uploads
      <3> QED
        BY <1>1, <3>1, <3>2 DEF Next1, RunShape
    <2>8. Shape'
      BY <1>1, <2>7 DEF IInv, Shape, RunShape, Working, Order
    <2>9. Checked'
      BY <1>1 DEF IInv, Checked, assertPublishMetadata, assertPublishOrder, RangeOf, Position
    <2>10. Prefix'
      <3> SUFFICES ASSUME Working', NEW i \in 1 .. run'.at - 1
                   PROVE  Exists(Order[i])'
        BY DEF Prefix
      <3>1. run'.at = run.at + 1 /\ run.at \in Nat
        BY <2>1, <2>7, OrderType DEF IInv, Working
      <3>2. CASE i = run.at
        BY <1>1, <2>6, <3>2 DEF Current, Order, Exists, Served
      <3>3. CASE i # run.at
        <4>1. Exists(Order[i])
          BY <1>1, <3>1, <3>3 DEF IInv, Prefix
        <4> QED
          BY <1>1, <2>2, <4>1 DEF Exists, Order
      <3> QED
        BY <3>2, <3>3
    <2> QED
      BY <2>5, <2>8, <2>9, <2>10 DEF IInv
  <1> QED
    BY <1>1, <1>2, <1>3 DEF publishToNpm, Fails

-----------------------------------------------------------------------------
LEMMA InitIInv == Init => IInv
  BY DEF Init, IInv, Shape, Checked, Prefix, DependenciesFirst, Working

LEMMA StepPreserves ==
  ASSUME QuietTree, IInv, [Next]_vars
  PROVE  IInv'
  <1>1. CASE UNCHANGED vars
    BY <1>1 DEF vars, tree, IInv, Shape, Checked, Prefix, DependenciesFirst, Working, Order,
                assertPublishMetadata, assertPublishOrder, RangeOf, Position, Exists, Served
  <1>2. CASE \E mode \in {"release", "dry-run", "smoke-only"}, ci, tty \in BOOLEAN :
               Start(mode, ci, tty)
    BY <1>2, StartPreserves
  <1> QED
    BY <1>1, <1>2, ChecksGo, BuildGoes, ArtifactsGo, TriesGo, PackGoes, SmokeGoes, KillGoes,
       EditPreserves, PublishPreserves DEF Next

\* Whatever npm serves, it serves the internal ranges of, at every moment of
\* every release and between them (publish.ts:64-69), when nobody edits the tree
\* while a run is under way.
THEOREM ReleasesAreInstallable == QuietTree => (Spec => []DependenciesFirst)
  <1> SUFFICES ASSUME QuietTree PROVE Spec => []DependenciesFirst
    OBVIOUS
  <1>1. IInv /\ [Next]_vars => IInv'
    BY StepPreserves
  <1>2. IInv => DependenciesFirst
    BY DEF IInv
  <1> QED
    BY <1>1, <1>2, InitIInv, PTL DEF Spec

-----------------------------------------------------------------------------
(* What is uploaded was tried *)

\* The artefact of p when all its files come from the sources of now.
Whole(p) ==
  [pkg |-> p, version |-> manifest[p].version, ranges |-> manifest[p].ranges,
   files |-> [js |-> source, types |-> source]]

Disk ==
  /\ dist = [p \in Built |-> dist[p]] /\ distTypes = [p \in Built |-> distTypes[p]]
  /\ \A p \in Built : dist[p] = [js |-> dist[p].js, types |-> dist[p].types]

\* A package is half built only while it heads the list, and what is rolled up
\* was compiled from the sources of now.
HalfBuilt ==
  Working =>
    /\ run.part # "clean" => run.build # <<>>
    /\ run.stage = "checks" => run.build = <<>>
    /\ run.part = "rollup" /\ Target \in Built => dist[Target].js = source /\ distTypes[Target] = source

\* What is about to be packed waits to be rebuilt or was.
Rebuilt ==
  Working /\ run.stage \in {"pack", "publish"} =>
    /\ run.build \in Seq(Package)
    /\ Current \in Built =>
         (\E i \in DOMAIN run.build : run.build[i] = Current)
           \/ dist[Current] = [js |-> source, types |-> source]

\* The tarballs, the install and the uploads of a run.
Tarballs ==
  Working =>
    /\ run.stage = "pack" => \A i \in 1 .. run.at - 1 : Whole(Order[i]) \in run.packed
    /\ run.stage \in {"write", "install", "layout", "smoke", "publish"} =>
         \A p \in Package : Whole(p) \in run.packed
    /\ run.stage \in {"smoke", "publish"} => run.nested = {}
    /\ run.stage # "publish" => run.uploads = {}
    /\ \A a \in run.uploads : \E p \in Package : a = Whole(p)

Whence == Disk /\ HalfBuilt /\ Rebuilt /\ Tarballs

\* A run that is over leaves only the disk to speak of.
LEMMA OverKeeps ==
  ASSUME Disk', run' = Idle
  PROVE  Whence'
  BY DEF Whence, HalfBuilt, Rebuilt, Tarballs, Working

LEMMA SameDisk ==
  ASSUME Whence, UNCHANGED built
  PROVE  Disk'
  BY DEF Whence, Disk, built

-----------------------------------------------------------------------------
(* Builds *)

LEMMA DiskStep ==
  ASSUME Whence, buildPackage \/ compile \/ rollupDeclarations \/ Kill
  PROVE  Disk'
  <1>1. \/ dist' = dist \/ dist' = [dist EXCEPT ![Target] = Nothing]
        \/ dist' = [dist EXCEPT ![Target].js = source]
        \/ dist' = [dist EXCEPT ![Target].types = distTypes[Target]]
    BY DEF buildPackage, compile, rollupDeclarations, Kill, built
  <1>2. \/ distTypes' = distTypes \/ distTypes' = [distTypes EXCEPT ![Target] = 0]
        \/ distTypes' = [distTypes EXCEPT ![Target] = source]
    BY DEF buildPackage, compile, rollupDeclarations, Kill, built, BuildFails
  <1>3. distTypes' = [p \in Built |-> distTypes'[p]]
    BY <1>2 DEF Whence, Disk
  <1>4. dist' = [p \in Built |-> dist'[p]]
        /\ \A p \in Built : dist'[p] = [js |-> dist'[p].js, types |-> dist'[p].types]
    <2>1. CASE dist' = dist
      BY <2>1 DEF Whence, Disk
    <2>2. CASE dist' = [dist EXCEPT ![Target] = Nothing]
      BY <2>2 DEF Whence, Disk, Nothing
    <2>3. CASE dist' = [dist EXCEPT ![Target].js = source]
      BY <2>3 DEF Whence, Disk
    <2>4. CASE dist' = [dist EXCEPT ![Target].types = distTypes[Target]]
      BY <2>4 DEF Whence, Disk
    <2> QED
      BY <1>1, <2>1, <2>2, <2>3, <2>4
  <1> QED
    BY <1>3, <1>4 DEF Disk

\* Of a run only what it builds changes.
Builds(r, build, part) ==
  /\ RunShape(r)
  /\ r.stage = run.stage /\ r.at = run.at /\ r.packed = run.packed /\ r.nested = run.nested
  /\ r.uploads = run.uploads /\ r.build = build /\ r.part = part

LEMMA BuildKeepsTarballs ==
  ASSUME Whence, Working, NEW build, NEW part, Builds(run', build, part),
         UNCHANGED <<publishPackageOrder, tree>>
  PROVE  Tarballs'
  BY DEF Whence, Tarballs, Builds, Whole, Order, tree

\* Building one package leaves the files of the others alone.
LEMMA OthersUntouched ==
  ASSUME Whence, buildPackage \/ compile \/ rollupDeclarations, NEW p \in Built, p # Target
  PROVE  dist'[p] = dist[p]
  <1>1. \/ dist' = dist \/ dist' = [dist EXCEPT ![Target] = Nothing]
        \/ dist' = [dist EXCEPT ![Target].js = source]
        \/ dist' = [dist EXCEPT ![Target].types = distTypes[Target]]
    BY DEF buildPackage, compile, rollupDeclarations
  <1> QED
    BY <1>1 DEF Whence, Disk

\* While the package heads the list or stands further back, it waits to be rebuilt.
LEMMA StillWaiting ==
  ASSUME Whence, Working, buildPackage \/ compile \/ rollupDeclarations,
         NEW part, Builds(run', run.build, part), run.build # <<>>,
         UNCHANGED <<publishPackageOrder, tree>>
  PROVE  Rebuilt'
  <1> SUFFICES ASSUME run.stage \in {"pack", "publish"}
               PROVE  /\ run.build \in Seq(Package)
                      /\ Current \in Built =>
                           (\E i \in DOMAIN run.build : run.build[i] = Current)
                             \/ dist'[Current] = [js |-> source, types |-> source]
    BY DEF Rebuilt, Builds, Current, Order, tree
  <1>1. run.build \in Seq(Package)
    BY DEF Whence, Rebuilt
  <1>2. 1 \in DOMAIN run.build /\ Target = run.build[1]
    BY <1>1 DEF Target
  <1>3. ASSUME Current \in Built, ~\E i \in DOMAIN run.build : run.build[i] = Current
        PROVE  dist'[Current] = [js |-> source, types |-> source]
    <2>1. Current # Target
      BY <1>2, <1>3
    <2>2. dist[Current] = [js |-> source, types |-> source]
      BY <1>3 DEF Whence, Rebuilt
    <2> QED
      BY <1>3, <2>1, <2>2, OthersUntouched
  <1> QED
    BY <1>1, <1>3

LEMMA CleanKeeps ==
  ASSUME IInv, Whence, buildPackage
  PROVE  Whence'
  <1>1. Disk' /\ Working /\ UNCHANGED <<publishPackageOrder, tree>> /\ RunShape(run)
    BY DiskStep, AtIn DEF buildPackage, Building
  <1>2. CASE run' = Idle
    BY <1>1, <1>2, OverKeeps
  <1>3. CASE run' # Idle
    <2>1. run' = [run EXCEPT !.part = "compile"] /\ run.build # <<>>
      BY <1>3 DEF buildPackage, Building, Continues, BuildFails, Fails
    <2>2. Builds(run', run.build, "compile")
      BY <1>1, <2>1 DEF Builds, RunShape
    <2>3. HalfBuilt'
      BY <1>1, <2>1, <2>2 DEF Whence, HalfBuilt, Builds
    <2> QED
      BY <1>1, <2>1, <2>2, <2>3, BuildKeepsTarballs, StillWaiting DEF Whence
  <1> QED
    BY <1>2, <1>3

LEMMA CompileKeeps ==
  ASSUME IInv, Whence, compile
  PROVE  Whence'
  <1>1. Disk' /\ Working /\ UNCHANGED <<publishPackageOrder, tree>> /\ RunShape(run)
    BY DiskStep, AtIn DEF compile, Building
  <1>2. CASE run' = Idle
    BY <1>1, <1>2, OverKeeps
  <1>3. CASE run' # Idle
    <2>1. /\ run' = [run EXCEPT !.part = "rollup"] /\ run.build # <<>>
          /\ dist' = [dist EXCEPT ![Target].js = source]
          /\ distTypes' = [distTypes EXCEPT ![Target] = source]
      BY <1>3 DEF compile, Building, Continues, BuildFails, Fails
    <2>2. Builds(run', run.build, "rollup")
      BY <1>1, <2>1 DEF Builds, RunShape
    <2>3. ASSUME Target \in Built
          PROVE  dist'[Target].js = source /\ distTypes'[Target] = source
      BY <2>1, <2>3 DEF Whence, Disk
    <2>4. HalfBuilt'
      BY <1>1, <2>1, <2>2, <2>3 DEF Whence, HalfBuilt, Builds, Target, tree
    <2> QED
      BY <1>1, <2>1, <2>2, <2>4, BuildKeepsTarballs, StillWaiting DEF Whence
  <1> QED
    BY <1>2, <1>3

\* The package at the head is whole now; the others wait as they did.
LEMMA RollupKeeps ==
  ASSUME IInv, Whence, rollupDeclarations
  PROVE  Whence'
  <1>1. Disk' /\ Working /\ UNCHANGED <<publishPackageOrder, tree>> /\ RunShape(run)
    BY DiskStep, AtIn DEF rollupDeclarations, Building
  <1>2. CASE run' = Idle
    BY <1>1, <1>2, OverKeeps
  <1>3. CASE run' # Idle
    <2>1. /\ run' = [run EXCEPT !.build = Tail(@), !.part = "clean"] /\ run.build # <<>>
          /\ run.part = "rollup"
          /\ dist' = [dist EXCEPT ![Target].types = distTypes[Target]]
      BY <1>3 DEF rollupDeclarations, Building, Continues, BuildFails, Fails
    <2>2. Builds(run', Tail(run.build), "clean")
      BY <1>1, <2>1 DEF Builds, RunShape
    <2>3. HalfBuilt'
      BY <1>1, <2>1, <2>2 DEF Whence, HalfBuilt, Builds
    <2>4. ASSUME Target \in Built
          PROVE  dist'[Target] = [js |-> source, types |-> source]
      <3>1. dist[Target].js = source /\ distTypes[Target] = source
        BY <1>1, <2>1, <2>4 DEF Whence, HalfBuilt
      <3> QED
        BY <2>1, <2>4, <3>1 DEF Whence, Disk
    <2>5. Rebuilt'
      <3> SUFFICES ASSUME run.stage \in {"pack", "publish"}
                   PROVE  /\ Tail(run.build) \in Seq(Package)
                          /\ Current \in Built =>
                               (\E i \in DOMAIN Tail(run.build) : Tail(run.build)[i] = Current)
                                 \/ dist'[Current] = [js |-> source, types |-> source]
        BY <1>1, <2>2 DEF Rebuilt, Builds, Current, Order, tree
      <3>1. run.build \in Seq(Package)
        BY <1>1 DEF Whence, Rebuilt
      <3>2. Tail(run.build) \in Seq(Package) /\ Target = run.build[1]
            /\ \A i \in DOMAIN run.build : i = 1 \/ (i - 1 \in DOMAIN Tail(run.build)
                                                      /\ Tail(run.build)[i - 1] = run.build[i])
        BY <2>1, <3>1 DEF Target
      <3>3. ASSUME Current \in Built, Current # Target,
                   ~\E i \in DOMAIN Tail(run.build) : Tail(run.build)[i] = Current
            PROVE  dist'[Current] = [js |-> source, types |-> source]
        <4>1. ~\E i \in DOMAIN run.build : run.build[i] = Current
          BY <3>2, <3>3
        <4>2. dist[Current] = [js |-> source, types |-> source]
          BY <1>1, <3>3, <4>1 DEF Whence, Rebuilt
        <4> QED
          BY <3>3, <4>2, OthersUntouched
      <3> QED
        BY <2>4, <3>2, <3>3
    <2> QED
      BY <1>1, <2>2, <2>3, <2>5, BuildKeepsTarballs DEF Whence
  <1> QED
    BY <1>2, <1>3

-----------------------------------------------------------------------------
(* Steps that build nothing *)

\* A package a run comes to is rebuilt before it is packed.
LEMMA ComesTo ==
  ASSUME Shape, NEW i \in DOMAIN Order
  PROVE  /\ Prepack[Order[i]] \in Seq(Package)
         /\ Order[i] \in Built =>
              \E k \in DOMAIN Prepack[Order[i]] : Prepack[Order[i]][k] = Order[i]
  BY OrderType, PrepackAssumption

\* A run goes on with nothing half built, to the package at hand or the next.
LEMMA GoesOnKeeps ==
  ASSUME IInv, Whence, Working, run.build = <<>>, UNCHANGED <<publishPackageOrder, tree, built>>,
         RunShape(run'), run'.part = run.part, run'.at \in DOMAIN Order, run'.stage # "checks",
         run'.stage \in {"pack", "publish"} => run'.build = Prepack[Order[run'.at]],
         Tarballs'
  PROVE  Whence'
  <1>1. Disk'
    BY SameDisk
  <1>2. run.part = "clean"
    BY DEF Whence, HalfBuilt
  <1>3. HalfBuilt'
    BY <1>2 DEF HalfBuilt
  <1>4. Rebuilt'
    <2>1. Shape
      BY DEF IInv
    <2> QED
      BY <2>1, ComesTo DEF Rebuilt, Current, Order
  <1> QED
    BY <1>1, <1>3, <1>4 DEF Whence

LEMMA EarlyKeeps ==
  ASSUME IInv, Whence,
         workspaceChecks \/ buildArtifacts \/ packageVersionExists \/ publishDryRun
  PROVE  Whence'
  <1>1. Working /\ UNCHANGED <<publishPackageOrder, tree, built>> /\ RunShape(run)
        /\ run.at \in DOMAIN Order /\ 1 \in DOMAIN Order
        /\ (run.at # Len(Order) => run.at + 1 \in DOMAIN Order)
        /\ run.stage \in {"checks", "build", "view", "dry-run"}
    BY AtIn DEF workspaceChecks, buildArtifacts, packageVersionExists, publishDryRun, Ready
  <1>2. CASE run' = Idle
    BY <1>1, <1>2, OverKeeps, SameDisk
  <1>3. CASE run' # Idle
    <2>1. run.build = <<>>
      BY <1>1, <1>3 DEF Whence, HalfBuilt, workspaceChecks, buildArtifacts, packageVersionExists,
                        publishDryRun, Ready
    <2>2. \/ run' = [run EXCEPT !.stage = "build", !.build = Targets]
          \/ run' = [run EXCEPT !.stage = "dry-run", !.build = Prepack[Current]]
          \/ run' = [run EXCEPT !.stage = "view"]
          \/ run' = Enter(run, "pack")
          \/ run.at # Len(Order) /\ run' = [run EXCEPT !.at = @ + 1, !.stage = "view"]
      BY <1>3 DEF workspaceChecks, buildArtifacts, packageVersionExists, publishDryRun, Tried,
                  OpensDirectory, Continues, Fails
    <2>3. /\ RunShape(run') /\ run'.part = run.part /\ run'.at \in DOMAIN Order
          /\ run'.stage \in {"build", "dry-run", "view", "pack"}
          /\ run'.stage = "pack" => run'.at = 1 /\ run'.build = Prepack[Order[1]]
          /\ run'.uploads = run.uploads
      BY <1>1, <2>2 DEF Enter, RunShape
    <2>4. Tarballs'
      BY <1>1, <2>3 DEF Whence, Tarballs
    <2> QED
      BY <1>1, <2>1, <2>3, <2>4, GoesOnKeeps
  <1> QED
    BY <1>2, <1>3

LEMMA WholeArtefact ==
  ASSUME Whence, Working, run.stage \in {"pack", "publish"}, run.build = <<>>
  PROVE  Artefact(Current) = Whole(Current)
  BY DEF Whence, Rebuilt, Artefact, Whole

LEMMA PackKeeps ==
  ASSUME IInv, Whence, packPackage
  PROVE  Whence'
  <1>1. Working /\ UNCHANGED <<publishPackageOrder, tree, built>> /\ RunShape(run)
        /\ run.at \in DOMAIN Order /\ run.build = <<>> /\ run.stage = "pack"
        /\ (run.at # Len(Order) => run.at + 1 \in DOMAIN Order)
    BY AtIn DEF packPackage, Ready
  <1>2. CASE run' = Idle
    BY <1>1, <1>2, OverKeeps, SameDisk
  <1>3. CASE run' # Idle
    <2> DEFINE packed == run.packed \cup {Artefact(Current)}
               r == [run EXCEPT !.packed = packed]
    <2>1. run' = Next1(r, [r EXCEPT !.stage = "write"])
      BY <1>3 DEF packPackage, Continues, Fails
    <2>2. Whole(Current) \in packed /\ run.packed \subseteq packed
      BY <1>1, WholeArtefact
    <2> HIDE DEF packed
    <2>3. /\ RunShape(run') /\ run'.part = run.part /\ run'.at \in DOMAIN Order
          /\ run'.packed = packed /\ run'.uploads = run.uploads
          /\ \/ run'.stage = "write" /\ run'.at = run.at /\ run.at = Len(Order)
             \/ run'.stage = "pack" /\ run'.at = run.at + 1 /\ run'.build = Prepack[Order[run'.at]]
      BY <1>1, <2>1 DEF Next1, RunShape
    <2>4. ASSUME NEW i \in 1 .. run.at
          PROVE  Whole(Order[i]) \in packed
      <3>1. run.at \in Nat
        BY <1>1, OrderType DEF IInv
      <3>2. CASE i = run.at
        BY <2>2, <3>2 DEF Current
      <3>3. CASE i # run.at
        BY <1>1, <2>2, <3>1, <3>3 DEF Whence, Tarballs
      <3> QED
        BY <3>2, <3>3
    <2>5. ASSUME run.at = Len(Order), NEW p \in Package
          PROVE  Whole(p) \in packed
      <3>1. Position(p) \in DOMAIN Order /\ Order[Position(p)] = p
        BY PositionIn DEF IInv
      <3>2. Position(p) \in 1 .. run.at
        BY <2>5, <3>1, OrderType DEF IInv
      <3> QED
        BY <2>4, <3>1, <3>2
    <2>6. run.uploads = {}
      BY <1>1 DEF Whence, Tarballs
    <2>7. \A p : Whole(p)' = Whole(p)
      BY <1>1 DEF Whole, tree
    <2>8. run.at \in Nat /\ Order' = Order
      BY <1>1, OrderType DEF IInv, Order
    <2>9. Tarballs'
      BY <2>3, <2>4, <2>5, <2>6, <2>7, <2>8 DEF Tarballs
    <2> QED
      BY <1>1, <2>3, <2>9, GoesOnKeeps
  <1> QED
    BY <1>2, <1>3

LEMMA SmokeKeeps ==
  ASSUME IInv, Whence, writeSmokeProject \/ smokeInstall \/ assertPackedBinaries \/ packAndSmoke
  PROVE  Whence'
  <1>1. Working /\ UNCHANGED <<publishPackageOrder, tree, built>> /\ RunShape(run)
        /\ run.at \in DOMAIN Order /\ 1 \in DOMAIN Order /\ run.build = <<>>
        /\ run.stage \in {"write", "install", "layout", "smoke"}
    BY AtIn DEF writeSmokeProject, smokeInstall, assertPackedBinaries, packAndSmoke, Ready
  <1>2. CASE run' = Idle
    BY <1>1, <1>2, OverKeeps, SameDisk
  <1>3. CASE run' # Idle
    <2>1. \/ run' = [run EXCEPT !.stage = "install"]
          \/ \E copies : run' = [run EXCEPT !.stage = "layout", !.nested = copies]
          \/ run' = [run EXCEPT !.stage = "smoke"] /\ run.nested = {}
          \/ run' = Enter(run, "publish") /\ run.stage = "smoke"
      BY <1>3 DEF writeSmokeProject, smokeInstall, assertPackedBinaries, packAndSmoke, Continues,
                  Fails, assertSingleCopies, Ready
    <2>2. /\ RunShape(run') /\ run'.part = run.part /\ run'.at \in DOMAIN Order
          /\ run'.packed = run.packed /\ run'.uploads = run.uploads
          /\ run'.stage \in {"install", "layout", "smoke", "publish"}
          /\ run'.stage \in {"smoke", "publish"} => run'.nested = {}
          /\ run'.stage = "publish" => run'.build = Prepack[Order[run'.at]]
      BY <1>1, <2>1 DEF Enter, RunShape, Whence, Tarballs
    <2>3. \A p : Whole(p)' = Whole(p)
      BY <1>1 DEF Whole, tree
    <2>4. run.uploads = {} /\ \A p \in Package : Whole(p) \in run.packed
      BY <1>1 DEF Whence, Tarballs
    <2>5. Tarballs'
      BY <2>2, <2>3, <2>4 DEF Tarballs
    <2> QED
      BY <1>1, <2>2, <2>5, GoesOnKeeps
  <1> QED
    BY <1>2, <1>3

LEMMA UploadKeeps ==
  ASSUME IInv, Whence, publishToNpm
  PROVE  Whence'
  <1>1. Working /\ UNCHANGED <<publishPackageOrder, tree, built>> /\ RunShape(run)
        /\ run.at \in DOMAIN Order /\ run.build = <<>> /\ run.stage = "publish"
        /\ (run.at # Len(Order) => run.at + 1 \in DOMAIN Order)
    BY AtIn DEF publishToNpm, Ready
  <1>2. CASE run' = Idle
    BY <1>1, <1>2, OverKeeps, SameDisk
  <1>3. CASE run' # Idle
    <2> DEFINE uploads == run.uploads \cup {Artefact(Current)}
               r == [run EXCEPT !.uploads = uploads]
    <2>1. run' = Next1(r, Idle)
      BY <1>3 DEF publishToNpm, Continues, Fails, Uploaded
    <2>2. \A a \in uploads : a \in run.uploads \/ a = Whole(Current)
      BY <1>1, WholeArtefact
    <2> HIDE DEF uploads
    <2>3. /\ RunShape(run') /\ run'.part = run.part /\ run'.at \in DOMAIN Order
          /\ run'.packed = run.packed /\ run'.uploads = uploads /\ run'.nested = run.nested
          /\ run'.stage = "publish" /\ run'.build = Prepack[Order[run'.at]]
      BY <1>1, <1>3, <2>1 DEF Next1, RunShape
    <2>4. \A p : Whole(p)' = Whole(p)
      BY <1>1 DEF Whole, tree
    <2>5. Current \in Package
      BY <1>1, OrderType DEF IInv, Current
    <2>6. Tarballs'
      BY <1>1, <2>2, <2>3, <2>4, <2>5 DEF Whence, Tarballs
    <2> QED
      BY <1>1, <2>3, <2>6, GoesOnKeeps
  <1> QED
    BY <1>2, <1>3

LEMMA StartKeeps ==
  ASSUME IInv, Whence, NEW mode, NEW ci, NEW tty, Start(mode, ci, tty)
  PROVE  Whence'
  <1>1. ~Working /\ UNCHANGED <<publishPackageOrder, tree, built>>
    BY DEF Start
  <1>2. Disk'
    BY <1>1, SameDisk
  <1>3. CASE run' = run
    BY <1>1, <1>2, <1>3, OverKeeps DEF Working
  <1>4. CASE run' # run
    <2> DEFINE stage == IF mode = "smoke-only" THEN "build" ELSE "checks"
               build == IF mode = "smoke-only" THEN Targets ELSE <<>>
               id == runs'
    <2>1. run' = [stage |-> stage, mode |-> mode, id |-> id, context |-> manifest,
                  at |-> 1, build |-> build, part |-> "clean",
                  packed |-> {}, nested |-> {}, uploads |-> {}]
      BY <1>4 DEF Start
    <2>2. stage \in {"build", "checks"} /\ (stage = "checks" => build = <<>>)
      OBVIOUS
    <2> HIDE DEF stage, build, id
    <2>3. HalfBuilt' /\ Rebuilt' /\ Tarballs'
      BY <2>1, <2>2 DEF HalfBuilt, Rebuilt, Tarballs
    <2> QED
      BY <1>2, <2>3 DEF Whence
  <1> QED
    BY <1>3, <1>4

LEMMA KillKeeps ==
  ASSUME Whence, Kill
  PROVE  Whence'
  BY DiskStep, OverKeeps DEF Kill

LEMMA EditKeeps ==
  ASSUME Whence, Edit, QuietTree
  PROVE  Whence'
  BY SameDisk, OverKeeps DEF Edit, Working

LEMMA InitWhence == Init => Whence
  BY DEF Init, Whence, Disk, HalfBuilt, Rebuilt, Tarballs, Working, Nothing

LEMMA StepKeeps ==
  ASSUME QuietTree, IInv, Whence, [Next]_vars
  PROVE  Whence'
  <1>1. CASE UNCHANGED vars
    BY <1>1 DEF vars, tree, built, Whence, Disk, HalfBuilt, Rebuilt, Tarballs, Working, Order,
                Current, Target, Whole
  <1>2. CASE \E mode \in {"release", "dry-run", "smoke-only"}, ci, tty \in BOOLEAN :
               Start(mode, ci, tty)
    BY <1>2, StartKeeps
  <1> QED
    BY <1>1, <1>2, CleanKeeps, CompileKeeps, RollupKeeps, EarlyKeeps, PackKeeps, SmokeKeeps,
       UploadKeeps, KillKeeps, EditKeeps DEF Next

\* Whatever a run uploads it has packed before and tried: the files of every
\* upload are built from the sources of the run, they are those of a tarball, and
\* the consumer resolved nothing but tarballs (publish.ts:432-437, 1077-1098).
\* The upload packs again after the smoke: what makes the second artefact the
\* first is that every prepack rebuilds its package from a tree nobody touches.
THEOREM UploadsWereTried == QuietTree => (Spec => []SmokeTriedTheUploads)
  <1> SUFFICES ASSUME QuietTree PROVE Spec => []SmokeTriedTheUploads
    OBVIOUS
  <1>1. (IInv /\ Whence) /\ [Next]_vars => (IInv /\ Whence)'
    BY StepPreserves, StepKeeps
  <1>2. Whence => SmokeTriedTheUploads
    BY DEF Whence, Tarballs, SmokeTriedTheUploads, Whole
  <1> QED
    BY <1>1, <1>2, InitIInv, InitWhence, PTL DEF Spec

-----------------------------------------------------------------------------

(* The hub and its application *)

Messages == [act : {"attached", "detached", "ingested"}, of : Session]
              \cup [act : {"replied"}, of : Asks]

BusTypes == sequence \in Nat /\ \A k \in DOMAIN work : k[1] \in Nat

ClientTypes ==
  /\ plan \in Plans /\ gen \in 0 .. plan.sessions
  /\ client \in {"down", "dialing", "attached", "refused"}
  /\ buffer \in Seq(Nat) /\ dropped \in Nat
  /\ flight \in [Session -> [at : {"none", "net", "mail"}, records : Seq(Nat), dropped : Nat]]
  /\ kept \in [Session -> Seq(Nat)] /\ seen \in [Session -> Nat]

HubTypes ==
  /\ handler \in [Session -> {"none", "called", "attaching", "registered", "streaming", "over"}]
  /\ mail \in Seq(Messages)
  /\ rows \subseteq Session
  /\ view \in [Session -> [count : Nat, dropped : Nat, last : Nat]]
  /\ ring \in [Session -> Seq(Nat)] /\ evicted \in [Session -> Nat]

QuestionTypes ==
  /\ outbound \in [Session -> SUBSET Asks] /\ channel \in [Session -> SUBSET Asks]
  /\ ask \in [Asks -> [at : {"idle", "waiting", "refused", "answered", "detached",
                             "timed out", "interrupted"},
                       of : Session \cup {None}]]
  /\ deferred \in [Asks -> {"open", "answered", "detached"}]

\* A session is registered by one message, which its handler waits for, and
\* an attached client's handler is past it.
Handlers ==
  /\ \A g \in Session : g > gen => handler[g] = "none"
  /\ \A g \in rows : handler[g] \in {"registered", "streaming", "over"}
  /\ \A i \in DOMAIN mail : mail[i].act = "attached" =>
       /\ handler[mail[i].of] = "attaching"
       /\ \A j \in DOMAIN mail : mail[j] = mail[i] => j = i
  /\ client \in {"dialing", "attached"} => gen > 0
  /\ client = "attached" => handler[gen] \in {"streaming", "over"}

Questions ==
  /\ NoOrphanQuestion
  /\ \A q \in Asks : ask[q].at = "waiting" => ask[q].of \in Session

\* Before a client is attached nothing of its session has left the buffer.
Counted ==
  /\ \A g \in Session : g > gen => flight[g] = NoFlight /\ kept[g] = << >> /\ seen[g] = 0
  /\ client = "dialing" =>
       /\ flight[gen] = NoFlight
       /\ kept[gen] = buffer /\ seen[gen] = Len(buffer) + dropped
       /\ gen \in rows => view[gen] = NoView /\ ring[gen] = << >> /\ evicted[gen] = 0
  /\ client = "attached" /\ gen \in rows => evicted[gen] <= Len(kept[gen])
  /\ NothingUncounted

DInv == /\ BusTypes /\ ClientTypes /\ HubTypes /\ QuestionTypes
        /\ Handlers /\ Questions /\ Counted

-----------------------------------------------------------------------------
(* What a step leaves alone *)

LEMMA Framed ==
  /\ BusTypes /\ UNCHANGED <<sequence, work>> => BusTypes'
  /\ ClientTypes /\ UNCHANGED <<plan, gen, client, buffer, dropped, flight, kept, seen>>
       => ClientTypes'
  /\ HubTypes /\ UNCHANGED <<handler, mail, rows, view, ring, evicted>> => HubTypes'
  /\ QuestionTypes /\ UNCHANGED <<outbound, channel, ask, deferred>> => QuestionTypes'
  /\ Handlers /\ UNCHANGED <<gen, client, handler, mail, rows>> => Handlers'
  /\ Questions /\ UNCHANGED <<rows, channel, ask, deferred>> => Questions'
  /\ Counted /\ UNCHANGED <<gen, client, buffer, dropped, flight, kept, seen, rows, view, ring,
                           evicted>> => Counted'
  <1>1. BusTypes /\ UNCHANGED <<sequence, work>> => BusTypes'
    BY DEF BusTypes
  <1>2. ClientTypes /\ UNCHANGED <<plan, gen, client, buffer, dropped, flight, kept, seen>>
          => ClientTypes'
    BY DEF ClientTypes
  <1>3. HubTypes /\ UNCHANGED <<handler, mail, rows, view, ring, evicted>> => HubTypes'
    BY DEF HubTypes
  <1>4. QuestionTypes /\ UNCHANGED <<outbound, channel, ask, deferred>> => QuestionTypes'
    BY DEF QuestionTypes
  <1>5. Handlers /\ UNCHANGED <<gen, client, handler, mail, rows>> => Handlers'
    BY DEF Handlers
  <1>6. Questions /\ UNCHANGED <<rows, channel, ask, deferred>> => Questions'
    BY DEF Questions, NoOrphanQuestion
  <1>7. Counted /\ UNCHANGED <<gen, client, buffer, dropped, flight, kept, seen, rows, view, ring,
                             evicted>> => Counted'
    BY DEF Counted, NothingUncounted
  <1> QED
    BY <1>1, <1>2, <1>3, <1>4, <1>5, <1>6, <1>7

-----------------------------------------------------------------------------
(* Sequences of records *)

\* The provers rewrite a concatenation and a slice that they see; these names
\* keep them from it.
Joined(s, t) == s \o t
From(s, e) == SubSeq(s, e + 1, Len(s))

LEMMA Regroup ==
  ASSUME NEW a \in Seq(Nat), NEW b \in Seq(Nat), NEW c \in Seq(Nat)
  PROVE  (a \o b) \o c = a \o (b \o c)
  BY ConcatAssociative

LEMMA JoinedIsASequence ==
  ASSUME NEW s \in Seq(Nat), NEW t \in Seq(Nat)
  PROVE  Joined(s, t) \in Seq(Nat)
  BY ConcatProperties DEF Joined

LEMMA OneMore ==
  ASSUME NEW b \in Seq(Nat), NEW c \in Seq(Nat), NEW k \in Seq(Nat),
         NEW e \in Nat, e <= Len(k), NEW r \in Nat,
         Joined(b, c) = From(k, e)
  PROVE  Joined(b, Append(c, r)) = From(Append(k, r), e)
  <1> DEFINE k1 == Append(k, r)
             n == Len(k) + 1
             s == SubSeq(k, e + 1, Len(k))
  <1>1. /\ k1 \in Seq(Nat) /\ Len(k1) = n /\ k1[n] = r
        /\ \A i \in 1 .. Len(k) : k1[i] = k[i]
    BY AppendProperties
  <1>2. SubSeq(k1, e + 1, n) = SubSeq(k1, e + 1, n - 1) \o <<k1[n]>>
    <2> HIDE DEF k1
    <2>1. e + 1 \in 1 .. Len(k1) /\ n \in (e + 1) .. Len(k1)
      BY <1>1
    <2> QED
      BY <1>1, <2>1, SubSeqRecursiveSecond
  <1>3. SubSeq(k1, e + 1, n - 1) = s
    <2>1. \A i \in e + 1 .. Len(k) : k1[i] \in Nat /\ k[i] \in Nat /\ k1[i] = k[i]
      BY <1>1
    <2> HIDE DEF k1
    <2>2. /\ SubSeq(k1, e + 1, Len(k)) \in Seq(Nat)
          /\ Len(SubSeq(k1, e + 1, Len(k))) = IF e + 1 <= Len(k) THEN Len(k) - (e + 1) + 1 ELSE 0
          /\ \A i \in 1 .. Len(k) - (e + 1) + 1 : SubSeq(k1, e + 1, Len(k))[i] = k1[e + 1 + i - 1]
      BY <2>1, SubSeqProperties
    <2>3. /\ s \in Seq(Nat)
          /\ Len(s) = IF e + 1 <= Len(k) THEN Len(k) - (e + 1) + 1 ELSE 0
          /\ \A i \in 1 .. Len(k) - (e + 1) + 1 : s[i] = k[e + 1 + i - 1]
      BY <2>1, SubSeqProperties
    <2> DEFINE s1 == SubSeq(k1, e + 1, Len(k))
    <2>4. Len(s1) = Len(s) /\ \A i \in 1 .. Len(s1) : s1[i] = s[i]
      BY <2>1, <2>2, <2>3
    <2>5. s1 = s
      <3> HIDE DEF s, s1
      <3> QED
        BY <2>2, <2>3, <2>4, SeqEqual DEF s1
    <2> QED
      BY <2>5
  <1>5. <<r>> \in Seq(Nat)
    OBVIOUS
  <1>6. Append(c, r) = c \o <<r>>
    BY AppendIsConcat
  <1>7. \A v \in Seq(Nat) : v \o (c \o <<r>>) = (v \o c) \o <<r>>
    BY <1>5, Regroup
  <1> QED
    BY <1>1, <1>2, <1>3, <1>6, <1>7 DEF Joined, From

LEMMA Slice ==
  ASSUME NEW s \in Seq(Nat), NEW e \in Nat, e <= Len(s)
  PROVE  /\ SubSeq(s, e + 1, Len(s)) \in Seq(Nat)
         /\ Len(SubSeq(s, e + 1, Len(s))) = Len(s) - e
         /\ \A i \in 1 .. Len(s) - e : SubSeq(s, e + 1, Len(s))[i] = s[e + i]
  <1>1. \A i \in e + 1 .. Len(s) : s[i] \in Nat
    OBVIOUS
  <1> DEFINE m == e + 1
             n == Len(s)
  <1>2. m \in Int /\ n \in Int
    OBVIOUS
  <1>3. /\ SubSeq(s, m, n) \in Seq(Nat)
        /\ Len(SubSeq(s, m, n)) = IF m <= n THEN n - m + 1 ELSE 0
        /\ \A i \in 1 .. n - m + 1 : SubSeq(s, m, n)[i] = s[m + i - 1]
    <2> HIDE DEF m, n
    <2> QED
      BY <1>1, <1>2, SubSeqProperties DEF m, n
  <1>4. n - m + 1 = Len(s) - e /\ (m <= n <=> Len(s) - e # 0)
    OBVIOUS
  <1>5. ASSUME NEW i \in 1 .. Len(s) - e PROVE SubSeq(s, m, n)[i] = s[e + i]
    <2>1. m + i - 1 = e + i
      OBVIOUS
    <2> HIDE DEF m, n
    <2> QED
      BY <1>3, <1>4, <2>1
  <1> QED
    BY <1>3, <1>4, <1>5

LEMMA Trimmed ==
  ASSUME NEW all \in Seq(Nat), NEW c \in Seq(Nat), NEW k \in Seq(Nat),
         NEW e \in Nat, e <= Len(k), NEW x \in 0 .. Len(all),
         Joined(all, c) = From(k, e)
  PROVE  /\ Joined(From(all, x), c) = From(k, e + x)
         /\ e + x <= Len(k)
  <1> DEFINE s == SubSeq(k, e + 1, Len(k))
             t == SubSeq(all, x + 1, Len(all))
             u == SubSeq(k, e + x + 1, Len(k))
  <1>1. /\ all \o c \in Seq(Nat) /\ Len(all \o c) = Len(all) + Len(c)
        /\ \A i \in 1 .. Len(all) + Len(c) :
             (all \o c)[i] = IF i <= Len(all) THEN all[i] ELSE c[i - Len(all)]
    BY ConcatProperties
  <1>0. all \o c = s
    BY DEF Joined, From
  <1>2. Len(s) = Len(k) - e /\ \A i \in 1 .. Len(k) - e : s[i] = k[e + i]
    BY Slice
  <1>3. Len(all) + Len(c) = Len(k) - e /\ e + x <= Len(k) /\ e + x \in Nat
    BY <1>0, <1>1, <1>2
  <1>4. /\ t \in Seq(Nat) /\ Len(t) = Len(all) - x
        /\ \A i \in 1 .. Len(all) - x : t[i] = all[x + i]
    BY Slice
  <1>5. /\ u \in Seq(Nat) /\ Len(u) = Len(k) - (e + x)
        /\ \A i \in 1 .. Len(k) - (e + x) : u[i] = k[(e + x) + i]
    BY <1>3, Slice
  <1> HIDE DEF s, t, u
  <1>6. /\ t \o c \in Seq(Nat) /\ Len(t \o c) = Len(t) + Len(c)
        /\ \A i \in 1 .. Len(t) + Len(c) :
             (t \o c)[i] = IF i <= Len(t) THEN t[i] ELSE c[i - Len(t)]
    BY <1>4, ConcatProperties
  <1>7. ASSUME NEW i \in 1 .. Len(t \o c)
        PROVE  (t \o c)[i] = u[i]
    <2>1. i \in 1 .. Len(t) + Len(c) /\ i \in 1 .. Len(k) - (e + x)
      BY <1>3, <1>4, <1>6
    <2>2. x + i \in 1 .. Len(all) + Len(c) /\ x + i \in 1 .. Len(k) - e
      BY <1>3, <2>1
    <2>3. k[(e + x) + i] = (all \o c)[x + i]
      <3>1. s[x + i] = k[e + (x + i)]
        BY <1>2, <2>2
      <3>2. e + (x + i) = (e + x) + i
        BY <2>1
      <3> QED
        BY <1>0, <3>1, <3>2 DEF s
    <2>4. CASE i <= Len(t)
      <3>1. (t \o c)[i] = t[i]
        BY <1>6, <2>1, <2>4
      <3>2. i \in 1 .. Len(all) - x /\ x + i <= Len(all)
        BY <1>4, <2>1, <2>4
      <3>3. t[i] = all[x + i]
        BY <1>4, <3>2
      <3> QED
        BY <1>1, <1>5, <2>1, <2>2, <2>3, <3>1, <3>2, <3>3
    <2>5. CASE ~(i <= Len(t))
      <3>1. (t \o c)[i] = c[i - Len(t)]
        BY <1>6, <2>1, <2>5
      <3>2. ~(x + i <= Len(all)) /\ x + i - Len(all) = i - Len(t)
        BY <1>4, <2>1, <2>5
      <3>3. (all \o c)[x + i] = c[x + i - Len(all)]
        BY <1>1, <2>2, <3>2
      <3> QED
        BY <1>5, <2>1, <2>3, <3>1, <3>2, <3>3
    <2> QED
      BY <2>4, <2>5
  <1>8. t \o c = u
    <2>1. Len(t \o c) = Len(u)
      BY <1>3, <1>4, <1>5, <1>6
    <2> QED
      BY <1>5, <1>6, <1>7, <2>1, SeqEqual
  <1> QED
    BY <1>3, <1>8 DEF t, u, Joined, From

-----------------------------------------------------------------------------
(* The bus *)

LEMMA BusEmit ==
  ASSUME BusTypes, NEW p, Emit(p)
  PROVE  BusTypes'
  <1>1. \A k \in DOMAIN work' : k \in DOMAIN work \/ k = <<sequence + 1, "observers">>
    BY DEF Emit, Pass, Beside
  <1>2. sequence' = sequence + 1
    BY DEF Emit, Remember
  <1> QED
    BY <1>1, <1>2 DEF BusTypes

LEMMA BusTurn ==
  ASSUME BusTypes, NEW k, NEW o,
         \/ Notify(k, o) \/ RecordObserverFailure(k, o)
         \/ PassEnds(k) \/ SinkAnswers(k) \/ RecordSinkFailure(k)
  PROVE  BusTypes'
  <1>1. CASE Notify(k, o)
    BY <1>1 DEF Notify, BusTypes
  <1>2. CASE RecordObserverFailure(k, o)
    <2>1. \A j \in DOMAIN work' : j \in DOMAIN work \/ j \in {sequence + 1} \X Sinks
      BY <1>2 DEF RecordObserverFailure, SinkCalls, Beside
    <2>2. sequence' = sequence + 1
      BY <1>2 DEF RecordObserverFailure, Remember
    <2> QED
      BY <2>1, <2>2 DEF BusTypes
  <1>3. CASE PassEnds(k)
    <2>1. \A j \in DOMAIN work' : j \in DOMAIN work \/ j \in {k[1]} \X Sinks
      BY <1>3 DEF PassEnds, SinkCalls, Without, Restrict, Beside
    <2> QED
      BY <1>3, <2>1 DEF PassEnds, Due, BusTypes
  <1>4. CASE SinkAnswers(k)
    BY <1>4 DEF SinkAnswers, Without, Restrict, BusTypes
  <1>5. CASE RecordSinkFailure(k)
    <2>1. \A j \in DOMAIN work' : j \in DOMAIN work \/ j = <<sequence + 1, "observers">>
      BY <1>5 DEF RecordSinkFailure, Without, Restrict, Pass, Beside
    <2>2. sequence' = sequence + 1
      BY <1>5 DEF RecordSinkFailure, Remember
    <2> QED
      BY <2>1, <2>2 DEF BusTypes
  <1> QED
    BY <1>1, <1>2, <1>3, <1>4, <1>5

-----------------------------------------------------------------------------
(* Steps of the client *)

LEMMA Numbered ==
  ASSUME ClientTypes, Handlers
  PROVE  /\ gen \in Nat /\ gen <= MaxSessions
         /\ client \in {"dialing", "attached"} => gen \in Session
         /\ gen < plan.sessions => gen + 1 \in Session
         /\ Session \subseteq Nat
  <1>1. gen \in Nat /\ plan.sessions \in Nat /\ plan.sessions <= MaxSessions /\ MaxSessions \in Nat
        /\ gen <= plan.sessions
    BY DevtoolsAssumption DEF ClientTypes
  <1> QED
    BY <1>1 DEF Handlers, Session

\* What left the buffer: how much of it the hub counts or will count, and the
\* records of it that the hub holds or will hold.
Told == view[gen].count + view[gen].dropped + Len(flight[gen].records) + flight[gen].dropped
Held == ring[gen] \o flight[gen].records

LEMMA Account ==
  /\ NothingUncounted <=>
       (client = "attached" /\ gen \in rows =>
          /\ seen[gen] = Told + Len(buffer) + dropped
          /\ Joined(Held, buffer) = From(kept[gen], evicted[gen]))
  /\ NothingUncounted' <=>
       (client' = "attached" /\ gen' \in rows' =>
          /\ seen'[gen'] = Told' + Len(buffer') + dropped'
          /\ Joined(Held', buffer') = From(kept'[gen'], evicted'[gen']))
  BY DEF NothingUncounted, Told, Held, Joined, From

LEMMA AccountTypes ==
  ASSUME ClientTypes, HubTypes, gen \in Session
  PROVE  Told \in Nat /\ Held \in Seq(Nat)
  <1> DEFINE sent == Len(flight[gen].records)
             lost == flight[gen].dropped
             c == view[gen].count
             d == view[gen].dropped
  <1>1. flight[gen].records \in Seq(Nat) /\ ring[gen] \in Seq(Nat)
    BY DEF ClientTypes, HubTypes
  <1>2. sent \in Nat
    BY <1>1
  <1>3. lost \in Nat /\ c \in Nat /\ d \in Nat
    BY DEF ClientTypes, HubTypes
  <1>4. Held \in Seq(Nat)
    BY <1>1, ConcatProperties DEF Held
  <1> HIDE DEF sent, lost, c, d
  <1>5. c + d + sent + lost \in Nat
    BY <1>2, <1>3
  <1> QED
    BY <1>4, <1>5 DEF Told, sent, lost, c, d

LEMMA BusOnlyStep ==
  ASSUME DInv, BusTypes',
         UNCHANGED <<clientVars, netVars, rowVars, askVars, plan, kept, seen>>
  PROVE  DInv'
  BY Framed DEF DInv, clientVars, netVars, rowVars, askVars

LEMMA BufferStep ==
  ASSUME DInv, NEW k, NEW g \in Session, Notify(k, g), Buffer(g, k[1]),
         UNCHANGED <<signalVars, client, gen, flight, netVars, rowVars, askVars, restVars>>
  PROVE  DInv'
  <1> DEFINE record == k[1]
  <1>1. record \in Nat
    BY DEF Notify, Due, DInv, BusTypes
  <1>2. BusTypes'
    BY BusTurn DEF DInv
  <1>3. HubTypes' /\ QuestionTypes' /\ Handlers' /\ Questions'
    BY Framed DEF DInv, netVars, rowVars, askVars
  <1>4. CASE UNCHANGED <<buffer, dropped, kept, seen>>
    BY <1>2, <1>4, BusOnlyStep DEF clientVars, restVars
  <1> HIDE DEF record
  <1>5. CASE /\ g = gen /\ client \in {"dialing", "attached"}
             /\ seen' = [seen EXCEPT ![g] = @ + 1]
             /\ \/ dropped' = dropped + 1 /\ UNCHANGED <<buffer, kept>>
                \/ /\ buffer' = Append(buffer, record)
                   /\ kept' = [kept EXCEPT ![g] = Append(@, record)]
                   /\ UNCHANGED dropped
    <2>1. /\ buffer \in Seq(Nat) /\ kept[gen] \in Seq(Nat) /\ seen[gen] \in Nat /\ dropped \in Nat
          /\ Append(buffer, record) \in Seq(Nat) /\ Append(kept[gen], record) \in Seq(Nat)
          /\ Len(Append(buffer, record)) = Len(buffer) + 1 /\ Len(buffer) \in Nat
          /\ Len(Append(kept[gen], record)) = Len(kept[gen]) + 1 /\ Len(kept[gen]) \in Nat
      BY <1>1, <1>5, AppendProperties DEF DInv, ClientTypes
    <2>2. ClientTypes'
      <3>1. kept' \in [Session -> Seq(Nat)] /\ seen' \in [Session -> Nat]
        <4>1. kept \in [Session -> Seq(Nat)] /\ seen \in [Session -> Nat]
          BY DEF DInv, ClientTypes
        <4>2. seen' \in [Session -> Nat]
          BY <1>5, <2>1, <4>1
        <4> DEFINE more == Append(kept[gen], record)
        <4>3. more \in Seq(Nat)
          BY <2>1
        <4>4. kept' = kept \/ kept' = [kept EXCEPT ![gen] = more]
          BY <1>5
        <4> HIDE DEF more
        <4>5. kept' \in [Session -> Seq(Nat)]
          BY <4>1, <4>3, <4>4
        <4> QED
          BY <4>2, <4>5
      <3>2. buffer' \in Seq(Nat) /\ dropped' \in Nat
        <4>1. CASE buffer' = buffer /\ dropped' = dropped + 1
          BY <2>1, <4>1
        <4>2. CASE buffer' = Append(buffer, record) /\ dropped' = dropped
          BY <1>1, <2>1, <4>2
        <4> QED
          BY <1>5, <4>1, <4>2
      <3> QED
        BY <3>1, <3>2 DEF DInv, ClientTypes, restVars
    <2>3. /\ gen \in Session /\ seen'[gen] = seen[gen] + 1 /\ gen' = gen /\ client' = client
          /\ \/ kept'[gen] = kept[gen] /\ buffer' = buffer /\ dropped' = dropped + 1
             \/ /\ kept'[gen] = Append(kept[gen], record) /\ buffer' = Append(buffer, record)
                /\ dropped' = dropped
          /\ \A h \in Session : h > gen => seen'[h] = seen[h] /\ kept'[h] = kept[h]
      BY <1>5, Numbered DEF DInv, ClientTypes
    <2>4. seen'[gen] = seen[gen] + 1 /\ Len(buffer') + dropped' = Len(buffer) + dropped + 1
      BY <2>1, <2>3
    <2>5. CASE client = "dialing"
      <3>1. Counted'
        BY <2>1, <2>3, <2>4, <2>5 DEF DInv, Counted, NothingUncounted, rowVars
      <3> QED
        BY <1>2, <1>3, <2>2, <3>1 DEF DInv
    <2>6. CASE client = "attached"
      <3>1. Told' = Told /\ Held' = Held /\ rows' = rows /\ evicted' = evicted /\ flight' = flight
        BY <2>3 DEF Told, Held, rowVars
      <3>2. Told \in Nat /\ Held \in Seq(Nat) /\ (gen \in rows => evicted[gen] \in Nat)
        BY <2>3, AccountTypes DEF DInv, HubTypes
      <3>3. gen \in rows => seen'[gen] = Told + Len(buffer') + dropped'
        <4> SUFFICES ASSUME gen \in rows PROVE seen'[gen] = Told + Len(buffer') + dropped'
          OBVIOUS
        <4>1. seen[gen] = Told + Len(buffer) + dropped
          BY <2>6, Account DEF DInv, Counted
        <4>2. Len(buffer') \in Nat /\ dropped' \in Nat
          BY <2>1, <2>3
        <4> QED
          BY <2>1, <2>4, <3>2, <4>1, <4>2
      <3>4. gen \in rows => evicted[gen] <= Len(kept'[gen])
        BY <2>1, <2>3, <2>6, <3>2 DEF DInv, Counted
      <3>5. gen \in rows => Joined(Held, buffer') = From(kept'[gen], evicted[gen])
        <4> SUFFICES ASSUME gen \in rows
                     PROVE  Joined(Held, buffer') = From(kept'[gen], evicted[gen])
          OBVIOUS
        <4> DEFINE e == evicted[gen]
                   l == kept[gen]
        <4>1. /\ l \in Seq(Nat) /\ e \in Nat /\ e <= Len(l)
              /\ Joined(Held, buffer) = From(l, e)
          BY <2>1, <2>6, <3>2, Account DEF DInv, Counted
        <4>2. Joined(Held, Append(buffer, record)) = From(Append(l, record), e)
          <5> HIDE DEF e, l
          <5> QED
            BY <1>1, <2>1, <3>2, <4>1, OneMore
        <4> QED
          BY <2>3, <4>1, <4>2
      <3>6. Counted'
        BY <2>3, <2>6, <3>1, <3>3, <3>4, <3>5, Account DEF DInv, Counted
      <3> QED
        BY <1>2, <1>3, <2>2, <3>6 DEF DInv
    <2> QED
      BY <1>5, <2>5, <2>6
  <1> QED
    BY <1>4, <1>5 DEF Buffer, record

LEMMA DialStep ==
  ASSUME DInv, Dial
  PROVE  DInv'
  <1>1. gen' = gen + 1 /\ gen \in Nat /\ gen' \in Session /\ client' = "dialing"
    BY Numbered DEF Dial, DInv
  <1>2. handler[gen'] = "none" /\ gen' \notin rows
    BY <1>1 DEF DInv, Handlers
  <1>3. ClientTypes' /\ HubTypes'
    <2>1. plan' = plan /\ gen < plan.sessions /\ plan.sessions \in Nat
      BY DevtoolsAssumption DEF Dial, DInv, ClientTypes, restVars
    <2>2. ClientTypes'
      BY <1>1, <2>1 DEF Dial, DInv, ClientTypes, historyVars
    <2>3. HubTypes'
      BY <1>1 DEF Dial, DInv, HubTypes, rowVars
    <2> QED
      BY <2>2, <2>3
  <1>4. Handlers'
    <2>1. \A h \in Session : h # gen' => handler'[h] = handler[h]
      BY DEF Dial, DInv, HubTypes
    <2>2. \A h \in Session : h > gen' => handler'[h] = "none"
      BY <1>1, <2>1, Numbered DEF DInv, Handlers
    <2>3. \A i \in DOMAIN mail : mail[i].act = "attached" => mail[i].of \in Session /\ mail[i].of # gen'
      BY <1>2 DEF DInv, Handlers, HubTypes, Messages
    <2> QED
      BY <1>1, <1>2, <2>1, <2>2, <2>3 DEF Dial, DInv, Handlers, HubTypes, rowVars
  <1>5. Counted'
    BY <1>1, <1>2, Numbered DEF Dial, DInv, Counted, NothingUncounted, rowVars, historyVars
  <1> QED
    BY <1>3, <1>4, <1>5, Framed DEF Dial, DInv, rowVars, askVars

\* A client that leaves owes no account; a handler it takes along was not
\* waiting to be registered.
LEMMA Leaves ==
  ASSUME DInv, client \in {"dialing", "attached"}, client' \in {"down", "refused"},
         gen' = gen, buffer' = << >>, dropped' = 0,
         flight' = flight \/ flight' = [flight EXCEPT ![gen] = NoFlight],
         \/ handler' = handler
         \/ handler[gen] = "called" /\ handler' = [handler EXCEPT ![gen] = "over"],
         UNCHANGED <<sequence, work, mail, plan, rowVars, askVars, kept, seen>>
  PROVE  DInv'
  <1>1. gen \in Session /\ gen \in Nat /\ Session \subseteq Nat
    BY Numbered DEF DInv
  <1>2. ClientTypes'
    <2>1. NoFlight \in [at : {"none", "net", "mail"}, records : Seq(Nat), dropped : Nat]
      BY DEF NoFlight
    <2>2. flight' \in [Session -> [at : {"none", "net", "mail"}, records : Seq(Nat), dropped : Nat]]
      <3> HIDE DEF NoFlight
      <3> QED
        BY <2>1 DEF DInv, ClientTypes
    <2> QED
      BY <2>2 DEF DInv, ClientTypes
  <1>3. HubTypes'
    BY DEF DInv, HubTypes, rowVars
  <1>4. Handlers'
    <2>1. \A g \in Session : g # gen => handler'[g] = handler[g]
      BY DEF DInv, HubTypes
    <2>2. handler'[gen] = handler[gen] \/ (handler[gen] = "called" /\ handler'[gen] = "over")
      BY <1>1 DEF DInv, HubTypes
    <2>3. \A g \in Session : g > gen => handler'[g] = "none"
      BY <1>1, <2>1 DEF DInv, Handlers
    <2>4. \A i \in DOMAIN mail : mail[i].act = "attached" => mail[i].of \in Session
      BY DEF DInv, HubTypes, Messages
    <2>5. \A i \in DOMAIN mail : mail[i].act = "attached" => handler'[mail[i].of] = "attaching"
      BY <2>1, <2>2, <2>4 DEF DInv, Handlers
    <2>6. \A g \in rows : handler'[g] \in {"registered", "streaming", "over"}
      BY <2>1, <2>2 DEF DInv, Handlers, HubTypes
    <2> QED
      BY <2>3, <2>5, <2>6 DEF DInv, Handlers, rowVars
  <1>5. Counted'
    <2>1. \A g \in Session : g > gen => flight'[g] = flight[g]
      BY <1>1 DEF DInv, ClientTypes
    <2> QED
      BY <2>1 DEF DInv, Counted, NothingUncounted, rowVars
  <1> QED
    BY <1>2, <1>3, <1>4, <1>5, Framed DEF DInv, rowVars, askVars

LEMMA LeaveSteps ==
  ASSUME DInv, Disconnect \/ DisconnectMidFlight \/ Refuse
  PROVE  DInv'
  <1>1. CASE Disconnect
    <2>1. flight[gen] \in [at : {"none", "net", "mail"}, records : Seq(Nat), dropped : Nat]
      BY <1>1, Numbered DEF DInv, ClientTypes, Disconnect
    <2>2. flight' = flight \/ flight' = [flight EXCEPT ![gen] = NoFlight]
      BY <1>1 DEF Disconnect, DInv, ClientTypes
    <2> QED
      BY <1>1, <2>2, Leaves DEF Disconnect, Leave, netVars, restVars, historyVars
  <1>2. CASE DisconnectMidFlight
    BY <1>2, Leaves DEF DisconnectMidFlight, Leave, netVars, restVars, historyVars
  <1>3. CASE Refuse
    BY <1>3, Leaves DEF Refuse, Leave, restVars, historyVars
  <1> QED
    BY <1>1, <1>2, <1>3

LEMMA AttachedStep ==
  ASSUME DInv, Attached
  PROVE  DInv'
  <1>1. /\ client = "dialing" /\ handler[gen] = "streaming" /\ client' = "attached" /\ gen \in Session
        /\ UNCHANGED <<bothVars, gen, buffer, dropped, flight, netVars, rowVars, askVars,
                       restVars, historyVars>>
    BY Numbered DEF Attached, DInv
  <1>2. ClientTypes' /\ Handlers'
    BY <1>1 DEF DInv, ClientTypes, Handlers, netVars, rowVars, restVars, historyVars
  <1>3. Counted'
    <2>1. buffer \in Seq(Nat) /\ Len(buffer) \in Nat /\ dropped \in Nat
      BY DEF DInv, ClientTypes
    <2>2. kept[gen] = buffer /\ seen[gen] = Len(buffer) + dropped /\ flight[gen] = NoFlight
      BY <1>1 DEF DInv, Counted
    <2>3. ASSUME gen \in rows
          PROVE  /\ seen[gen] = Told + Len(buffer) + dropped
                 /\ Joined(Held, buffer) = From(kept[gen], evicted[gen])
                 /\ evicted[gen] <= Len(kept[gen])
      <3>1. view[gen] = NoView /\ ring[gen] = << >> /\ evicted[gen] = 0
        BY <1>1, <2>3 DEF DInv, Counted
      <3>2. Told = 0 /\ Held = << >>
        BY <2>2, <3>1 DEF Told, Held, NoView, NoFlight
      <3>3. Joined(Held, buffer) = buffer
        BY <2>1, <3>2, ConcatEmptySeq DEF Joined
      <3>4. From(buffer, 0) = buffer
        BY <2>1, SubSeqFull DEF From
      <3> QED
        BY <2>1, <2>2, <3>1, <3>2, <3>3, <3>4
    <2>4. Told' = Told /\ Held' = Held
      BY <1>1 DEF Told, Held, rowVars
    <2> QED
      BY <1>1, <2>3, <2>4, Account DEF DInv, Counted, rowVars, historyVars
  <1> QED
    BY <1>1, <1>2, <1>3, Framed DEF DInv, bothVars, busVars, netVars, rowVars, askVars

LEMMA FlushStep ==
  ASSUME DInv, FlushOnce
  PROVE  DInv'
  <1> DEFINE batch == [at |-> "net", records |-> buffer, dropped |-> dropped]
  <1>1. /\ client = "attached" /\ flight[gen] = NoFlight /\ gen \in Session
        /\ flight' = [flight EXCEPT ![gen] = batch] /\ buffer' = << >> /\ dropped' = 0
        /\ UNCHANGED <<bothVars, client, gen, netVars, rowVars, askVars, restVars, historyVars>>
    BY Numbered DEF FlushOnce, DInv
  <1>2. /\ buffer \in Seq(Nat) /\ Len(buffer) \in Nat /\ dropped \in Nat
        /\ ring[gen] \in Seq(Nat) /\ view[gen].count \in Nat /\ view[gen].dropped \in Nat
    BY <1>1 DEF DInv, ClientTypes, HubTypes
  <1>3. flight'[gen] = batch /\ \A g \in Session : g > gen => flight'[g] = flight[g]
    BY <1>1, Numbered DEF DInv, ClientTypes
  <1>4. ClientTypes'
    <2>1. batch \in [at : {"none", "net", "mail"}, records : Seq(Nat), dropped : Nat]
      BY <1>2
    <2> HIDE DEF batch
    <2>2. flight' \in [Session -> [at : {"none", "net", "mail"}, records : Seq(Nat), dropped : Nat]]
      BY <1>1, <2>1 DEF DInv, ClientTypes
    <2> QED
      BY <1>1, <2>2 DEF DInv, ClientTypes, restVars, historyVars
  <1>5. Counted'
    <2>1. Told = view[gen].count + view[gen].dropped /\ Held = ring[gen]
      BY <1>1, <1>2, ConcatEmptySeq DEF Told, Held, NoFlight
    <2>2. Told' = view[gen].count + view[gen].dropped + Len(buffer) + dropped
      BY <1>1, <1>3 DEF Told, rowVars
    <2>3. Held' = Joined(Held, buffer)
      <3>1. Held' = Joined(ring[gen], buffer)
        <4>1. Held' = Joined(ring'[gen'], flight'[gen'].records)
          BY DEF Held, Joined
        <4>2. ring'[gen'] = ring[gen] /\ flight'[gen'].records = buffer
          BY <1>1, <1>3 DEF rowVars
        <4> QED
          BY <4>1, <4>2
      <3> QED
        BY <2>1, <3>1
    <2>4. ASSUME gen \in rows
          PROVE  /\ seen[gen] = Told' + Len(buffer') + dropped'
                 /\ Joined(Held', buffer') = From(kept[gen], evicted[gen])
                 /\ evicted[gen] <= Len(kept[gen])
      <3>1. /\ seen[gen] = Told + Len(buffer) + dropped
            /\ Joined(Held, buffer) = From(kept[gen], evicted[gen])
            /\ evicted[gen] <= Len(kept[gen])
        BY <1>1, <2>4, Account DEF DInv, Counted
      <3>2. Held' \in Seq(Nat)
        BY <1>2, <2>1, <2>3, ConcatProperties DEF Joined
      <3>3. Joined(Held', << >>) = Held'
        BY <3>2, ConcatEmptySeq DEF Joined
      <3>4. seen[gen] = Told' + Len(buffer') + dropped'
        BY <1>1, <1>2, <2>1, <2>2, <3>1
      <3> QED
        BY <1>1, <2>3, <3>1, <3>3, <3>4
    <2> QED
      BY <1>1, <1>3, <2>4, Account DEF DInv, Counted, rowVars, historyVars
  <1> QED
    BY <1>1, <1>4, <1>5, Framed DEF DInv, bothVars, busVars, netVars, rowVars, askVars

-----------------------------------------------------------------------------
(* Steps of the hub *)

\* A message that registers nobody may come at any time.
LEMMA Submits ==
  ASSUME HubTypes, Handlers, NEW m \in Messages, m.act # "attached",
         mail' = Append(mail, m),
         UNCHANGED <<handler, rows, view, ring, evicted, gen, client>>
  PROVE  HubTypes' /\ Handlers'
  <1>1. mail \in Seq(Messages) /\ mail' \in Seq(Messages) /\ Len(mail') = Len(mail) + 1
    BY DEF HubTypes
  <1>2. DOMAIN mail = 1 .. Len(mail) /\ DOMAIN mail' = 1 .. Len(mail) + 1 /\ Len(mail) \in Nat
    BY <1>1
  <1>3. mail'[Len(mail) + 1] = m /\ \A i \in DOMAIN mail : mail'[i] = mail[i]
    BY <1>1
  <1>4. HubTypes'
    BY <1>1 DEF HubTypes
  <1>5. \A i \in DOMAIN mail' : mail'[i].act = "attached" => i \in DOMAIN mail /\ mail'[i] = mail[i]
    BY <1>2, <1>3
  <1>6. ASSUME NEW i \in DOMAIN mail', mail'[i].act = "attached"
        PROVE  /\ handler[mail'[i].of] = "attaching"
               /\ \A j \in DOMAIN mail' : mail'[j] = mail'[i] => j = i
    <2>1. i \in DOMAIN mail /\ mail'[i] = mail[i]
      BY <1>5, <1>6
    <2>2. handler[mail'[i].of] = "attaching"
      BY <1>6, <2>1 DEF Handlers
    <2>3. ASSUME NEW j \in DOMAIN mail', mail'[j] = mail'[i] PROVE j = i
      <3>1. j \in DOMAIN mail /\ mail'[j] = mail[j]
        BY <1>5, <1>6, <2>3
      <3> QED
        BY <1>6, <2>1, <2>3, <3>1 DEF Handlers
    <2> QED
      BY <2>2, <2>3
  <1> QED
    BY <1>4, <1>6 DEF Handlers

LEMMA AttachStep ==
  ASSUME DInv, NEW g \in Session, Attach(g)
  PROVE  DInv'
  <1> DEFINE m == Message("attached", g)
  <1>1. /\ handler[g] = "called" /\ handler' = [handler EXCEPT ![g] = "attaching"]
        /\ mail' = Append(mail, m)
        /\ UNCHANGED <<bothVars, client, gen, buffer, dropped, flight, askVars, rowVars,
                       restVars, historyVars>>
    BY DEF Attach, Submit, HubOnly
  <1>2. m \in Messages /\ m.act = "attached" /\ m.of = g
    BY DEF Message, Messages
  <1>3. /\ mail \in Seq(Messages) /\ mail' \in Seq(Messages) /\ Len(mail) \in Nat
        /\ DOMAIN mail = 1 .. Len(mail) /\ DOMAIN mail' = 1 .. Len(mail) + 1
        /\ mail'[Len(mail) + 1] = m /\ \A i \in DOMAIN mail : mail'[i] = mail[i]
    BY <1>1, <1>2 DEF DInv, HubTypes
  <1>4. handler'[g] = "attaching" /\ \A h \in Session : h # g => handler'[h] = handler[h]
    BY <1>1 DEF DInv, HubTypes
  <1>5. HubTypes'
    BY <1>1, <1>3 DEF DInv, HubTypes, rowVars
  <1>6. \A i \in DOMAIN mail : mail[i].act = "attached" =>
          mail[i].of \in Session /\ mail[i].of # g /\ handler[mail[i].of] = "attaching"
    BY <1>1, <1>3 DEF DInv, Handlers, HubTypes, Messages
  <1>7. ASSUME NEW i \in DOMAIN mail', mail'[i].act = "attached"
        PROVE  /\ handler'[mail'[i].of] = "attaching"
               /\ \A j \in DOMAIN mail' : mail'[j] = mail'[i] => j = i
    <2>1. CASE i = Len(mail) + 1
      <3>1. \A j \in DOMAIN mail : mail'[j] # mail'[i]
        BY <1>2, <1>3, <1>6, <2>1
      <3> QED
        BY <1>2, <1>3, <1>4, <2>1, <3>1
    <2>2. CASE i \in DOMAIN mail
      <3>1. mail'[i] = mail[i] /\ mail[i].act = "attached" /\ mail[i].of # g /\ mail[i].of \in Session
        BY <1>3, <1>6, <1>7, <2>2
      <3>2. handler'[mail'[i].of] = "attaching"
        BY <1>4, <1>6, <2>2, <3>1
      <3>3. mail'[Len(mail) + 1] # mail'[i]
        BY <1>2, <1>3, <3>1
      <3>4. \A j \in DOMAIN mail : mail[j] = mail[i] => j = i
        BY <2>2, <3>1 DEF DInv, Handlers
      <3> QED
        BY <1>3, <3>1, <3>2, <3>3, <3>4
    <2> QED
      BY <1>3, <2>1, <2>2
  <1>8. Handlers'
    <2>1. g <= gen /\ (client = "attached" => g # gen)
      BY <1>1, Numbered DEF DInv, Handlers
    <2>2. g \notin rows
      BY <1>1 DEF DInv, Handlers
    <2>3. gen \in Nat /\ (client = "attached" => gen \in Session) /\ Session \subseteq Nat
      BY Numbered DEF DInv
    <2>4. \A h \in Session : h > gen => handler'[h] = "none"
      BY <1>4, <2>1, <2>3 DEF DInv, Handlers
    <2>5. \A h \in rows : handler'[h] \in {"registered", "streaming", "over"}
      BY <1>4, <2>2 DEF DInv, Handlers, HubTypes
    <2>6. client = "attached" => handler'[gen] \in {"streaming", "over"}
      BY <1>4, <2>1, <2>3 DEF DInv, Handlers
    <2> QED
      BY <1>1, <1>7, <2>4, <2>5, <2>6 DEF DInv, Handlers, rowVars
  <1> QED
    BY <1>1, <1>5, <1>8, Framed DEF DInv, bothVars, busVars, rowVars, askVars, restVars, historyVars

LEMMA StreamStep ==
  ASSUME DInv, NEW g \in Session, Stream(g)
  PROVE  DInv'
  <1>1. /\ handler[g] = "registered" /\ handler' = [handler EXCEPT ![g] = "streaming"]
        /\ UNCHANGED <<bothVars, client, gen, buffer, dropped, mail, flight, askVars, rowVars,
                       restVars, historyVars>>
    BY DEF Stream, HubOnly
  <1>2. handler'[g] = "streaming" /\ \A h \in Session : h # g => handler'[h] = handler[h]
    BY <1>1 DEF DInv, HubTypes
  <1>3. HubTypes'
    BY <1>1 DEF DInv, HubTypes, rowVars
  <1>4. Handlers'
    <2>1. gen \in Nat /\ (client = "attached" => gen \in Session) /\ Session \subseteq Nat /\ g <= gen
      BY <1>1, Numbered DEF DInv, Handlers
    <2>2. \A i \in DOMAIN mail : mail[i].act = "attached" => mail[i].of \in Session /\ mail[i].of # g
      BY <1>1 DEF DInv, Handlers, HubTypes, Messages
    <2>3. \A i \in DOMAIN mail : mail[i].act = "attached" => handler'[mail[i].of] = "attaching"
      BY <1>2, <2>2 DEF DInv, Handlers
    <2>4. \A h \in rows : handler'[h] \in {"registered", "streaming", "over"}
      BY <1>2 DEF DInv, Handlers, HubTypes
    <2>5. \A h \in Session : h > gen => handler'[h] = "none"
      BY <1>2, <2>1 DEF DInv, Handlers
    <2>6. client = "attached" => handler'[gen] \in {"streaming", "over"}
      BY <1>2, <2>1 DEF DInv, Handlers
    <2> QED
      BY <1>1, <2>3, <2>4, <2>5, <2>6 DEF DInv, Handlers, rowVars
  <1> QED
    BY <1>1, <1>3, <1>4, Framed DEF DInv, bothVars, busVars, rowVars, askVars, restVars, historyVars

ComesOnce(s, m) == \A i, j \in DOMAIN s : s[i] = m /\ s[j] = m => i = j

TakenFrom(t, s) ==
  \E at \in [DOMAIN t -> DOMAIN s] :
    /\ \A i \in DOMAIN t : t[i] = s[at[i]]
    /\ \A i, j \in DOMAIN t : at[i] = at[j] => i = j

\* What is left when a message that came once is withdrawn.
LEMMA Withdrawn ==
  ASSUME NEW s \in Seq(Messages), NEW m \in Messages, ComesOnce(s, m),
         NEW t, t = RemoveFirst(s, m)
  PROVE  t \in Seq(Messages) /\ TakenFrom(t, s) /\ \A i \in DOMAIN t : t[i] # m
  <1>1. CASE \A i \in 1 .. Len(s) : s[i] # m
    <2>1. t = s
      BY <1>1 DEF RemoveFirst
    <2> DEFINE at == [i \in DOMAIN s |-> i]
    <2>2. /\ at \in [DOMAIN s -> DOMAIN s]
          /\ \A i \in DOMAIN s : s[i] = s[at[i]]
          /\ \A i, j \in DOMAIN s : at[i] = at[j] => i = j
      OBVIOUS
    <2>3. \A i \in DOMAIN s : s[i] # m
      BY <1>1
    <2> HIDE DEF at
    <2> QED
      BY <2>1, <2>2, <2>3 DEF TakenFrom
  <1>2. CASE \E i \in 1 .. Len(s) : s[i] = m
    <2>1. PICK p \in 1 .. Len(s) : s[p] = m
      BY <1>2
    <2>2. \A i \in 1 .. Len(s) : s[i] = m => i = p
      BY <2>1 DEF ComesOnce
    <2>3. {i \in 1 .. Len(s) : s[i] = m} = {p}
      BY <2>1, <2>2
    <2>4. Min({p}) = p
      BY DEF Min
    <2>5. t = SubSeq(s, 1, p - 1) \o SubSeq(s, p + 1, Len(s))
      BY <1>2, <2>3, <2>4 DEF RemoveFirst, SelectInSeq, RemoveAt
    <2> DEFINE a == SubSeq(s, 1, p - 1)
               b == SubSeq(s, p + 1, Len(s))
    <2>6. a \in Seq(Messages) /\ Len(a) = p - 1 /\ \A i \in 1 .. p - 1 : a[i] = s[i]
      OBVIOUS
    <2>7. b \in Seq(Messages) /\ Len(b) = Len(s) - p /\ \A i \in 1 .. Len(s) - p : b[i] = s[p + i]
      OBVIOUS
    <2> HIDE DEF a, b
    <2>8. /\ a \o b \in Seq(Messages) /\ Len(a \o b) = Len(a) + Len(b)
          /\ \A i \in 1 .. Len(a) + Len(b) : (a \o b)[i] = IF i <= Len(a) THEN a[i] ELSE b[i - Len(a)]
      BY <2>6, <2>7, ConcatProperties
    <2>9. t = a \o b
      BY <2>5 DEF a, b
    <2>10. t \in Seq(Messages) /\ DOMAIN t = 1 .. Len(s) - 1 /\ Len(t) = Len(s) - 1
      BY <2>6, <2>7, <2>8, <2>9
    <2> DEFINE at == [i \in 1 .. Len(s) - 1 |-> IF i < p THEN i ELSE i + 1]
    <2>11. \A i \in 1 .. Len(s) - 1 : at[i] \in 1 .. Len(s) /\ at[i] # p
      BY <2>1
    <2>12. \A i, j \in 1 .. Len(s) - 1 : at[i] = at[j] => i = j
      BY <2>1
    <2>13. ASSUME NEW i \in 1 .. Len(s) - 1 PROVE t[i] = s[at[i]]
      <3>1. t[i] = IF i <= Len(a) THEN a[i] ELSE b[i - Len(a)]
        BY <2>6, <2>7, <2>8, <2>9
      <3>2. CASE i < p
        BY <2>1, <2>6, <3>1, <3>2
      <3>3. CASE ~(i < p)
        <4>1. t[i] = b[i - (p - 1)] /\ i - (p - 1) \in 1 .. Len(s) - p /\ p + (i - (p - 1)) = i + 1
          BY <2>1, <2>6, <3>1, <3>3
        <4> QED
          BY <2>7, <3>3, <4>1
      <3> QED
        BY <3>2, <3>3
    <2>14. at \in [1 .. Len(s) - 1 -> 1 .. Len(s)]
      BY <2>11
    <2> HIDE DEF at
    <2>15. \A i \in 1 .. Len(s) - 1 : t[i] # m
      BY <2>2, <2>11, <2>13
    <2>16. DOMAIN s = 1 .. Len(s)
      OBVIOUS
    <2>17. /\ at \in [DOMAIN t -> DOMAIN s]
           /\ \A i \in DOMAIN t : t[i] = s[at[i]]
           /\ \A i, j \in DOMAIN t : at[i] = at[j] => i = j
      BY <2>10, <2>12, <2>13, <2>14, <2>16
    <2> QED
      BY <2>10, <2>15, <2>17 DEF TakenFrom
  <1> QED
    BY <1>1, <1>2

LEMMA HandlerEndsStep ==
  ASSUME DInv, NEW g \in Session, HandlerEnds(g)
  PROVE  DInv'
  <1> DEFINE m == Message("attached", g)
  <1>1. /\ handler[g] \in {"called", "attaching", "registered", "streaming"}
        /\ handler' = [handler EXCEPT ![g] = "over"]
        /\ UNCHANGED <<bothVars, client, gen, buffer, dropped, flight, askVars, rowVars,
                       restVars, historyVars>>
    BY DEF HandlerEnds, HubOnly
  <1>2. handler'[g] = "over" /\ \A h \in Session : h # g => handler'[h] = handler[h]
    BY <1>1 DEF DInv, HubTypes
  <1>3. \A i \in DOMAIN mail : mail[i].act = "attached" => mail[i] = Message("attached", mail[i].of)
    BY DEF DInv, HubTypes, Messages, Message
  <1>4. m \in Messages
    BY DEF Messages, Message
  <1>5. mail \in Seq(Messages) /\ \A i \in DOMAIN mail : mail[i] \in Messages
    BY DEF DInv, HubTypes
  <1>6. /\ mail' \in Seq(Messages)
        /\ \A i \in DOMAIN mail' : mail'[i].act = "attached" =>
             /\ handler[mail'[i].of] = "attaching" /\ mail'[i].of # g
             /\ \A j \in DOMAIN mail' : mail'[j] = mail'[i] => j = i
    <2>1. CASE handler[g] = "streaming"
      <3> DEFINE d == Message("detached", g)
      <3>1. d \in Messages /\ d.act # "attached" /\ mail' = Append(mail, d)
        BY <2>1 DEF Messages, Message, HandlerEnds, Submit
      <3> HIDE DEF d
      <3>2. /\ mail' \in Seq(Messages) /\ DOMAIN mail = 1 .. Len(mail) /\ Len(mail) \in Nat
            /\ DOMAIN mail' = 1 .. Len(mail) + 1 /\ mail'[Len(mail) + 1] = d
            /\ \A i \in DOMAIN mail : mail'[i] = mail[i]
        BY <1>5, <3>1
      <3>3. ASSUME NEW i \in DOMAIN mail', mail'[i].act = "attached"
            PROVE  i \in DOMAIN mail /\ mail'[i] = mail[i]
        BY <3>1, <3>2, <3>3
      <3>4. \A i \in DOMAIN mail : mail[i].act = "attached" =>
              /\ handler[mail[i].of] = "attaching" /\ mail[i].of # g
              /\ \A j \in DOMAIN mail : mail[j] = mail[i] => j = i
        BY <2>1 DEF DInv, Handlers
      <3>5. ASSUME NEW i \in DOMAIN mail', mail'[i].act = "attached",
                   NEW j \in DOMAIN mail', mail'[j] = mail'[i]
            PROVE  j = i
        <4>1. i \in DOMAIN mail /\ mail'[i] = mail[i] /\ j \in DOMAIN mail /\ mail'[j] = mail[j]
          BY <3>3, <3>5
        <4> QED
          BY <3>4, <3>5, <4>1
      <3> QED
        BY <3>2, <3>3, <3>4, <3>5
    <2>2. CASE handler[g] # "streaming"
      <3>1. mail' = RemoveFirst(mail, m)
        BY <2>2 DEF HandlerEnds
      <3>2. ComesOnce(mail, m)
        BY DEF DInv, Handlers, Message, ComesOnce
      <3> HIDE DEF m
      <3>3. /\ mail' \in Seq(Messages) /\ TakenFrom(mail', mail)
            /\ \A i \in DOMAIN mail' : mail'[i] # m
        BY <1>4, <1>5, <3>1, <3>2, Withdrawn
      <3>4. PICK at \in [DOMAIN mail' -> DOMAIN mail] :
              /\ \A i \in DOMAIN mail' : mail'[i] = mail[at[i]]
              /\ \A i, j \in DOMAIN mail' : at[i] = at[j] => i = j
        BY <3>3 DEF TakenFrom
      <3>5. ASSUME NEW i \in DOMAIN mail', mail'[i].act = "attached"
            PROVE  /\ handler[mail'[i].of] = "attaching" /\ mail'[i].of # g
                   /\ \A j \in DOMAIN mail' : mail'[j] = mail'[i] => j = i
        <4>1. mail'[i] = mail[at[i]] /\ at[i] \in DOMAIN mail
          BY <3>4
        <4>2. handler[mail'[i].of] = "attaching"
          BY <3>5, <4>1 DEF DInv, Handlers
        <4>3. mail'[i].of # g
          BY <1>3, <3>3, <3>5, <4>1 DEF m
        <4>4. ASSUME NEW j \in DOMAIN mail', mail'[j] = mail'[i] PROVE j = i
          <5>1. at[j] \in DOMAIN mail /\ mail[at[j]] = mail[at[i]]
            BY <3>4, <4>1, <4>4
          <5>2. at[j] = at[i]
            BY <3>5, <4>1, <5>1 DEF DInv, Handlers
          <5> QED
            BY <3>4, <5>2
        <4> QED
          BY <4>2, <4>3, <4>4
      <3> QED
        BY <3>3, <3>5
    <2> QED
      BY <2>1, <2>2
  <1>7. HubTypes'
    BY <1>1, <1>6 DEF DInv, HubTypes, rowVars
  <1>8. Handlers'
    <2>1. gen \in Nat /\ (client = "attached" => gen \in Session) /\ Session \subseteq Nat /\ g <= gen
      BY <1>1, Numbered DEF DInv, Handlers
    <2>2. \A i \in DOMAIN mail' : mail'[i].act = "attached" => mail'[i].of \in Session
      BY <1>6 DEF Messages
    <2>3. \A i \in DOMAIN mail' : mail'[i].act = "attached" => handler'[mail'[i].of] = "attaching"
      BY <1>2, <1>6, <2>2
    <2>4. \A h \in rows : handler'[h] \in {"registered", "streaming", "over"}
      BY <1>2 DEF DInv, Handlers, HubTypes
    <2>5. \A h \in Session : h > gen => handler'[h] = "none"
      BY <1>2, <2>1 DEF DInv, Handlers
    <2>6. client = "attached" => handler'[gen] \in {"streaming", "over"}
      BY <1>2, <2>1 DEF DInv, Handlers
    <2> QED
      BY <1>1, <1>6, <2>3, <2>4, <2>5, <2>6 DEF DInv, Handlers, rowVars
  <1> QED
    BY <1>1, <1>7, <1>8, Framed DEF DInv, bothVars, busVars, rowVars, askVars, restVars, historyVars

LEMMA IngestStep ==
  ASSUME DInv, NEW g \in Session, Ingest(g)
  PROVE  DInv'
  <1>1. /\ flight[g].at = "net" /\ flight' = [flight EXCEPT ![g].at = "mail"]
        /\ mail' = Append(mail, Message("ingested", g))
        /\ UNCHANGED <<bothVars, client, gen, buffer, dropped, handler, askVars, rowVars,
                       restVars, historyVars>>
    BY DEF Ingest, Submit, HubOnly
  <1>2. Message("ingested", g) \in Messages /\ Message("ingested", g).act # "attached"
    BY DEF Messages, Message
  <1>3. HubTypes' /\ Handlers'
    BY <1>1, <1>2, Submits DEF DInv, rowVars
  <1>4. flight[g] \in [at : {"none", "net", "mail"}, records : Seq(Nat), dropped : Nat]
    BY DEF DInv, ClientTypes
  <1>5. /\ flight'[g] = [flight[g] EXCEPT !.at = "mail"]
        /\ \A h \in Session : h # g => flight'[h] = flight[h]
    BY <1>1 DEF DInv, ClientTypes
  <1>6. [flight[g] EXCEPT !.at = "mail"]
          \in [at : {"none", "net", "mail"}, records : Seq(Nat), dropped : Nat]
    BY <1>4
  <1>7. flight'[g].records = flight[g].records /\ flight'[g].dropped = flight[g].dropped
    BY <1>4, <1>5
  <1>8. ClientTypes'
    <2>1. flight' \in [Session -> [at : {"none", "net", "mail"}, records : Seq(Nat), dropped : Nat]]
      BY <1>1, <1>6 DEF DInv, ClientTypes
    <2> QED
      BY <1>1, <2>1 DEF DInv, ClientTypes, restVars, historyVars
  <1>9. Counted'
    <2>1. flight[g] # NoFlight /\ g <= gen /\ (client = "dialing" => g # gen)
      BY <1>1, Numbered DEF DInv, Counted, NoFlight
    <2>2. gen \in Session => Told' = Told /\ Held' = Held
      <3>1. gen \in Session =>
              flight'[gen].records = flight[gen].records /\ flight'[gen].dropped = flight[gen].dropped
        BY <1>5, <1>7
      <3> QED
        BY <1>1, <3>1 DEF Told, Held, rowVars
    <2>3. gen \in Nat /\ (client \in {"dialing", "attached"} => gen \in Session) /\ Session \subseteq Nat
      BY Numbered DEF DInv
    <2>4. \A h \in Session : h > gen => flight'[h] = flight[h]
      BY <1>5, <2>1, <2>3
    <2>5. client = "dialing" => flight'[gen] = flight[gen]
      BY <1>5, <2>1, <2>3
    <2> QED
      BY <1>1, <2>2, <2>3, <2>4, <2>5, Account DEF DInv, Counted, rowVars, historyVars
  <1> QED
    BY <1>1, <1>3, <1>8, <1>9, Framed DEF DInv, bothVars, busVars, rowVars, askVars

LEMMA ReplyStep ==
  ASSUME DInv, NEW g \in Session, Reply(g)
  PROVE  DInv'
  <1>1. PICK q \in outbound[g] : outbound' = [outbound EXCEPT ![g] = @ \ {q}]
                                  /\ mail' = Append(mail, Message("replied", q))
    BY DEF Reply, Submit
  <1>2. UNCHANGED <<bothVars, client, gen, buffer, dropped, handler, flight, channel, ask,
                    deferred, rowVars, restVars, historyVars>>
    BY DEF Reply, HubOnly
  <1>3. Message("replied", q) \in Messages /\ Message("replied", q).act # "attached"
    BY DEF Messages, Message, DInv, QuestionTypes
  <1>4. HubTypes' /\ Handlers'
    BY <1>1, <1>2, <1>3, Submits DEF DInv, rowVars
  <1>5. QuestionTypes'
    BY <1>1, <1>2 DEF DInv, QuestionTypes
  <1> QED
    BY <1>2, <1>4, <1>5, Framed DEF DInv, bothVars, busVars, rowVars, restVars, historyVars

-----------------------------------------------------------------------------
(* Actions of the attachments node *)

LEMMA NextMessage ==
  ASSUME HubTypes, Handlers, mail # << >>, mail' = Tail(mail)
  PROVE  /\ Head(mail) \in Messages
         /\ mail' \in Seq(Messages)
         /\ Head(mail).act = "attached" => handler[Head(mail).of] = "attaching"
         /\ \A i \in DOMAIN mail' : mail'[i].act = "attached" =>
              /\ handler[mail'[i].of] = "attaching" /\ mail'[i] # Head(mail)
              /\ \A j \in DOMAIN mail' : mail'[j] = mail'[i] => j = i
  <1>1. mail \in Seq(Messages)
    BY DEF HubTypes
  <1>2. /\ Head(mail) \in Messages /\ Head(mail) = mail[1] /\ mail' \in Seq(Messages)
        /\ 1 \in DOMAIN mail
    BY <1>1
  <1>3. \A i \in DOMAIN mail' : /\ i + 1 \in DOMAIN mail /\ mail'[i] = mail[i + 1] /\ i \in Nat
                                /\ i + 1 # 1
    BY <1>1
  <1>4. ASSUME NEW i \in DOMAIN mail', mail'[i].act = "attached"
        PROVE  /\ handler[mail'[i].of] = "attaching" /\ mail'[i] # Head(mail)
               /\ \A j \in DOMAIN mail' : mail'[j] = mail'[i] => j = i
    <2>1. i + 1 \in DOMAIN mail /\ mail'[i] = mail[i + 1] /\ mail[i + 1].act = "attached" /\ i \in Nat
      BY <1>3, <1>4
    <2>2. handler[mail'[i].of] = "attaching" /\ \A j \in DOMAIN mail : mail[j] = mail[i + 1] => j = i + 1
      BY <2>1 DEF Handlers
    <2>3. mail'[i] # Head(mail)
      BY <1>2, <1>3, <2>1, <2>2
    <2>4. ASSUME NEW j \in DOMAIN mail', mail'[j] = mail'[i] PROVE j = i
      BY <1>3, <2>1, <2>2, <2>4
    <2> QED
      BY <2>2, <2>3, <2>4
  <1> QED
    BY <1>2, <1>4 DEF Handlers

ActionFrame == UNCHANGED <<bothVars, client, gen, buffer, dropped, socket, outbound, ask,
                           restVars, historyVars>>

LEMMA RegisterStep ==
  ASSUME DInv, mail # << >>, mail' = Tail(mail), Head(mail).act = "attached",
         Register(Head(mail).of), ActionFrame
  PROVE  DInv'
  <1> DEFINE g == Head(mail).of
  <1>1. /\ mail' \in Seq(Messages) /\ handler[g] = "attaching" /\ Head(mail) \in Messages
        /\ \A i \in DOMAIN mail' : mail'[i].act = "attached" =>
              /\ handler[mail'[i].of] = "attaching" /\ mail'[i] # Head(mail)
              /\ \A j \in DOMAIN mail' : mail'[j] = mail'[i] => j = i
    BY NextMessage DEF DInv
  <1>2. g \in Session /\ Head(mail) = Message("attached", g)
    BY <1>1 DEF Messages, Message
  <1>3. \A i \in DOMAIN mail' : mail'[i].act = "attached" => mail'[i].of \in Session /\ mail'[i].of # g
    <2>1. \A i \in DOMAIN mail' : mail'[i] \in Messages
      BY <1>1
    <2>2. \A i \in DOMAIN mail' : mail'[i].act = "attached" =>
            mail'[i].of \in Session /\ mail'[i] = Message("attached", mail'[i].of)
      BY <2>1 DEF Messages, Message
    <2> HIDE DEF g
    <2> QED
      BY <1>1, <1>2, <2>2
  <1> HIDE DEF g
  <1>4. /\ handler' = [handler EXCEPT ![g] = IF @ = "attaching" THEN "registered" ELSE @]
        /\ rows' = rows \cup {g}
        /\ view' = [view EXCEPT ![g] = NoView] /\ ring' = [ring EXCEPT ![g] = << >>]
        /\ evicted' = [evicted EXCEPT ![g] = 0] /\ channel' = [channel EXCEPT ![g] = {}]
        /\ UNCHANGED <<flight, deferred>>
    BY DEF Register, g
  <1>5. handler'[g] = "registered" /\ \A h \in Session : h # g => handler'[h] = handler[h]
    BY <1>1, <1>2, <1>4 DEF DInv, HubTypes
  <1>6. /\ gen \in Nat /\ (client \in {"dialing", "attached"} => gen \in Session)
        /\ Session \subseteq Nat /\ g <= gen /\ g \notin rows /\ (client = "attached" => g # gen)
    BY <1>1, <1>2, Numbered DEF DInv, Handlers
  <1>7. HubTypes'
    <2>1. handler' \in [Session -> {"none", "called", "attaching", "registered", "streaming", "over"}]
      BY <1>4 DEF DInv, HubTypes
    <2>2. view' \in [Session -> [count : Nat, dropped : Nat, last : Nat]]
      <3>1. NoView \in [count : Nat, dropped : Nat, last : Nat]
        BY DEF NoView
      <3> HIDE DEF NoView
      <3> QED
        BY <1>4, <3>1 DEF DInv, HubTypes
    <2>3. ring' \in [Session -> Seq(Nat)]
      <3> DEFINE none == << >>
      <3>1. none \in Seq(Nat) /\ ring' = [ring EXCEPT ![g] = none]
        BY <1>4
      <3> HIDE DEF none
      <3> QED
        BY <3>1 DEF DInv, HubTypes
    <2>4. evicted' \in [Session -> Nat]
      BY <1>4 DEF DInv, HubTypes
    <2> QED
      BY <1>1, <1>2, <1>4, <2>1, <2>2, <2>3, <2>4 DEF DInv, HubTypes
  <1>8. QuestionTypes'
    BY <1>4 DEF DInv, QuestionTypes, ActionFrame
  <1>9. Handlers'
    <2>1. \A i \in DOMAIN mail' : mail'[i].act = "attached" => handler'[mail'[i].of] = "attaching"
      BY <1>1, <1>3, <1>5
    <2>2. \A h \in rows' : handler'[h] \in {"registered", "streaming", "over"}
      BY <1>4, <1>5 DEF DInv, Handlers, HubTypes
    <2>3. \A h \in Session : h > gen => handler'[h] = "none"
      BY <1>2, <1>5, <1>6 DEF DInv, Handlers
    <2>4. client = "attached" => handler'[gen] \in {"streaming", "over"}
      BY <1>5, <1>6 DEF DInv, Handlers
    <2> QED
      BY <1>1, <2>1, <2>2, <2>3, <2>4 DEF DInv, Handlers, ActionFrame
  <1>10. Questions'
    <2>1. channel'[g] = {} /\ \A h \in Session : h # g => channel'[h] = channel[h]
      BY <1>2, <1>4 DEF DInv, QuestionTypes
    <2> QED
      BY <1>4, <1>6, <2>1 DEF DInv, Questions, NoOrphanQuestion, ActionFrame, HubTypes
  <1>11. Counted'
    <2>1. /\ view'[g] = NoView /\ ring'[g] = << >> /\ evicted'[g] = 0
          /\ \A h \in Session : h # g =>
               view'[h] = view[h] /\ ring'[h] = ring[h] /\ evicted'[h] = evicted[h]
      BY <1>2, <1>4 DEF DInv, HubTypes
    <2>2. client = "attached" =>
            /\ gen \in rows' <=> gen \in rows
            /\ Told' = Told /\ Held' = Held /\ evicted'[gen] = evicted[gen]
      BY <1>4, <1>6, <2>1 DEF Told, Held, ActionFrame
    <2>3. client = "dialing" /\ gen \in rows' =>
            view'[gen] = NoView /\ ring'[gen] = << >> /\ evicted'[gen] = 0
      BY <1>4, <1>6, <2>1 DEF DInv, Counted
    <2> QED
      BY <1>4, <2>2, <2>3, Account DEF DInv, Counted, ActionFrame, historyVars
  <1>12. ClientTypes' /\ BusTypes'
    BY <1>4, Framed DEF DInv, ActionFrame, bothVars, busVars, restVars, historyVars
  <1> QED
    BY <1>7, <1>8, <1>9, <1>10, <1>11, <1>12 DEF DInv

\* Whatever else the node does, it registers nobody.
LEMMA OtherAction ==
  ASSUME HubTypes, Handlers, mail # << >>, mail' = Tail(mail), handler' = handler,
         rows' \subseteq rows, UNCHANGED <<gen, client>>
  PROVE  Handlers'
  BY NextMessage DEF Handlers

LEMMA DetachStep ==
  ASSUME DInv, mail # << >>, mail' = Tail(mail), Head(mail).act = "detached",
         Detach(Head(mail).of), ActionFrame
  PROVE  DInv'
  <1> DEFINE g == Head(mail).of
  <1>1. mail' \in Seq(Messages) /\ g \in Session
    BY NextMessage DEF DInv, Messages
  <1> HIDE DEF g
  <1>2. /\ rows' = rows \ {g} /\ channel' = [channel EXCEPT ![g] = {}]
        /\ deferred' = [q \in Asks |->
             IF q \in channel[g] /\ deferred[q] = "open" THEN "detached" ELSE deferred[q]]
        /\ UNCHANGED <<handler, flight, view, ring, evicted>>
    BY DEF Detach, CloseChannel, g
  <1>3. HubTypes' /\ Handlers'
    BY <1>1, <1>2, OtherAction DEF DInv, HubTypes, ActionFrame
  <1>4. QuestionTypes'
    BY <1>2 DEF DInv, QuestionTypes, ActionFrame
  <1>5. Questions'
    <2>1. channel'[g] = {} /\ \A h \in Session : h # g => channel'[h] = channel[h]
      BY <1>1, <1>2 DEF DInv, QuestionTypes
    <2>2. \A q \in Asks : deferred'[q] = "open" => deferred[q] = "open" /\ q \notin channel[g]
      BY <1>2
    <2> QED
      BY <1>2, <2>1, <2>2 DEF DInv, Questions, NoOrphanQuestion, ActionFrame, HubTypes
  <1>6. Counted'
    BY <1>2 DEF DInv, Counted, NothingUncounted, ActionFrame, historyVars
  <1>7. ClientTypes' /\ BusTypes'
    BY <1>2, Framed DEF DInv, ActionFrame, bothVars, busVars, restVars, historyVars
  <1> QED
    BY <1>3, <1>4, <1>5, <1>6, <1>7 DEF DInv

LEMMA SettleStep ==
  ASSUME DInv, mail # << >>, mail' = Tail(mail), Settle(Head(mail).of), ActionFrame
  PROVE  DInv'
  <1>1. mail' \in Seq(Messages)
    BY NextMessage DEF DInv
  <1>2. /\ deferred' = deferred \/ deferred' = [deferred EXCEPT ![Head(mail).of] = "answered"]
        /\ UNCHANGED <<handler, flight, rows, view, ring, evicted, channel>>
    BY DEF Settle
  <1>3. HubTypes' /\ Handlers'
    BY <1>1, <1>2, OtherAction DEF DInv, HubTypes, ActionFrame
  <1>4. QuestionTypes' /\ \A q \in Asks : deferred'[q] = "open" => deferred[q] = "open"
    BY <1>2 DEF DInv, QuestionTypes, ActionFrame
  <1>5. Questions'
    BY <1>2, <1>4 DEF DInv, Questions, NoOrphanQuestion, ActionFrame
  <1>6. Counted'
    BY <1>2, Framed DEF DInv, ActionFrame, historyVars
  <1>7. ClientTypes' /\ BusTypes'
    BY <1>2, Framed DEF DInv, ActionFrame, bothVars, busVars, restVars, historyVars
  <1> QED
    BY <1>3, <1>4, <1>5, <1>6, <1>7 DEF DInv

LEMMA IngestedStep ==
  ASSUME DInv, mail # << >>, mail' = Tail(mail), Head(mail).act = "ingested",
         Ingested(Head(mail).of), ActionFrame
  PROVE  DInv'
  <1> DEFINE g == Head(mail).of
  <1>1. mail' \in Seq(Messages) /\ g \in Session
    BY NextMessage DEF DInv, Messages
  <1> HIDE DEF g
  <1>2. /\ flight' = [flight EXCEPT ![g] = NoFlight]
        /\ IF g \notin rows THEN UNCHANGED <<view, ring, evicted>>
           ELSE Push(g, flight[g].records) /\ Record(g, flight[g].records, flight[g].dropped)
        /\ UNCHANGED <<handler, rows, channel, deferred>>
    BY DEF Ingested, g
  <1>3. /\ gen \in Nat /\ (client \in {"dialing", "attached"} => gen \in Session)
        /\ Session \subseteq Nat
    BY Numbered DEF DInv
  <1>4. flight'[g] = NoFlight /\ \A h \in Session : h # g => flight'[h] = flight[h]
    BY <1>1, <1>2 DEF DInv, ClientTypes
  <1>5. ClientTypes'
    <2>1. NoFlight \in [at : {"none", "net", "mail"}, records : Seq(Nat), dropped : Nat]
      BY DEF NoFlight
    <2>2. flight' \in [Session -> [at : {"none", "net", "mail"}, records : Seq(Nat), dropped : Nat]]
      <3> HIDE DEF NoFlight
      <3> QED
        BY <1>2, <2>1 DEF DInv, ClientTypes
    <2> QED
      BY <2>2 DEF DInv, ClientTypes, ActionFrame, restVars, historyVars
  <1>6. QuestionTypes' /\ Questions' /\ BusTypes'
    BY <1>2, Framed DEF DInv, ActionFrame, bothVars, busVars
  <1> DEFINE records == flight[g].records
             all == Joined(ring[g], records)
             lost == flight[g].dropped
  <1>7. records \in Seq(Nat) /\ ring[g] \in Seq(Nat) /\ lost \in Nat /\ evicted[g] \in Nat
    BY <1>1 DEF DInv, ClientTypes, HubTypes
  <1>8. all \in Seq(Nat) /\ Len(all) \in Nat /\ Len(records) \in Nat
    <2>1. all \in Seq(Nat)
      BY <1>7, JoinedIsASequence
    <2> HIDE DEF all, records
    <2> QED
      BY <1>7, <2>1
  <1>9. CASE g \notin rows
    <2>1. HubTypes' /\ Handlers'
      BY <1>1, <1>2, <1>9, OtherAction DEF DInv, HubTypes, ActionFrame
    <2>2. client \in {"dialing", "attached"} /\ gen \in rows => flight'[gen] = flight[gen]
      BY <1>3, <1>4, <1>9
    <2>3. \A h \in Session : h > gen => flight'[h] = NoFlight
      BY <1>4 DEF DInv, Counted
    <2>4. client = "dialing" => flight'[gen] = NoFlight
      BY <1>3, <1>4 DEF DInv, Counted
    <2>5. client = "attached" /\ gen \in rows => Told' = Told /\ Held' = Held
      BY <1>2, <1>9, <2>2 DEF Told, Held, ActionFrame
    <2>6. UNCHANGED <<view, ring, evicted, rows, gen, client, buffer, dropped, kept, seen>>
      BY <1>2, <1>9 DEF ActionFrame, historyVars
    <2>7. Counted'
      BY <2>3, <2>4, <2>5, <2>6, Account DEF DInv, Counted
    <2> QED
      BY <1>5, <1>6, <2>1, <2>7 DEF DInv
  <1>10. CASE g \in rows
    <2> DEFINE x == IF Len(all) > Capacity + TrimSlack THEN Len(all) - Capacity ELSE 0
    <2>1. x \in 0 .. Len(all)
      <3> HIDE DEF all
      <3> QED
        BY <1>8, DevtoolsAssumption
    <2>2. /\ ring' = [ring EXCEPT ![g] = From(all, x)]
          /\ evicted' = [evicted EXCEPT ![g] = @ + x]
      BY <1>2, <1>10 DEF Push, Joined, From
    <2>3. view' = [view EXCEPT ![g] =
            [count |-> @.count + Len(records), dropped |-> @.dropped + lost,
             last |-> IF records = << >> THEN @.last ELSE Last(records)]]
      BY <1>2, <1>10 DEF Record
    <2> HIDE DEF x, all
    <2>4. From(all, x) \in Seq(Nat)
      BY <1>8, <2>1 DEF From
    <2>5. view[g] \in [count : Nat, dropped : Nat, last : Nat]
      BY <1>1 DEF DInv, HubTypes
    <2> DEFINE n == [count |-> view[g].count + Len(records), dropped |-> view[g].dropped + lost,
                     last |-> IF records = << >> THEN view[g].last ELSE Last(records)]
    <2>6. n \in [count : Nat, dropped : Nat, last : Nat]
      <3>1. records # << >> => Last(records) \in Nat
        BY <1>7 DEF Last
      <3> DEFINE l == Len(records)
                 last == IF records = << >> THEN view[g].last ELSE Last(records)
      <3>2. last \in Nat /\ l \in Nat
        BY <1>8, <2>5, <3>1
      <3>3. view[g].count \in Nat /\ view[g].dropped \in Nat
        BY <2>5
      <3> HIDE DEF records, lost, l, last
      <3>4. view[g].count + l \in Nat /\ view[g].dropped + lost \in Nat
        <4> DEFINE c == view[g].count
                   d == view[g].dropped
        <4>1. c \in Nat /\ d \in Nat /\ lost \in Nat
          BY <1>7, <3>3
        <4> HIDE DEF c, d
        <4>2. c + l \in Nat /\ d + lost \in Nat
          BY <3>2, <4>1
        <4> QED
          BY <4>2 DEF c, d
      <3> QED
        BY <3>2, <3>4 DEF l, last
    <2>7. view' = [view EXCEPT ![g] = n]
      BY <2>3
    <2> HIDE DEF n
    <2>8. /\ ring'[g] = From(all, x) /\ evicted'[g] = evicted[g] + x /\ view'[g] = n
          /\ \A h \in Session : h # g =>
               view'[h] = view[h] /\ ring'[h] = ring[h] /\ evicted'[h] = evicted[h]
      BY <1>1, <2>2, <2>7 DEF DInv, HubTypes
    <2>9. HubTypes'
      <3>1. view' \in [Session -> [count : Nat, dropped : Nat, last : Nat]]
        BY <2>6, <2>7 DEF DInv, HubTypes
      <3>2. ring' \in [Session -> Seq(Nat)]
        BY <2>2, <2>4 DEF DInv, HubTypes
      <3>3. evicted' \in [Session -> Nat]
        <4> DEFINE e == evicted[g] + x
        <4>1. e \in Nat
          BY <1>7, <1>8, <2>1
        <4>2. evicted' = [evicted EXCEPT ![g] = e]
          BY <2>2
        <4> HIDE DEF e
        <4> QED
          BY <4>1, <4>2 DEF DInv, HubTypes
      <3> QED
        BY <1>1, <1>2, <3>1, <3>2, <3>3 DEF DInv, HubTypes
    <2>10. Handlers'
      BY <1>2, OtherAction DEF DInv, ActionFrame
    <2>11. CASE client \in {"dialing", "attached"} /\ gen # g
      <3>1. Told' = Told /\ Held' = Held /\ evicted'[gen] = evicted[gen] /\ flight'[gen] = flight[gen]
            /\ view'[gen] = view[gen] /\ ring'[gen] = ring[gen]
        BY <1>3, <1>4, <2>8, <2>11 DEF Told, Held, ActionFrame
      <3>2. Counted'
        BY <1>2, <1>4, <2>11, <3>1, Account DEF DInv, Counted, ActionFrame, historyVars
      <3> QED
        BY <1>5, <1>6, <2>9, <2>10, <3>2 DEF DInv
    <2>12. CASE client \notin {"dialing", "attached"}
      <3>1. Counted'
        BY <1>2, <1>4, <2>12 DEF DInv, Counted, NothingUncounted, ActionFrame, historyVars
      <3> QED
        BY <1>5, <1>6, <2>9, <2>10, <3>1 DEF DInv
    <2>13. CASE client = "dialing" /\ gen = g
      <3>1. /\ flight[g] = NoFlight /\ view[g] = NoView /\ ring[g] = << >> /\ evicted[g] = 0
        BY <1>10, <2>13 DEF DInv, Counted
      <3>2. records = << >> /\ lost = 0 /\ all = << >>
        BY <3>1, ConcatEmptySeq DEF NoFlight, Joined, all
      <3>3. x = 0 /\ From(all, x) = << >>
        BY <2>1, <3>2 DEF From
      <3>4. n = NoView
        BY <3>1, <3>2 DEF n, NoView
      <3>5. Counted'
        BY <1>2, <1>4, <2>8, <2>13, <3>1, <3>3, <3>4 DEF DInv, Counted, NothingUncounted, ActionFrame,
           historyVars
      <3> QED
        BY <1>5, <1>6, <2>9, <2>10, <3>5 DEF DInv
    <2>14. CASE client = "attached" /\ gen = g
      <3>1. /\ seen[gen] = Told + Len(buffer) + dropped
            /\ Joined(Held, buffer) = From(kept[gen], evicted[gen])
            /\ evicted[gen] <= Len(kept[gen])
        BY <1>10, <2>14, Account DEF DInv, Counted
      <3>2. Held = all
        BY <2>14 DEF Held, all, Joined
      <3>3. buffer \in Seq(Nat) /\ kept[gen] \in Seq(Nat)
        BY <1>3, <2>14 DEF DInv, ClientTypes
      <3>4. /\ Joined(From(all, x), buffer) = From(kept[gen], evicted[gen] + x)
            /\ evicted[gen] + x <= Len(kept[gen])
        <4> DEFINE k == kept[gen]
                   e == evicted[gen]
        <4>1. /\ e \in Nat /\ k \in Seq(Nat) /\ Joined(all, buffer) = From(k, e) /\ e <= Len(k)
          BY <1>7, <2>14, <3>1, <3>2, <3>3
        <4> HIDE DEF k, e
        <4>2. /\ Joined(From(all, x), buffer) = From(k, e + x)
              /\ e + x <= Len(k)
          BY <1>8, <2>1, <3>3, <4>1, Trimmed
        <4> QED
          BY <4>2 DEF k, e
      <3>5. Held' = From(all, x)
        <4>1. Held' = Joined(ring'[gen'], flight'[gen'].records)
          BY DEF Held, Joined
        <4>2. gen' = gen /\ ring'[gen] = From(all, x) /\ flight'[gen].records = << >>
          BY <1>4, <2>8, <2>14 DEF ActionFrame, NoFlight
        <4>3. Joined(From(all, x), << >>) = From(all, x)
          BY <2>4, ConcatEmptySeq DEF Joined
        <4> QED
          BY <4>1, <4>2, <4>3
      <3>6. Told' = Told
        <4> DEFINE l == Len(records)
        <4>1. Told = view[g].count + view[g].dropped + l + lost
          BY <2>14 DEF Told
        <4>2. Told' = n.count + n.dropped
          <5>1. gen' = g /\ view'[g] = n /\ flight'[g] = NoFlight
            BY <1>4, <2>8, <2>14 DEF ActionFrame
          <5>2. n.count \in Nat /\ n.dropped \in Nat
            BY <2>6
          <5>3. Told' = n.count + n.dropped + Len(NoFlight.records) + NoFlight.dropped
            BY <5>1 DEF Told
          <5> QED
            BY <5>2, <5>3 DEF NoFlight
        <4>3. n.count = view[g].count + l /\ n.dropped = view[g].dropped + lost
          BY DEF n
        <4> DEFINE c == view[g].count
                   d == view[g].dropped
        <4>4. l \in Nat /\ c \in Nat /\ d \in Nat /\ lost \in Nat
          BY <1>7, <1>8, <2>5
        <4>5. Told = c + d + l + lost /\ Told' = (c + l) + (d + lost)
          BY <4>1, <4>2, <4>3
        <4> HIDE DEF l, records, lost, c, d
        <4> QED
          BY <4>4, <4>5
      <3>7. Counted'
        <4>1. /\ seen'[gen'] = Told' + Len(buffer') + dropped'
              /\ Joined(Held', buffer') = From(kept'[gen'], evicted'[gen'])
              /\ evicted'[gen'] <= Len(kept'[gen'])
          BY <2>8, <2>14, <3>1, <3>4, <3>5, <3>6 DEF ActionFrame, historyVars
        <4>2. \A h \in Session : h > gen => flight'[h] = NoFlight
          BY <1>4 DEF DInv, Counted
        <4> QED
          BY <1>2, <2>14, <4>1, <4>2, Account DEF DInv, Counted, ActionFrame, historyVars
      <3> QED
        BY <1>5, <1>6, <2>9, <2>10, <3>7 DEF DInv
    <2> QED
      BY <2>11, <2>12, <2>13, <2>14
  <1> QED
    BY <1>9, <1>10

LEMMA ActionStep ==
  ASSUME DInv, RunAction
  PROVE  DInv'
  <1>1. mail # << >> /\ mail' = Tail(mail) /\ ActionFrame
    BY DEF RunAction, ActionFrame
  <1>2. CASE Head(mail).act = "attached" /\ Register(Head(mail).of)
    BY <1>1, <1>2, RegisterStep
  <1>3. CASE Head(mail).act = "detached" /\ Detach(Head(mail).of)
    BY <1>1, <1>3, DetachStep
  <1>4. CASE Head(mail).act = "ingested" /\ Ingested(Head(mail).of)
    BY <1>1, <1>4, IngestedStep
  <1>5. CASE Settle(Head(mail).of)
    BY <1>1, <1>5, SettleStep
  <1> QED
    BY <1>2, <1>3, <1>4, <1>5 DEF RunAction

-----------------------------------------------------------------------------
(* Questions *)

LEMMA InChannel ==
  ASSUME QuestionTypes, Questions, NEW h \in Session, NEW p \in channel[h]
  PROVE  p \in Asks /\ ask[p] = [at |-> "waiting", of |-> h] /\ ask[p].at = "waiting" /\ ask[p].of = h
  <1>1. p \in Asks
    BY DEF QuestionTypes
  <1>2. ask[p] = [at |-> "waiting", of |-> h]
    BY DEF Questions, NoOrphanQuestion
  <1> QED
    BY <1>1, <1>2

LEMMA AskStep ==
  ASSUME DInv, NEW q \in Asks, NEW g \in Session, Ask(q, g)
  PROVE  DInv'
  <1>1. /\ ask[q].at = "idle" /\ g \in rows
        /\ UNCHANGED <<deferred, bothVars, clientVars, netVars, rowVars, restVars, historyVars>>
    BY DEF Ask, AskOnly
  <1> DEFINE here(s) == [at |-> s, of |-> g]
  <1>2. QuestionTypes'
    <2>1. here("refused").at = "refused" /\ here("waiting").at = "waiting" /\ here("waiting").of = g
      OBVIOUS
    <2>2. \A s \in {"refused", "waiting"} :
            here(s) \in [at : {"idle", "waiting", "refused", "answered", "detached", "timed out",
                               "interrupted"},
                         of : Session \cup {None}]
      OBVIOUS
    <2>3. PICK s \in {"refused", "waiting"} : ask' = [ask EXCEPT ![q] = here(s)]
      BY DEF Ask
    <2> HIDE DEF here
    <2>4. ask' \in [Asks -> [at : {"idle", "waiting", "refused", "answered", "detached", "timed out",
                                   "interrupted"},
                             of : Session \cup {None}]]
      BY <2>2, <2>3 DEF DInv, QuestionTypes
    <2>5. \/ channel' = channel /\ outbound' = outbound
          \/ /\ channel' = [channel EXCEPT ![g] = @ \cup {q}]
             /\ outbound' = [outbound EXCEPT ![g] = @ \cup {q}]
      BY DEF Ask
    <2>6. channel' \in [Session -> SUBSET Asks] /\ outbound' \in [Session -> SUBSET Asks]
      <3>1. channel \in [Session -> SUBSET Asks] /\ outbound \in [Session -> SUBSET Asks]
        BY DEF DInv, QuestionTypes
      <3>2. \A c \in [Session -> SUBSET Asks] : c[g] \cup {q} \in SUBSET Asks
        OBVIOUS
      <3>3. \A c \in [Session -> SUBSET Asks] :
              [c EXCEPT ![g] = @ \cup {q}] \in [Session -> SUBSET Asks]
        BY <3>2
      <3> QED
        BY <2>5, <3>1, <3>3
    <2> QED
      BY <1>1, <2>4, <2>6 DEF DInv, QuestionTypes
  <1>3. Questions'
    <2>1. \A h \in Session : q \notin channel[h]
      BY <1>1, InChannel DEF DInv
    <2>2. CASE ask' = [ask EXCEPT ![q] = [at |-> "refused", of |-> g]] /\ UNCHANGED channel
      <3>1. ask'[q].at = "refused" /\ \A p \in Asks : p # q => ask'[p] = ask[p]
        BY <2>2 DEF DInv, QuestionTypes
      <3>2. ASSUME NEW h \in Session, NEW p \in channel'[h]
            PROVE  p \in Asks /\ ask'[p] = [at |-> "waiting", of |-> h]
        <4>1. p \in channel[h] /\ p # q
          BY <2>1, <2>2
        <4> QED
          BY <3>1, <4>1, InChannel DEF DInv
      <3>3. \A p \in Asks : ask'[p].at = "waiting" => ask'[p] = ask[p]
        BY <3>1
      <3> QED
        BY <1>1, <2>2, <3>2, <3>3 DEF DInv, Questions, NoOrphanQuestion, rowVars
    <2>3. CASE /\ ask' = [ask EXCEPT ![q] = [at |-> "waiting", of |-> g]]
               /\ channel' = [channel EXCEPT ![g] = @ \cup {q}]
      <3>1. ask'[q] = [at |-> "waiting", of |-> g] /\ \A p \in Asks : p # q => ask'[p] = ask[p]
        BY <2>3 DEF DInv, QuestionTypes
      <3>2. channel'[g] = channel[g] \cup {q} /\ \A h \in Session : h # g => channel'[h] = channel[h]
        BY <2>3 DEF DInv, QuestionTypes
      <3>3. ASSUME NEW h \in Session, NEW p \in channel'[h]
            PROVE  ask'[p] = [at |-> "waiting", of |-> h]
        <4>1. CASE p = q
          <5>1. h = g
            BY <2>1, <3>2, <4>1
          <5> QED
            BY <3>1, <4>1, <5>1
        <4>2. CASE p # q
          <5>1. p \in channel[h]
            BY <3>2, <4>2
          <5> QED
            BY <3>1, <4>2, <5>1, InChannel DEF DInv
        <4> QED
          BY <4>1, <4>2
      <3>4. \A p \in Asks : ask'[p].at = "waiting" => ask'[p].of \in Session
        BY <3>1 DEF DInv, Questions
      <3>5. \A p \in Asks : ask'[p].at = "waiting" /\ deferred'[p] = "open" =>
              ask'[p].of \in rows' /\ p \in channel'[ask'[p].of]
        <4> SUFFICES ASSUME NEW p \in Asks, ask'[p].at = "waiting", deferred'[p] = "open"
                     PROVE  ask'[p].of \in rows' /\ p \in channel'[ask'[p].of]
          OBVIOUS
        <4>1. CASE p = q
          BY <1>1, <3>1, <3>2, <4>1 DEF rowVars
        <4>2. CASE p # q
          <5>1. ask'[p] = ask[p] /\ deferred[p] = "open"
            BY <1>1, <3>1, <4>2
          <5>2. ask[p].of \in rows /\ p \in channel[ask[p].of] /\ ask[p].of \in Session
            BY <5>1 DEF DInv, Questions, NoOrphanQuestion
          <5> QED
            BY <1>1, <3>2, <5>1, <5>2 DEF rowVars
        <4> QED
          BY <4>1, <4>2
      <3> QED
        BY <3>3, <3>4, <3>5 DEF Questions, NoOrphanQuestion
    <2> QED
      BY <2>2, <2>3 DEF Ask
  <1> QED
    BY <1>1, <1>2, <1>3, Framed DEF DInv, bothVars, busVars, clientVars, netVars, rowVars,
       restVars, historyVars

LEMMA WaitEnds ==
  ASSUME DInv, NEW q \in Asks, Hear(q) \/ TimeOut(q) \/ HangUp(q)
  PROVE  DInv'
  <1>1. ask[q].at = "waiting" /\ ask[q].of \in Session
    BY DEF Hear, TimeOut, HangUp, DInv, Questions
  <1>2. PICK how \in {"answered", "detached", "timed out", "interrupted"} : StopWaiting(q, how)
    BY DEF Hear, TimeOut, HangUp, DInv, QuestionTypes
  <1> DEFINE g == ask[q].of
  <1>3. /\ ask' = [ask EXCEPT ![q].at = how] /\ channel' = [channel EXCEPT ![g] = @ \ {q}]
        /\ UNCHANGED <<outbound, deferred, bothVars, clientVars, netVars, rowVars, restVars,
                       historyVars>>
    BY <1>2 DEF StopWaiting, AskOnly
  <1>4. ask'[q].at = how /\ ask'[q].of = g /\ \A p \in Asks : p # q => ask'[p] = ask[p]
    BY <1>3 DEF DInv, QuestionTypes
  <1>5. QuestionTypes'
    BY <1>2, <1>3 DEF DInv, QuestionTypes
  <1>6. g \in Session
    BY <1>1
  <1> HIDE DEF g
  <1>7. channel'[g] = channel[g] \ {q} /\ \A h \in Session : h # g => channel'[h] = channel[h]
    BY <1>3, <1>6 DEF DInv, QuestionTypes
  <1>8. \A h \in Session : q \in channel[h] => h = g
    BY InChannel DEF DInv, g
  <1>9. Questions'
    <2>1. \A h \in Session : \A p \in channel'[h] : p # q /\ p \in channel[h]
      BY <1>7, <1>8
    <2>2. ASSUME NEW h \in Session, NEW p \in channel'[h]
          PROVE  ask'[p] = [at |-> "waiting", of |-> h]
      <3>1. p # q /\ p \in channel[h]
        BY <2>1
      <3>2. p \in Asks /\ ask[p] = [at |-> "waiting", of |-> h]
        BY <3>1, InChannel DEF DInv
      <3> QED
        BY <1>4, <3>1, <3>2
    <2>3. \A p \in Asks : ask'[p].at = "waiting" => p # q
      BY <1>2, <1>4
    <2>4. ASSUME NEW p \in Asks, p # q PROVE \A h \in Session : p \in channel[h] => p \in channel'[h]
      BY <1>7, <2>4
    <2>5. ASSUME NEW p \in Asks, ask'[p].at = "waiting"
          PROVE  /\ ask'[p].of \in Session
                 /\ deferred'[p] = "open" => ask'[p].of \in rows' /\ p \in channel'[ask'[p].of]
      <3>1. p # q /\ ask'[p] = ask[p]
        BY <1>4, <2>3, <2>5
      <3>2. ask[p].of \in Session
        BY <2>5, <3>1 DEF DInv, Questions
      <3>3. deferred[p] = "open" => ask[p].of \in rows /\ p \in channel[ask[p].of]
        BY <2>5, <3>1 DEF DInv, Questions, NoOrphanQuestion
      <3>4. rows' = rows /\ deferred' = deferred
        BY <1>3 DEF rowVars
      <3> QED
        BY <2>4, <3>1, <3>2, <3>3, <3>4
    <2> QED
      BY <2>2, <2>5 DEF Questions, NoOrphanQuestion
  <1> QED
    BY <1>3, <1>5, <1>9, Framed DEF DInv, bothVars, busVars, clientVars, netVars, rowVars,
       restVars, historyVars

-----------------------------------------------------------------------------
(* The buses, the reader and the dashboard *)

LEMMA BusSteps ==
  ASSUME DInv, BusStep \/ EmitEvent
  PROVE  DInv'
  <1>1. CASE EmitEvent
    <2>1. BusTypes'
      BY <1>1, BusEmit DEF EmitEvent, DInv
    <2> QED
      BY <1>1, <2>1, BusOnlyStep DEF EmitEvent, historyVars
  <1>2. ASSUME NEW k \in DOMAIN work, NotifyObserver(k)
        PROVE  DInv'
    <2>1. CASE /\ Notify(k, App) \/ RecordObserverFailure(k, App)
               /\ BusOnly
      <3>1. BusTypes'
        BY <2>1, BusTurn DEF DInv
      <3> QED
        BY <2>1, <3>1, BusOnlyStep DEF BusOnly, historyVars, restVars
    <2>2. ASSUME NEW g \in Session, Notify(k, g), Buffer(g, k[1]),
                 UNCHANGED <<signalVars, client, gen, flight, netVars, rowVars, askVars, restVars>>
          PROVE  DInv'
      BY <2>2, BufferStep
    <2> QED
      BY <1>2, <2>1, <2>2 DEF NotifyObserver
  <1>3. ASSUME NEW k, PassEnds(k) \/ SinkAnswers(k) \/ RecordSinkFailure(k), BusOnly
        PROVE  DInv'
    <2>1. BusTypes'
      BY <1>3, BusTurn DEF DInv
    <2> QED
      BY <1>3, <2>1, BusOnlyStep DEF BusOnly, historyVars, restVars
  <1> QED
    BY <1>1, <1>2, <1>3 DEF BusStep

LEMMA SignalSteps ==
  ASSUME DInv, SignalStep \/ UseSignals
  PROVE  DInv'
  <1>1. SignalOnly
    BY DEF SignalStep, UseSignals
  <1>2. (\E p : Emit(p)) \/ UNCHANGED <<sequence, work>>
    BY DEF SignalStep, UseSignals, Deliver, Handled, SubscriberFails, Published, PublishSignal,
       Subscribe, Unsubscribe, busVars
  <1>3. BusTypes'
    BY <1>2, BusEmit, Framed DEF DInv
  <1> QED
    BY <1>1, <1>3, BusOnlyStep DEF SignalOnly, historyVars, restVars

LEMMA OnlookerSteps ==
  ASSUME DInv,
         \/ SocketDies
         \/ \E g \in Session : Read(g)
         \/ \E id \in rows : SelectionChanged(id)
         \/ \E paused \in BOOLEAN : PauseChanged(paused)
  PROVE  DInv'
  <1>1. CASE SocketDies
    BY <1>1, Framed DEF SocketDies, DInv, bothVars, busVars, clientVars, rowVars, askVars, restVars,
       historyVars
  <1>2. CASE \E g \in Session : Read(g)
    BY <1>2, Framed DEF Read, DInv, bothVars, busVars, clientVars, netVars, rowVars, askVars,
       historyVars
  <1>3. ASSUME NEW next, Click(next) PROVE DInv'
    BY <1>3, Framed DEF Click, DInv, bothVars, busVars, clientVars, netVars, rowVars, askVars,
       historyVars
  <1> QED
    BY <1>1, <1>2, <1>3 DEF SelectionChanged, PauseChanged

-----------------------------------------------------------------------------

LEMMA DInvInitially == DevtoolsInit => DInv
  <1> SUFFICES ASSUME DevtoolsInit PROVE DInv
    OBVIOUS
  <1>1. MaxSessions \in Nat /\ plan.sessions \in 0 .. MaxSessions /\ 0 \in 0 .. plan.sessions
    BY DevtoolsAssumption DEF DevtoolsInit
  <1> DEFINE none == << >>
  <1>2. none \in Seq(Nat) /\ none \in Seq(Messages) /\ DOMAIN none = {}
    OBVIOUS
  <1>3. /\ NoFlight \in [at : {"none", "net", "mail"}, records : Seq(Nat), dropped : Nat]
        /\ NoView \in [count : Nat, dropped : Nat, last : Nat]
    BY DEF NoFlight, NoView
  <1>4. /\ buffer = none /\ kept = [g \in Session |-> none] /\ mail = none
        /\ ring = [g \in Session |-> none]
    BY DEF DevtoolsInit
  <1> HIDE DEF none, NoFlight, NoView
  <1>5. BusTypes
    BY DEF DevtoolsInit, SignalBusInit, BusInit, BusTypes
  <1>6. ClientTypes
    BY <1>1, <1>2, <1>3, <1>4 DEF DevtoolsInit, ClientTypes
  <1>7. HubTypes
    BY <1>2, <1>3, <1>4 DEF DevtoolsInit, HubTypes
  <1>8. QuestionTypes
    <2> DEFINE idle == [at |-> "idle", of |-> None]
    <2>1. idle \in [at : {"idle", "waiting", "refused", "answered", "detached", "timed out",
                          "interrupted"},
                    of : Session \cup {None}]
      OBVIOUS
    <2>2. ask = [q \in Asks |-> idle]
      BY DEF DevtoolsInit
    <2> HIDE DEF idle
    <2> QED
      BY <2>1, <2>2 DEF DevtoolsInit, QuestionTypes
  <1>9. Handlers
    BY <1>1, <1>2, <1>4 DEF DevtoolsInit, Handlers
  <1>10. Questions
    BY DEF DevtoolsInit, Questions, NoOrphanQuestion
  <1>11. Counted
    BY DEF DevtoolsInit, Counted, NothingUncounted
  <1> QED
    BY <1>5, <1>6, <1>7, <1>8, <1>9, <1>10, <1>11 DEF DInv

LEMMA DInvPreserved == DInv /\ [DevtoolsNext]_devtoolsVars => DInv'
  <1> SUFFICES ASSUME DInv, [DevtoolsNext]_devtoolsVars PROVE DInv'
    OBVIOUS
  <1>1. CASE UNCHANGED devtoolsVars
    BY <1>1, Framed DEF DInv, devtoolsVars, bothVars, busVars, clientVars, netVars, rowVars, askVars,
       restVars, historyVars
  <1>2. CASE BusStep \/ EmitEvent
    BY <1>2, BusSteps
  <1>3. CASE SignalStep \/ UseSignals
    BY <1>3, SignalSteps
  <1>4. CASE Dial
    BY <1>4, DialStep
  <1>5. CASE Disconnect \/ DisconnectMidFlight \/ Refuse
    BY <1>5, LeaveSteps
  <1>6. CASE Attached
    BY <1>6, AttachedStep
  <1>7. CASE FlushOnce
    BY <1>7, FlushStep
  <1>8. CASE RunAction
    BY <1>8, ActionStep
  <1>9. CASE \E g \in Session : Attach(g) \/ Stream(g) \/ HandlerEnds(g) \/ Ingest(g) \/ Reply(g)
    BY <1>9, AttachStep, StreamStep, HandlerEndsStep, IngestStep, ReplyStep
  <1>10. CASE \E q \in Asks : Hear(q) \/ TimeOut(q) \/ HangUp(q)
    BY <1>10, WaitEnds
  <1>11. CASE \E g \in Session, q \in Asks : Ask(q, g)
    BY <1>11, AskStep
  <1>12. CASE \/ SocketDies
              \/ \E g \in Session : Read(g)
              \/ \E id \in rows : SelectionChanged(id)
              \/ \E paused \in BOOLEAN : PauseChanged(paused)
    BY <1>12, OnlookerSteps
  <1> QED
    BY <1>1, <1>2, <1>3, <1>4, <1>5, <1>6, <1>7, <1>8, <1>9, <1>10, <1>11, <1>12
       DEF DevtoolsNext, Runtime

LEMMA DInvHolds == DevtoolsSpec => []DInv
  BY DInvInitially, DInvPreserved, PTL DEF DevtoolsSpec

\* However often sockets die, whatever the hub does late and whoever emits
\* meanwhile: while an attachment lasts and the hub lists it, no record its
\* observer was given is lost without being counted, and the hub holds the last
\* of them in order, without a gap (attach.ts:178-196, attachments.ts:212-252,
\* retention.ts:80-88).
THEOREM RecordsAreCounted == DevtoolsSpec => []NothingUncounted
  <1>1. DInv => NothingUncounted
    BY DEF DInv, Counted
  <1> QED
    BY <1>1, DInvHolds, PTL

\* A reader waits in the channel of a listed attachment, so that whatever ends
\* the attachment reaches it, and a channel holds nobody who left: asking,
\* answers, timeouts, interruptions and detachments in any order
\* (queries.ts:83-98,164-188).
THEOREM QuestionsReachARow == DevtoolsSpec => []NoOrphanQuestion
  <1>1. DInv => NoOrphanQuestion
    BY DEF DInv, Questions
  <1> QED
    BY <1>1, DInvHolds, PTL

-----------------------------------------------------------------------------
(* Induction, and the binary search that halves a ring *)

\* Induction over the numbers, in the form the provers can use.
LEMMA Induction ==
  ASSUME NEW P, 0 \in P, \A n \in Nat : n \in P => n + 1 \in P
  PROVE  Nat \subseteq P
  <1> SUFFICES ASSUME ~(Nat \subseteq P) PROVE FALSE
    OBVIOUS
  <1> DEFINE R == OpToRel(<, Nat)
             Missing == {n \in Nat : n \notin P}
  <1>1. IsWellFoundedOn(R, Nat)
    BY NatLessThanWellFounded
  <1>2. \A x, y \in Nat : <<y, x>> \in R <=> y < x
    BY DEF OpToRel
  <1>3. Missing \subseteq Nat /\ Missing # {}
    OBVIOUS
  <1> HIDE DEF R, Missing
  <1>4. PICK x \in Missing : \A y \in Missing : ~(<<y, x>> \in R)
    BY <1>1, <1>3, WFMin
  <1>5. x \in Nat /\ x \notin P /\ \A y \in Nat : y \notin P => ~(y < x)
    BY <1>2, <1>4 DEF Missing
  <1>6. x # 0
    BY <1>5
  <1>7. x - 1 \in Nat /\ x - 1 < x /\ (x - 1) + 1 = x
    BY <1>5, <1>6
  <1> QED
    BY <1>5, <1>7

\* One look of the search at a range.
Halving(f, records, since, range) ==
  LET low == range[1]
      high == range[2]
      mid == (low + high) \div 2
  IN IF low >= high THEN low
     ELSE IF records[mid + 1] <= since THEN f[<<mid + 1, high>>]
     ELSE f[<<low, mid>>]

Ranges(n) == (0 .. n) \X (0 .. n)

LEMMA IndexAfterUnfolds ==
  ASSUME NEW s, NEW c
  PROVE  IndexAfter(s, c) =
           (CHOOSE f : f = [range \in Ranges(Len(s)) |-> Halving(f, s, c, range)])[<<0, Len(s)>>]
  BY DEF IndexAfter, Halving, Ranges

\* Where the search goes next.
LEMMA Narrower ==
  ASSUME NEW n \in Nat, NEW low \in 0 .. n, NEW high \in 0 .. n, low < high,
         NEW mid, mid = (low + high) \div 2
  PROVE  /\ mid \in Nat /\ low <= mid /\ mid < high /\ mid + 1 \in 1 .. n
         /\ <<mid + 1, high>> \in Ranges(n) /\ <<low, mid>> \in Ranges(n)
         /\ high - (mid + 1) < high - low /\ mid - low < high - low
         /\ mid + 1 <= high
  <1>1. mid \in Nat /\ low <= mid /\ mid < high
    OBVIOUS
  <1> QED
    BY <1>1 DEF Ranges

Wide(n, m) == {range \in Ranges(n) : range[2] <= range[1] + m}

\* There is a search of every range: of wider ones by way of narrower ones.
LEMMA SearchExists ==
  ASSUME NEW s \in Seq(Nat), NEW c
  PROVE  \E f : f = [range \in Ranges(Len(s)) |-> Halving(f, s, c, range)]
  <1> DEFINE n == Len(s)
             Solves(f, m) == \A range \in Wide(n, m) : f[range] = Halving(f, s, c, range)
             P == {m \in Nat : \E f : Solves(f, m)}
  <1>1. n \in Nat
    OBVIOUS
  <1> HIDE DEF n
  <1>2. 0 \in P
    <2> DEFINE f == [range \in Ranges(n) |-> range[1]]
    <2>1. ASSUME NEW range \in Wide(n, 0)
          PROVE  f[range] = Halving(f, s, c, range)
      <3>1. range \in Ranges(n) /\ range[1] >= range[2]
        BY <1>1 DEF Wide, Ranges
      <3> QED
        BY <3>1 DEF Halving
    <2>2. Solves(f, 0)
      BY <2>1
    <2> QED
      BY <2>2
  <1>3. ASSUME NEW m \in Nat, m \in P PROVE m + 1 \in P
    <2>1. PICK f : Solves(f, m)
      BY <1>3
    <2> DEFINE g == [range \in Ranges(n) |->
                       IF range \in Wide(n, m) THEN f[range] ELSE Halving(f, s, c, range)]
    <2>2. ASSUME NEW range \in Wide(n, m + 1)
          PROVE  g[range] = Halving(g, s, c, range)
      <3> DEFINE low == range[1]
                 high == range[2]
                 mid == (low + high) \div 2
      <3>1. range \in Ranges(n) /\ low \in 0 .. n /\ high \in 0 .. n /\ high <= low + (m + 1)
        BY DEF Wide, Ranges
      <3>2. g[range] = Halving(f, s, c, range)
        BY <2>1, <3>1
      <3>3. CASE low >= high
        BY <3>2, <3>3 DEF Halving
      <3>4. CASE low < high
        <4>1. mid \in Nat
          BY <1>1, <3>1, <3>4, Narrower
        <4>2. <<mid + 1, high>> \in Wide(n, m) /\ <<low, mid>> \in Wide(n, m)
          <5> HIDE DEF low, high, mid
          <5>1. /\ <<mid + 1, high>> \in Ranges(n) /\ <<low, mid>> \in Ranges(n)
                /\ high - (mid + 1) < high - low /\ mid - low < high - low
            BY <1>1, <3>1, <3>4, Narrower DEF mid
          <5>2. high <= (mid + 1) + m /\ mid <= low + m
            BY <1>1, <3>1, <4>1, <5>1
          <5> QED
            BY <5>1, <5>2 DEF Wide
        <4>3. g[<<mid + 1, high>>] = f[<<mid + 1, high>>] /\ g[<<low, mid>>] = f[<<low, mid>>]
          <5> HIDE DEF low, high, mid
          <5> QED
            BY <4>2 DEF Wide
        <4> QED
          BY <3>2, <4>3 DEF Halving
      <3> QED
        BY <1>1, <3>1, <3>3, <3>4
    <2>3. Solves(g, m + 1)
      BY <2>2
    <2> HIDE DEF g, Solves
    <2>4. \E h : Solves(h, m + 1)
      BY <2>3
    <2> QED
      BY <2>4
  <1>4. n \in P
    <2> HIDE DEF P
    <2> QED
      BY <1>1, <1>2, <1>3, Induction
  <1>5. PICK f : Solves(f, n)
    BY <1>4
  <1> DEFINE g == [range \in Ranges(n) |-> Halving(f, s, c, range)]
  <1>6. ASSUME NEW range \in Ranges(n)
        PROVE  f[range] = Halving(f, s, c, range)
    <2>1. range \in Wide(n, n)
      BY <1>1 DEF Wide, Ranges
    <2> QED
      BY <1>5, <2>1
  <1>7. \A range \in Ranges(n) : g[range] = f[range]
    BY <1>6
  <1>8. ASSUME NEW range \in Ranges(n)
        PROVE  Halving(f, s, c, range) = Halving(g, s, c, range)
    <2> DEFINE low == range[1]
               high == range[2]
               mid == (low + high) \div 2
    <2>1. low \in 0 .. n /\ high \in 0 .. n
      BY DEF Ranges
    <2>2. low < high => g[<<mid + 1, high>>] = f[<<mid + 1, high>>] /\ g[<<low, mid>>] = f[<<low, mid>>]
      <3> SUFFICES ASSUME low < high
                   PROVE  g[<<mid + 1, high>>] = f[<<mid + 1, high>>] /\ g[<<low, mid>>] = f[<<low, mid>>]
        OBVIOUS
      <3> HIDE DEF low, high, mid, g
      <3>1. <<mid + 1, high>> \in Ranges(n) /\ <<low, mid>> \in Ranges(n)
        BY <1>1, <2>1, Narrower DEF mid
      <3> QED
        BY <1>7, <3>1
    <2> HIDE DEF g
    <2> QED
      BY <1>1, <2>1, <2>2 DEF Halving
  <1>9. g = [range \in Ranges(n) |-> Halving(g, s, c, range)]
    <2> DEFINE h == [range \in Ranges(n) |-> Halving(g, s, c, range)]
    <2>1. \A range \in Ranges(n) : g[range] = h[range]
      BY <1>8
    <2> QED
      BY <2>1
  <1> QED
    BY <1>9 DEF n

\* What the search finds, sorted or not: everything it stops behind, if
\* anything, ends with a record the reader is past.
LEMMA Found ==
  ASSUME NEW s \in Seq(Nat), NEW c \in Nat
  PROVE  /\ IndexAfter(s, c) \in 0 .. Len(s)
         /\ IndexAfter(s, c) > 0 => s[IndexAfter(s, c)] <= c
  <1> DEFINE n == Len(s)
             f == CHOOSE f : f = [range \in Ranges(n) |-> Halving(f, s, c, range)]
             Good(m) == \A range \in Wide(n, m) :
               LET at == f[range] IN
               /\ at \in 0 .. n
               /\ at # range[1] => at > 0 /\ s[at] <= c
             P == {m \in Nat : Good(m)}
  <1>1. n \in Nat
    OBVIOUS
  <1>2. f = [range \in Ranges(n) |-> Halving(f, s, c, range)]
    BY SearchExists
  <1>3. IndexAfter(s, c) = f[<<0, n>>]
    BY IndexAfterUnfolds
  <1> HIDE DEF n, f
  <1>4. \A range \in Ranges(n) : f[range] = Halving(f, s, c, range)
    BY <1>2
  <1>5. 0 \in P
    <2>1. ASSUME NEW range \in Wide(n, 0) PROVE f[range] = range[1] /\ range[1] \in 0 .. n
      <3>1. range \in Ranges(n) /\ range[1] >= range[2] /\ range[1] \in 0 .. n
        BY <1>1 DEF Wide, Ranges
      <3> QED
        BY <1>4, <3>1 DEF Halving
    <2> QED
      BY <2>1
  <1>6. ASSUME NEW m \in Nat, m \in P PROVE m + 1 \in P
    <2>1. ASSUME NEW range \in Wide(n, m + 1)
          PROVE  /\ f[range] \in 0 .. n
                 /\ f[range] # range[1] => f[range] > 0 /\ s[f[range]] <= c
      <3> DEFINE low == range[1]
                 high == range[2]
                 mid == (low + high) \div 2
      <3>1. range \in Ranges(n) /\ low \in 0 .. n /\ high \in 0 .. n /\ high <= low + (m + 1)
        BY DEF Wide, Ranges
      <3>2. f[range] = Halving(f, s, c, range)
        BY <1>4, <3>1
      <3>3. CASE low >= high
        BY <3>1, <3>2, <3>3 DEF Halving
      <3>4. CASE low < high
        <4>1. /\ mid \in Nat /\ mid + 1 \in 1 .. n
              /\ <<mid + 1, high>> \in Wide(n, m) /\ <<low, mid>> \in Wide(n, m)
          <5> HIDE DEF low, high, mid
          <5>1. /\ <<mid + 1, high>> \in Ranges(n) /\ <<low, mid>> \in Ranges(n)
                /\ high - (mid + 1) < high - low /\ mid - low < high - low
                /\ mid \in Nat /\ mid + 1 \in 1 .. n
            BY <1>1, <3>1, <3>4, Narrower DEF mid
          <5>2. high <= (mid + 1) + m /\ mid <= low + m
            BY <1>1, <3>1, <5>1
          <5> QED
            BY <5>1, <5>2 DEF Wide
        <4>2. CASE s[mid + 1] <= c
          <5>1. f[range] = f[<<mid + 1, high>>]
            BY <3>2, <3>4, <4>2, <1>1, <3>1 DEF Halving
          <5> DEFINE right == <<mid + 1, high>>
          <5>2. f[right] \in 0 .. n /\ (f[right] # right[1] => f[right] > 0 /\ s[f[right]] <= c)
            <6> HIDE DEF right
            <6> QED
              BY <1>6, <4>1 DEF right
          <5>3. right[1] = mid + 1
            OBVIOUS
          <5> HIDE DEF right, low, high, mid
          <5> QED
            BY <4>1, <4>2, <5>1, <5>2, <5>3 DEF right
        <4>3. CASE ~(s[mid + 1] <= c)
          <5>1. f[range] = f[<<low, mid>>]
            BY <3>2, <3>4, <4>3, <1>1, <3>1 DEF Halving
          <5> DEFINE left == <<low, mid>>
          <5>2. f[left] \in 0 .. n /\ (f[left] # left[1] => f[left] > 0 /\ s[f[left]] <= c)
            <6> HIDE DEF left
            <6> QED
              BY <1>6, <4>1 DEF left
          <5>3. left[1] = low
            OBVIOUS
          <5> HIDE DEF left, high, mid
          <5> QED
            BY <5>1, <5>2, <5>3 DEF left
        <4> QED
          BY <4>2, <4>3
      <3> QED
        BY <1>1, <3>1, <3>3, <3>4
    <2> QED
      BY <2>1
  <1>7. n \in P
    <2> HIDE DEF P
    <2> QED
      BY <1>1, <1>5, <1>6, Induction
  <1>8. <<0, n>> \in Wide(n, n)
    BY <1>1 DEF Wide, Ranges
  <1> DEFINE all == <<0, n>>
  <1>9. f[all] \in 0 .. n /\ (f[all] # all[1] => f[all] > 0 /\ s[f[all]] <= c)
    <2> HIDE DEF all
    <2> QED
      BY <1>7, <1>8 DEF all
  <1> QED
    BY <1>1, <1>3, <1>9 DEF n

-----------------------------------------------------------------------------
(* Paging *)

\* Sequence numbers start at one.
Given == \A k \in DOMAIN work : k[1] > 0
Numbers == Given /\ \A g \in Session : \A i \in DOMAIN kept[g] : kept[g][i] > 0

Early(g) == handler[g] \in {"none", "called", "attaching"}

\* Nothing is sent or read of a session that is not registered yet.
Past ==
  /\ \A g \in Session : Early(g) => flight[g] = NoFlight
  /\ reader.of \in Session \cup {None} /\ reader.cursor \in Nat
  /\ reader.of \in Session => ~Early(reader.of)

\* The ring and the batch of a row continue each other in what was kept.
Arrived(g) == evicted[g] + Len(ring[g])
Follows ==
  \A g \in rows :
    /\ Arrived(g) + Len(flight[g].records) <= Len(kept[g])
    /\ \A i \in DOMAIN ring[g] : ring[g][i] = kept[g][evicted[g] + i]
    /\ \A i \in DOMAIN flight[g].records : flight[g].records[i] = kept[g][Arrived(g) + i]

\* The cursor is a record that arrived and was read.
Cursor ==
  reader.of \in rows =>
    \/ reader.cursor = 0
    \/ /\ reader.cursor \in reader.got
       /\ \E i \in 1 .. Arrived(reader.of) : reader.cursor = kept[reader.of][i]

PInv == Numbers /\ Past /\ Follows /\ Cursor /\ PagingMissesNothing

\* History that is added to keeps what it was.
Extends(h, k) == Len(k) <= Len(h) /\ \A i \in DOMAIN k : h[i] = k[i]

LEMMA StillInOrder ==
  ASSUME DInv, DInv', NEW g \in Session, NEW r, Extends(kept'[g], kept[g]), InOrder(g, r)'
  PROVE  InOrder(g, r)
  <1>1. kept[g] \in Seq(Nat) /\ kept'[g] \in Seq(Nat)
    BY DEF DInv, ClientTypes
  <1>2. DOMAIN kept[g] \subseteq DOMAIN kept'[g]
    BY <1>1 DEF Extends
  <1> QED
    BY <1>1, <1>2 DEF Extends, InOrder

\* A step that neither moves the ring nor the reader and sends nothing new.
LEMMA Onward ==
  ASSUME DInv, DInv', PInv, Numbers',
         \A g \in Session : Extends(kept'[g], kept[g]),
         \A g \in Session : Early(g)' => Early(g),
         \A g \in Session :
           \/ flight'[g] = flight[g]
           \/ flight'[g] = NoFlight
           \/ flight[g] # NoFlight /\ flight'[g].records = flight[g].records,
         rows' \subseteq rows, UNCHANGED <<ring, evicted, reader>>
  PROVE  PInv'
  <1>1. rows \subseteq Session
    BY DEF DInv, HubTypes
  <1>2. \A g \in Session : kept[g] \in Seq(Nat) /\ kept'[g] \in Seq(Nat) /\ ring[g] \in Seq(Nat)
                           /\ flight[g].records \in Seq(Nat) /\ evicted[g] \in Nat
    BY DEF DInv, ClientTypes, HubTypes
  <1>3. Past'
    BY DEF PInv, Past, Early
  <1>4. Follows'
    <2> SUFFICES ASSUME NEW g \in rows
                 PROVE  /\ Arrived(g)' + Len(flight'[g].records) <= Len(kept'[g])
                        /\ \A i \in DOMAIN ring'[g] : ring'[g][i] = kept'[g][evicted'[g] + i]
                        /\ \A i \in DOMAIN flight'[g].records :
                             flight'[g].records[i] = kept'[g][Arrived(g)' + i]
      BY DEF Follows
    <2> DEFINE a == Arrived(g)
               f == flight[g].records
               f1 == flight'[g].records
               k == kept[g]
               k1 == kept'[g]
               e == evicted[g]
               s == ring[g]
    <2>1. /\ f \in Seq(Nat) /\ k \in Seq(Nat) /\ k1 \in Seq(Nat) /\ s \in Seq(Nat) /\ e \in Nat
          /\ a = e + Len(s) /\ a \in Nat
      BY <1>1, <1>2 DEF Arrived
    <2>2. f1 = f \/ f1 = << >>
      BY <1>1 DEF NoFlight
    <2>3. /\ a + Len(f) <= Len(k)
          /\ \A i \in DOMAIN s : s[i] = k[e + i]
          /\ \A i \in DOMAIN f : f[i] = k[a + i]
      BY DEF PInv, Follows
    <2>4. Len(k) <= Len(k1) /\ \A i \in DOMAIN k : k1[i] = k[i]
      BY <1>1 DEF Extends
    <2>5. Arrived(g)' = a /\ ring'[g] = s /\ evicted'[g] = e
      BY DEF Arrived
    <2> HIDE DEF a, f, f1, k, k1, e, s
    <2>6. a + Len(f1) <= Len(k1)
      BY <2>1, <2>2, <2>3, <2>4
    <2>7. ASSUME NEW i \in DOMAIN s PROVE s[i] = k1[e + i]
      <3>1. e + i \in DOMAIN k
        BY <2>1, <2>3
      <3> QED
        BY <2>3, <2>4, <3>1
    <2>8. ASSUME NEW i \in DOMAIN f1 PROVE f1[i] = k1[a + i]
      <3>1. i \in DOMAIN f /\ f1 = f
        BY <2>2
      <3>2. a + i \in DOMAIN k
        BY <2>1, <2>3, <3>1
      <3> QED
        BY <2>3, <2>4, <3>1, <3>2
    <2> QED
      BY <2>5, <2>6, <2>7, <2>8 DEF f1, k1
  <1> DEFINE h == reader.of
  <1>5. Cursor'
    <2> SUFFICES ASSUME h \in rows, reader.cursor # 0
                 PROVE  /\ reader.cursor \in reader.got
                        /\ \E i \in 1 .. Arrived(h)' : reader.cursor = kept'[h][i]
      BY DEF Cursor
    <2>1. PICK i \in 1 .. Arrived(h) : reader.cursor = kept[h][i]
      BY DEF PInv, Cursor
    <2>2. Arrived(h)' = Arrived(h) /\ Arrived(h) \in Nat /\ Arrived(h) <= Len(kept[h])
      <3> DEFINE f == Len(flight[h].records)
                 a == Arrived(h)
      <3> DEFINE l == Len(kept[h])
      <3>0. h \in rows /\ h \in Session
        BY <1>1
      <3>1. f \in Nat /\ a \in Nat /\ a + f <= l /\ l \in Nat
        <4>1. f \in Nat /\ l \in Nat
          BY <1>2, <3>0
        <4>2. a \in Nat
          BY <1>2, <3>0 DEF Arrived
        <4>3. a + f <= l
          BY <3>0 DEF PInv, Follows
        <4> QED
          BY <4>1, <4>2, <4>3
      <3>2. Arrived(h)' = Arrived(h)
        BY DEF Arrived
      <3> HIDE DEF f, l
      <3> QED
        BY <3>1, <3>2 DEF l
    <2>3. i \in DOMAIN kept[h]
      BY <1>1, <1>2, <2>2
    <2>4. kept'[h][i] = kept[h][i]
      BY <1>1, <2>3 DEF Extends
    <2> QED
      BY <2>1, <2>2, <2>4 DEF PInv, Cursor
  <1>6. PagingMissesNothing'
    <2> SUFFICES ASSUME h \in rows, NEW r \in ToSet(ring[h]), r <= reader.cursor, InOrder(h, r)'
                 PROVE  r \in reader.got
      BY DEF PagingMissesNothing
    <2>1. InOrder(h, r)
      BY <1>1, StillInOrder
    <2> QED
      BY <2>1 DEF PInv, PagingMissesNothing
  <1> QED
    BY <1>3, <1>4, <1>5, <1>6 DEF PInv

LEMMA GivenByEmit ==
  ASSUME BusTypes, Given, NEW p, Emit(p)
  PROVE  Given'
  <1>1. \A k \in DOMAIN work' : k \in DOMAIN work \/ k = <<sequence + 1, "observers">>
    BY DEF Emit, Pass, Beside
  <1> QED
    BY <1>1 DEF BusTypes, Given

LEMMA GivenByTurns ==
  ASSUME BusTypes, Given, NEW k, NEW o,
         \/ Notify(k, o) \/ RecordObserverFailure(k, o)
         \/ PassEnds(k) \/ SinkAnswers(k) \/ RecordSinkFailure(k)
  PROVE  Given'
  <1>1. CASE Notify(k, o)
    BY <1>1 DEF Notify, Given
  <1>2. CASE RecordObserverFailure(k, o)
    <2>1. \A j \in DOMAIN work' : j \in DOMAIN work \/ j \in {sequence + 1} \X Sinks
      BY <1>2 DEF RecordObserverFailure, SinkCalls, Beside
    <2> QED
      BY <2>1 DEF BusTypes, Given
  <1>3. CASE PassEnds(k)
    <2>1. \A j \in DOMAIN work' : j \in DOMAIN work \/ j \in {k[1]} \X Sinks
      BY <1>3 DEF PassEnds, SinkCalls, Without, Restrict, Beside
    <2> QED
      BY <1>3, <2>1 DEF PassEnds, Due, Given
  <1>4. CASE SinkAnswers(k)
    BY <1>4 DEF SinkAnswers, Without, Restrict, Given
  <1>5. CASE RecordSinkFailure(k)
    <2>1. \A j \in DOMAIN work' : j \in DOMAIN work \/ j = <<sequence + 1, "observers">>
      BY <1>5 DEF RecordSinkFailure, Without, Restrict, Pass, Beside
    <2> QED
      BY <2>1 DEF BusTypes, Given
  <1> QED
    BY <1>1, <1>2, <1>3, <1>4, <1>5

\* Steps that leave alone what was kept.
LEMMA Unkept ==
  ASSUME DInv, DInv', PInv, Given', UNCHANGED <<kept, ring, evicted, reader>>,
         \A g \in Session : Early(g)' => Early(g),
         \A g \in Session :
           \/ flight'[g] = flight[g]
           \/ flight'[g] = NoFlight
           \/ flight[g] # NoFlight /\ flight'[g].records = flight[g].records,
         rows' \subseteq rows
  PROVE  PInv'
  <1>1. Numbers'
    BY DEF PInv, Numbers
  <1>2. ASSUME NEW g \in Session PROVE Extends(kept'[g], kept[g])
    <2>1. Len(kept[g]) \in Nat
      BY DEF DInv, ClientTypes
    <2> QED
      BY <2>1 DEF Extends
  <1> QED
    BY <1>1, <1>2, Onward

\* The observer of a session buffers a record.
LEMMA PagingBuffers ==
  ASSUME DInv, DInv', PInv, NEW k, NEW g \in Session, Notify(k, g), Buffer(g, k[1]),
         UNCHANGED <<signalVars, client, gen, flight, netVars, rowVars, askVars, restVars>>
  PROVE  PInv'
  <1>1. Given'
    BY GivenByTurns DEF DInv, PInv, Numbers
  <1>2. \A h \in Session : Early(h)' => Early(h)
    BY DEF Early, netVars
  <1>3. CASE kept' = kept
    BY <1>1, <1>2, <1>3, Unkept DEF rowVars, restVars
  <1> DEFINE r == k[1]
  <1>4. r \in Nat /\ r > 0
    BY DEF Notify, Due, DInv, BusTypes, PInv, Numbers, Given
  <1> HIDE DEF r
  <1>5. CASE kept' = [kept EXCEPT ![g] = Append(@, r)]
    <2> DEFINE old == kept[g]
               new == Append(old, r)
    <2>1. /\ old \in Seq(Nat) /\ new \in Seq(Nat) /\ Len(new) = Len(old) + 1 /\ new[Len(old) + 1] = r
          /\ Len(old) \in Nat /\ \A i \in 1 .. Len(old) : new[i] = old[i]
      BY <1>4, AppendProperties DEF DInv, ClientTypes
    <2> HIDE DEF new
    <2>2. kept'[g] = new /\ \A h \in Session : h # g => kept'[h] = kept[h]
      BY <1>5 DEF DInv, ClientTypes, new
    <2>3. ASSUME NEW h \in Session
          PROVE  Extends(kept'[h], kept[h]) /\ \A i \in DOMAIN kept'[h] : kept'[h][i] > 0
      <3>0. kept[h] \in Seq(Nat) /\ \A i \in DOMAIN kept[h] : kept[h][i] > 0
        BY DEF DInv, ClientTypes, PInv, Numbers
      <3>1. CASE h # g
        <4>1. Len(kept[h]) \in Nat
          BY <3>0
        <4> QED
          BY <2>2, <3>0, <3>1, <4>1 DEF Extends
      <3>2. CASE h = g
        <4>1. Extends(new, old)
          <5> HIDE DEF old
          <5>1. DOMAIN old = 1 .. Len(old) /\ Len(old) <= Len(new)
            BY <2>1
          <5> QED
            BY <2>1, <5>1 DEF Extends
        <4>2. ASSUME NEW i \in DOMAIN new PROVE new[i] > 0
          <5>1. i \in 1 .. Len(old) \/ i = Len(old) + 1
            BY <2>1
          <5> HIDE DEF old
          <5>2. \A j \in 1 .. Len(old) : old[j] > 0
            BY <2>1, <3>0, <3>2 DEF old
          <5> QED
            BY <1>4, <2>1, <5>1, <5>2
        <4> QED
          BY <2>2, <3>2, <4>1, <4>2
      <3> QED
        BY <3>1, <3>2
    <2>4. Numbers'
      BY <1>1, <2>3 DEF Numbers
    <2> QED
      BY <1>2, <2>3, <2>4, Onward DEF rowVars, restVars
  <1> QED
    BY <1>3, <1>5 DEF Buffer, r

LEMMA PagingDials ==
  ASSUME DInv, DInv', PInv, Dial
  PROVE  PInv'
  <1>1. Given'
    BY DEF Dial, PInv, Numbers, Given
  <1>2. \A g \in Session : Early(g)' => Early(g)
    <2>1. gen' = gen + 1 /\ gen' \in Session /\ gen \in Nat
      BY Numbered DEF Dial, DInv
    <2>2. Early(gen')
      BY <2>1 DEF DInv, Handlers, Early
    <2>3. \A g \in Session : g # gen' => handler'[g] = handler[g]
      BY DEF Dial, DInv, HubTypes
    <2> QED
      BY <2>2, <2>3 DEF Early
  <1> QED
    BY <1>1, <1>2, Unkept DEF Dial, rowVars, restVars, historyVars

LEMMA PagingLeaves ==
  ASSUME DInv, DInv', PInv, Disconnect \/ DisconnectMidFlight \/ Refuse
  PROVE  PInv'
  <1>1. Given' /\ UNCHANGED <<kept, ring, evicted, reader, rows>>
    BY DEF Disconnect, DisconnectMidFlight, Refuse, Leave, PInv, Numbers, Given, rowVars, restVars,
       historyVars
  <1>2. \A g \in Session : Early(g)' => Early(g)
    BY DEF Disconnect, DisconnectMidFlight, Refuse, netVars, Early, DInv, HubTypes
  <1>3. \A g \in Session : flight'[g] = flight[g] \/ flight'[g] = NoFlight
    BY DEF Disconnect, DisconnectMidFlight, Refuse, DInv, ClientTypes
  <1> QED
    BY <1>1, <1>2, <1>3, Unkept

\* What is sent is what followed the ring in the buffer.
LEMMA PagingFlushes ==
  ASSUME DInv, DInv', PInv, FlushOnce
  PROVE  PInv'
  <1> DEFINE batch == [at |-> "net", records |-> buffer, dropped |-> dropped]
  <1>1. /\ client = "attached" /\ flight[gen] = NoFlight /\ gen \in Session
        /\ flight' = [flight EXCEPT ![gen] = batch]
        /\ UNCHANGED <<work, gen, client, handler, rows, ring, evicted, reader, kept>>
    BY Numbered DEF FlushOnce, DInv, bothVars, busVars, netVars, rowVars, restVars, historyVars
  <1> HIDE DEF batch
  <1>2. flight'[gen] = batch /\ \A g \in Session : g # gen => flight'[g] = flight[g]
    BY <1>1 DEF DInv, ClientTypes
  <1>3. Numbers' /\ Cursor' /\ PagingMissesNothing'
    BY <1>1 DEF PInv, Numbers, Given, Cursor, Arrived, PagingMissesNothing, InOrder
  <1>4. Past'
    <2>1. ~Early(gen)
      BY <1>1 DEF DInv, Handlers, Early
    <2> QED
      BY <1>1, <1>2, <2>1 DEF PInv, Past, Early
  <1>5. Follows'
    <2> SUFFICES ASSUME NEW g \in rows
                 PROVE  /\ Arrived(g) + Len(flight'[g].records) <= Len(kept[g])
                        /\ \A i \in DOMAIN ring[g] : ring[g][i] = kept[g][evicted[g] + i]
                        /\ \A i \in DOMAIN flight'[g].records :
                             flight'[g].records[i] = kept[g][Arrived(g) + i]
      BY <1>1 DEF Follows, Arrived
    <2>1. CASE g # gen
      <3>1. flight'[g] = flight[g]
        BY <1>2, <2>1 DEF DInv, HubTypes
      <3> QED
        BY <3>1 DEF PInv, Follows
    <2>2. CASE g = gen
      <3> DEFINE s == ring[gen]
                 k == kept[gen]
                 e == evicted[gen]
      <3>1. s \in Seq(Nat) /\ k \in Seq(Nat) /\ e \in Nat /\ buffer \in Seq(Nat) /\ e <= Len(k)
        BY <1>1, <2>2 DEF DInv, ClientTypes, HubTypes, Counted
      <3>2. Joined(Held, buffer) = From(k, e)
        BY <1>1, <2>2, Account DEF DInv, Counted
      <3>3. Held = s
        BY <1>1, <3>1, ConcatEmptySeq DEF Held, NoFlight
      <3>4. Arrived(g) = e + Len(s) /\ flight'[g].records = buffer
        BY <1>2, <2>2 DEF Arrived, batch
      <3>5. \A i \in DOMAIN s : s[i] = k[e + i]
        BY <2>2 DEF PInv, Follows
      <3> HIDE DEF s, k, e
      <3>6. /\ Len(From(k, e)) = Len(k) - e
            /\ \A i \in 1 .. Len(k) - e : From(k, e)[i] = k[e + i]
        BY <3>1, Slice DEF From
      <3>7. /\ Len(Joined(s, buffer)) = Len(s) + Len(buffer)
            /\ \A i \in 1 .. Len(s) + Len(buffer) :
                 Joined(s, buffer)[i] = IF i <= Len(s) THEN s[i] ELSE buffer[i - Len(s)]
        BY <3>1, ConcatProperties DEF Joined
      <3>8. Len(s) \in Nat /\ Len(buffer) \in Nat /\ Len(k) \in Nat /\ Len(s) + Len(buffer) = Len(k) - e
        <4>1. Len(s) \in Nat /\ Len(buffer) \in Nat /\ Len(k) \in Nat
          BY <3>1
        <4>2. Joined(s, buffer) = From(k, e)
          BY <3>2, <3>3
        <4> QED
          BY <3>6, <3>7, <4>1, <4>2
      <3>9. ASSUME NEW i \in DOMAIN buffer PROVE buffer[i] = k[e + Len(s) + i]
        <4>0. i \in 1 .. Len(buffer)
          BY <3>1
        <4>1. /\ Len(s) + i \in 1 .. Len(s) + Len(buffer) /\ ~(Len(s) + i <= Len(s))
              /\ (Len(s) + i) - Len(s) = i /\ e + (Len(s) + i) = e + Len(s) + i
              /\ Len(s) + i \in 1 .. Len(k) - e
          <5> DEFINE m == Len(s)
                     n == Len(buffer)
                     l == Len(k)
          <5>1. m \in Nat /\ n \in Nat /\ l \in Nat /\ m + n = l - e /\ i \in 1 .. n
            BY <3>8, <4>0
          <5> HIDE DEF m, n, l
          <5>2. m + i \in 1 .. m + n /\ ~(m + i <= m) /\ (m + i) - m = i /\ e + (m + i) = e + m + i
                /\ m + i \in 1 .. l - e
            BY <3>1, <5>1
          <5> QED
            BY <5>2 DEF m, n, l
        <4>2. Joined(s, buffer)[Len(s) + i] = buffer[i]
          BY <3>7, <4>1
        <4>3. From(k, e)[Len(s) + i] = k[e + Len(s) + i]
          BY <3>6, <4>1
        <4> QED
          BY <3>2, <3>3, <4>2, <4>3
      <3>10. e + Len(s) + Len(buffer) <= Len(k)
        BY <3>1, <3>8
      <3> QED
        BY <2>2, <3>4, <3>5, <3>9, <3>10 DEF s, k, e
    <2> QED
      BY <2>1, <2>2
  <1> QED
    BY <1>3, <1>4, <1>5 DEF PInv

\* A row begins with an empty ring, and nobody reads it yet.
LEMMA PagingRegisters ==
  ASSUME DInv, DInv', PInv, NEW g \in Session, handler[g] = "attaching", Register(g), ActionFrame
  PROVE  PInv'
  <1>2. /\ rows' = rows \cup {g} /\ ring' = [ring EXCEPT ![g] = << >>]
        /\ evicted' = [evicted EXCEPT ![g] = 0]
        /\ \A h \in Session : handler'[h] = handler[h] \/ h = g
        /\ UNCHANGED <<work, kept, flight, reader>>
    BY DEF Register, ActionFrame, bothVars, busVars, restVars, historyVars, DInv, HubTypes
  <1>3. flight[g] = NoFlight /\ reader.of # g /\ handler'[g] \notin {"none", "called", "attaching"}
    BY DEF PInv, Past, Early, Register, DInv, HubTypes
  <1>4. /\ ring'[g] = << >> /\ evicted'[g] = 0
        /\ \A h \in Session : h # g => ring'[h] = ring[h] /\ evicted'[h] = evicted[h]
    BY <1>2 DEF DInv, HubTypes
  <1>5. Numbers' /\ Past'
    BY <1>2, <1>3 DEF PInv, Numbers, Given, Past, Early
  <1>6. rows \subseteq Session
    BY DEF DInv, HubTypes
  <1>7. Follows'
    <2> SUFFICES ASSUME NEW h \in rows \cup {g}
                 PROVE  /\ Arrived(h)' + Len(flight[h].records) <= Len(kept[h])
                        /\ \A i \in DOMAIN ring'[h] : ring'[h][i] = kept[h][evicted'[h] + i]
                        /\ \A i \in DOMAIN flight[h].records :
                             flight[h].records[i] = kept[h][Arrived(h)' + i]
      BY <1>2 DEF Follows
    <2>1. CASE h = g
      <3>1. kept[g] \in Seq(Nat) /\ Len(kept[g]) \in Nat
        <4>1. kept[g] \in Seq(Nat)
          BY DEF DInv, ClientTypes
        <4> QED
          BY <4>1
      <3>2. Arrived(g)' = 0
        <4>1. Arrived(g)' = evicted'[g] + Len(ring'[g])
          BY DEF Arrived
        <4>2. Len(ring'[g]) = 0
          BY <1>4
        <4> QED
          BY <1>4, <4>1, <4>2
      <3>3. flight[g].records = << >>
        BY <1>3 DEF NoFlight
      <3>4. Len(flight[g].records) = 0 /\ DOMAIN flight[g].records = {} /\ DOMAIN ring'[g] = {}
        BY <1>4, <3>3
      <3> DEFINE l == Len(kept[g])
      <3>5. 0 + 0 <= l
        <4>1. l \in Nat
          BY <3>1
        <4> HIDE DEF l
        <4> QED
          BY <4>1
      <3>6. Arrived(g)' + Len(flight[g].records) <= Len(kept[g])
        BY <3>2, <3>4, <3>5
      <3> HIDE DEF l
      <3> QED
        BY <2>1, <3>4, <3>6
    <2>2. CASE h # g
      <3>1. Arrived(h)' = Arrived(h) /\ ring'[h] = ring[h] /\ evicted'[h] = evicted[h]
        BY <1>4, <1>6, <2>2 DEF Arrived
      <3> QED
        BY <2>2, <3>1 DEF PInv, Follows
    <2> QED
      BY <2>1, <2>2
  <1>8. reader.of \in rows' => /\ reader.of \in rows /\ ring'[reader.of] = ring[reader.of]
                               /\ Arrived(reader.of)' = Arrived(reader.of)
    BY <1>2, <1>3, <1>4, <1>6 DEF Arrived
  <1>9. Cursor' /\ PagingMissesNothing'
    BY <1>2, <1>8 DEF PInv, Cursor, PagingMissesNothing, InOrder
  <1> QED
    BY <1>5, <1>7, <1>9 DEF PInv

\* Two sequences that continue each other in k, from behind e on.
Continue(s, f, k, e) ==
  /\ e + Len(s) + Len(f) <= Len(k)
  /\ \A i \in DOMAIN s : s[i] = k[e + i]
  /\ \A i \in DOMAIN f : f[i] = k[e + Len(s) + i]

End(e, s) == e + Len(s)

LEMMA PushedFollows ==
  ASSUME NEW s \in Seq(Nat), NEW f \in Seq(Nat), NEW k \in Seq(Nat), NEW e \in Nat,
         Continue(s, f, k, e),
         NEW x \in 0 .. Len(Joined(s, f)), NEW t, t = From(Joined(s, f), x)
  PROVE  /\ t \in Seq(Nat)
         /\ End(e + x, t) = End(End(e, s), f)
         /\ \A i \in DOMAIN t : t[i] = k[(e + x) + i]
  <1> DEFINE all == Joined(s, f)
             m == Len(s)
             n == Len(f)
             l == Len(k)
  <1>0. /\ e + m + n <= l
        /\ \A i \in DOMAIN s : s[i] = k[e + i]
        /\ \A i \in DOMAIN f : f[i] = k[e + m + i]
    BY DEF Continue
  <1>1. /\ all \in Seq(Nat) /\ Len(all) = m + n
        /\ \A i \in 1 .. m + n : all[i] = IF i <= m THEN s[i] ELSE f[i - m]
    BY ConcatProperties DEF Joined
  <1>2. /\ m \in Nat /\ n \in Nat /\ l \in Nat /\ e + m + n <= l /\ x \in 0 .. m + n
        /\ DOMAIN s = 1 .. m /\ DOMAIN f = 1 .. n
    <2>1. m \in Nat /\ n \in Nat /\ l \in Nat /\ DOMAIN s = 1 .. m /\ DOMAIN f = 1 .. n
      OBVIOUS
    <2> HIDE DEF m, n, l
    <2> QED
      BY <1>0, <1>1, <2>1
  <1> HIDE DEF all, m, n, l
  <1>3. /\ t \in Seq(Nat) /\ Len(t) = (m + n) - x
        /\ \A i \in 1 .. (m + n) - x : t[i] = all[x + i]
    <2>1. x \in Nat /\ x <= Len(all)
      BY <1>1, <1>2
    <2> DEFINE u == SubSeq(all, x + 1, Len(all))
    <2>2. t = u
      BY DEF From, all
    <2>3. /\ u \in Seq(Nat) /\ Len(u) = Len(all) - x
          /\ \A i \in 1 .. Len(all) - x : u[i] = all[x + i]
      BY <1>1, <2>1, Slice
    <2> HIDE DEF u
    <2> QED
      BY <1>1, <2>2, <2>3
  <1>4. ASSUME NEW i \in 1 .. m + n PROVE all[i] = k[e + i]
    <2>1. CASE i <= m
      <3>1. i \in DOMAIN s
        BY <1>2, <2>1
      <3> QED
        BY <1>0, <1>1, <2>1, <3>1
    <2>2. CASE ~(i <= m)
      <3>1. i - m \in 1 .. n /\ e + m + (i - m) = e + i
        BY <1>2, <2>2
      <3>2. f[i - m] = k[e + m + (i - m)]
        BY <1>0, <1>2, <3>1
      <3> QED
        BY <1>1, <2>2, <3>1, <3>2
    <2> QED
      BY <2>1, <2>2
  <1>5. (e + x) + Len(t) = e + m + n
    BY <1>2, <1>3
  <1>6. ASSUME NEW i \in 1 .. Len(t) PROVE t[i] = k[(e + x) + i]
    <2>1. i \in 1 .. (m + n) - x /\ x + i \in 1 .. m + n /\ e + (x + i) = (e + x) + i
      BY <1>2, <1>3
    <2> QED
      BY <1>3, <1>4, <2>1
  <1>7. DOMAIN t = 1 .. Len(t)
    BY <1>3
  <1> QED
    BY <1>3, <1>5, <1>6, <1>7 DEF m, n, End

\* A batch that came behind the cursor holds nothing in order from before it.
LEMMA PagingIngests ==
  ASSUME DInv, DInv', PInv, NEW g \in Session, Ingested(g), ActionFrame
  PROVE  PInv'
  <1>1. /\ flight' = [flight EXCEPT ![g] = NoFlight]
        /\ UNCHANGED <<work, handler, rows, kept, reader>>
    BY DEF Ingested, ActionFrame, bothVars, busVars, restVars, historyVars
  <1>2. flight'[g] = NoFlight /\ \A h \in Session : h # g => flight'[h] = flight[h]
    BY <1>1 DEF DInv, ClientTypes
  <1>3. CASE g \notin rows
    <2>1. UNCHANGED <<ring, evicted>> /\ Given' /\ \A h \in Session : Early(h)' => Early(h)
      BY <1>1, <1>3 DEF Ingested, PInv, Numbers, Given, Early
    <2> QED
      BY <1>1, <1>2, <2>1, Unkept
  <1>4. CASE g \in rows
    <2> DEFINE s == ring[g]
               f == flight[g].records
               k == kept[g]
               e == evicted[g]
               x == IF Len(Joined(s, f)) > Capacity + TrimSlack
                    THEN Len(Joined(s, f)) - Capacity ELSE 0
               t == From(Joined(s, f), x)
    <2>1. s \in Seq(Nat) /\ f \in Seq(Nat) /\ k \in Seq(Nat) /\ e \in Nat
      BY DEF DInv, ClientTypes, HubTypes
    <2>2. ring' = [ring EXCEPT ![g] = t] /\ evicted' = [evicted EXCEPT ![g] = e + x]
      BY <1>4 DEF Ingested, Push, Joined, From
    <2>3. x \in 0 .. Len(Joined(s, f))
      <3> DEFINE all == Len(Joined(s, f))
      <3>1. Joined(s, f) \in Seq(Nat)
        BY <2>1, JoinedIsASequence
      <3>2. all \in Nat
        BY <3>1
      <3> HIDE DEF all
      <3>3. (IF all > Capacity + TrimSlack THEN all - Capacity ELSE 0) \in 0 .. all
        BY <3>2, DevtoolsAssumption
      <3> QED
        BY <3>3 DEF all
    <2>4. /\ e + Len(s) + Len(f) <= Len(k)
          /\ \A i \in DOMAIN s : s[i] = k[e + i]
          /\ \A i \in DOMAIN f : f[i] = k[e + Len(s) + i]
      BY <1>4 DEF PInv, Follows, Arrived
    <2> HIDE DEF s, f, k, e, x, t
    <2>5. /\ t \in Seq(Nat) /\ (e + x) + Len(t) = e + Len(s) + Len(f)
          /\ \A i \in DOMAIN t : t[i] = k[(e + x) + i]
      <3>1. t = From(Joined(s, f), x) /\ Continue(s, f, k, e)
        BY <2>4 DEF t, Continue
      <3>2. /\ t \in Seq(Nat) /\ End(e + x, t) = End(End(e, s), f)
            /\ \A i \in DOMAIN t : t[i] = k[(e + x) + i]
        BY <2>1, <2>3, <3>1, PushedFollows
      <3> QED
        BY <3>2 DEF End
    <2>6. /\ ring'[g] = t /\ evicted'[g] = e + x
          /\ \A h \in Session : h # g => ring'[h] = ring[h] /\ evicted'[h] = evicted[h]
      BY <2>2 DEF DInv, HubTypes
    <2>7. rows \subseteq Session
      BY DEF DInv, HubTypes
    <2>8. Numbers' /\ Past'
      BY <1>1, <1>2 DEF PInv, Numbers, Given, Past, Early
    <2>9. Len(s) \in Nat /\ Len(f) \in Nat /\ Len(t) \in Nat /\ x \in Nat /\ Len(k) \in Nat
      <3>1. Joined(s, f) \in Seq(Nat)
        BY <2>1, JoinedIsASequence
      <3>2. x \in Nat
        BY <2>3, <3>1
      <3> QED
        BY <2>1, <2>5, <3>2
    <2>10. Arrived(g)' = e + Len(s) + Len(f) /\ Arrived(g) = e + Len(s)
      BY <2>5, <2>6 DEF Arrived, s, e
    <2>11. Follows'
      <3> SUFFICES ASSUME NEW h \in rows
                   PROVE  /\ Arrived(h)' + Len(flight'[h].records) <= Len(kept[h])
                          /\ \A i \in DOMAIN ring'[h] : ring'[h][i] = kept[h][evicted'[h] + i]
                          /\ \A i \in DOMAIN flight'[h].records :
                               flight'[h].records[i] = kept[h][Arrived(h)' + i]
        BY <1>1 DEF Follows
      <3>1. CASE h # g
        <4>1. Arrived(h)' = Arrived(h) /\ ring'[h] = ring[h] /\ evicted'[h] = evicted[h]
              /\ flight'[h] = flight[h]
          BY <1>2, <2>6, <2>7, <3>1 DEF Arrived
        <4> QED
          BY <4>1 DEF PInv, Follows
      <3>2. CASE h = g
        <4>1. flight'[g].records = << >>
          BY <1>2 DEF NoFlight
        <4>2. Len(flight'[g].records) = 0 /\ DOMAIN flight'[g].records = {}
          BY <4>1
        <4>3. Arrived(g)' + 0 <= Len(k)
          BY <2>1, <2>4, <2>9, <2>10
        <4> QED
          BY <2>5, <2>6, <3>2, <4>2, <4>3 DEF k
      <3> QED
        BY <3>1, <3>2
    <2>12. CASE reader.of # g
      <3>1. reader.of \in rows => /\ ring'[reader.of] = ring[reader.of]
                                  /\ Arrived(reader.of)' = Arrived(reader.of)
        BY <1>1, <2>6, <2>7, <2>12 DEF Arrived
      <3>2. Cursor' /\ PagingMissesNothing'
        BY <1>1, <3>1 DEF PInv, Cursor, PagingMissesNothing, InOrder
      <3> QED
        BY <2>8, <2>11, <3>2 DEF PInv
    <2>13. CASE reader.of = g
      <3> DEFINE c == reader.cursor
      <3>1. c = 0 \/ (c \in reader.got /\ \E i \in 1 .. Arrived(g) : c = k[i])
        BY <1>4, <2>13 DEF PInv, Cursor, k
      <3>2. Cursor'
        <4>1. \A i \in 1 .. Arrived(g) : i \in 1 .. Arrived(g)'
          BY <2>1, <2>9, <2>10
        <4> QED
          BY <1>1, <2>13, <3>1, <4>1 DEF Cursor, k
      <3>3. PagingMissesNothing'
        <4> SUFFICES ASSUME NEW r \in ToSet(t), r <= c, InOrder(g, r)
                     PROVE  r \in reader.got
          BY <1>1, <2>6, <2>13 DEF PagingMissesNothing, InOrder
        <4>1. PICK p \in DOMAIN t : r = t[p]
          BY DEF ToSet
        <4>2. DOMAIN t = 1 .. Len(t) /\ DOMAIN k = 1 .. Len(k) /\ DOMAIN s = 1 .. Len(s)
          BY <2>1, <2>5
        <4> DEFINE at == (e + x) + p
        <4>3. at \in DOMAIN k /\ r = k[at] /\ at \in Nat
          <5>1. r = k[at]
            BY <2>5, <4>1
          <5>2. p \in 1 .. Len(t)
            BY <4>2
          <5>3. at \in 1 .. Len(k)
            <6> DEFINE m == Len(s)
                       n == Len(f)
                       l == Len(t)
                       o == Len(k)
            <6>1. /\ m \in Nat /\ n \in Nat /\ l \in Nat /\ o \in Nat /\ e \in Nat /\ x \in Nat
                  /\ e + m + n <= o /\ (e + x) + l = e + m + n /\ p \in 1 .. l
              BY <2>1, <2>4, <2>5, <2>9, <5>2
            <6> HIDE DEF m, n, l, o
            <6>2. (e + x) + p \in 1 .. o
              BY <6>1
            <6> QED
              BY <6>2 DEF o
          <5> QED
            BY <4>2, <5>1, <5>3
        <4>4. CASE at <= e + Len(s)
          <5>1. at - e \in 1 .. Len(s) /\ e + (at - e) = at
            <6>1. p \in Nat /\ p >= 1
              BY <4>2
            <6> QED
              BY <2>1, <2>9, <4>4, <6>1
          <5>2. r = s[at - e]
            BY <2>4, <4>2, <4>3, <5>1
          <5>3. r \in ToSet(ring[g])
            BY <4>2, <5>1, <5>2 DEF ToSet, s
          <5> QED
            BY <1>4, <2>13, <5>3 DEF PInv, PagingMissesNothing
        <4>5. CASE ~(at <= e + Len(s))
          <5>1. k[at] > 0 /\ k[at] \in Nat
            BY <2>1, <4>3 DEF PInv, Numbers, k
          <5>2. c # 0 /\ c \in Nat
            BY <4>3, <5>1 DEF PInv, Past
          <5>3. PICK i \in 1 .. Arrived(g) : c = k[i] /\ c \in reader.got
            BY <3>1, <5>2
          <5>4. i < at /\ i \in DOMAIN k
            BY <2>1, <2>4, <2>9, <2>10, <4>2, <4>3, <4>5
          <5>5. k[i] <= k[at]
            BY <4>3, <5>4 DEF InOrder, k
          <5>6. c = r
            BY <4>3, <5>1, <5>2, <5>3, <5>5
          <5> QED
            BY <5>3, <5>6
        <4> QED
          BY <4>4, <4>5
      <3> QED
        BY <2>8, <2>11, <3>2, <3>3 DEF PInv
    <2> QED
      BY <2>12, <2>13
  <1> QED
    BY <1>3, <1>4

\* A page goes on where the search stops; whatever in order it leaves for a
\* later one comes after its last record.
LEMMA PagingReads ==
  ASSUME DInv, DInv', PInv, NEW g \in Session, Read(g)
  PROVE  PInv'
  <1> DEFINE s == ring[g]
             k == kept[g]
             e == evicted[g]
             since == IF reader.of = g THEN reader.cursor ELSE 0
             before == IF reader.of = g THEN reader.got ELSE {}
             start == IndexAfter(s, since)
             end == IF start + Limit < Len(s) THEN start + Limit ELSE Len(s)
             page == Page(s, since)
             next == NextSince(g, page, since)
             got == before \cup ToSet(page)
  <1>1. /\ g \in rows /\ reader' = [of |-> g, cursor |-> next, got |-> got]
        /\ UNCHANGED <<work, handler, flight, rows, ring, evicted, kept>>
    BY DEF Read, bothVars, busVars, clientVars, netVars, rowVars, historyVars
  <1>2. s \in Seq(Nat) /\ k \in Seq(Nat) /\ e \in Nat /\ since \in Nat
    BY DEF DInv, ClientTypes, HubTypes, PInv, Past
  <1>3. page = SubSeq(s, start + 1, end)
    BY DEF Page
  <1>4. reader'.of = g /\ reader'.cursor = next /\ reader'.got = got
    BY <1>1
  <1>5. start \in 0 .. Len(s) /\ (start > 0 => s[start] <= since)
    BY <1>2, Found
  <1> HIDE DEF page, start, s, k, e
  <1>6. /\ Len(s) \in Nat /\ DOMAIN s = 1 .. Len(s) /\ end <= Len(s) /\ end \in Int
    <2> DEFINE n == Len(s)
    <2>1. n \in Nat /\ DOMAIN s = 1 .. n /\ start \in 0 .. n
      BY <1>2, <1>5
    <2>2. end = IF start + Limit < n THEN start + Limit ELSE n
      OBVIOUS
    <2> HIDE DEF n, end
    <2>3. end <= n /\ end \in Int
      BY <2>1, <2>2, DevtoolsAssumption
    <2> QED
      BY <2>1, <2>3 DEF n
  <1> HIDE DEF end
  <1>7. /\ page \in Seq(Nat)
        /\ Len(page) = IF start + 1 <= end THEN end - start ELSE 0
        /\ \A i \in 1 .. end - start : page[i] = s[start + i]
    <2> DEFINE m == start + 1
               u == SubSeq(s, m, end)
    <2>1. m \in Int /\ m \in Nat /\ m >= 1
      BY <1>5, <1>6
    <2>2. \A i \in m .. end : s[i] \in Nat
      BY <1>2, <1>6, <2>1
    <2> HIDE DEF m
    <2>3. /\ u \in Seq(Nat)
          /\ Len(u) = IF m <= end THEN end - m + 1 ELSE 0
          /\ \A i \in 1 .. end - m + 1 : u[i] = s[m + i - 1]
      BY <1>6, <2>1, <2>2, SubSeqProperties
    <2>4. page = u
      BY <1>3 DEF m
    <2> HIDE DEF u
    <2>5. start \in Nat
      BY <1>5, <1>6
    <2>6. end - m + 1 = end - start /\ \A i \in Int : m + i - 1 = start + i
      BY <1>6, <2>1, <2>5 DEF m
    <2>7. \A i \in 1 .. end - start : page[i] = s[start + i]
      <3>1. ASSUME NEW i \in 1 .. end - start PROVE page[i] = s[start + i]
        <4>1. u[i] = s[m + i - 1] /\ m + i - 1 = start + i
          BY <2>3, <2>6
        <4> QED
          BY <2>4, <4>1
      <3> QED
        BY <3>1
    <2> QED
      BY <2>3, <2>4, <2>6, <2>7 DEF m
  <1>8. k \in Seq(Nat) /\ \A p \in 1 .. Len(s) : s[p] = k[e + p] /\ e + p \in DOMAIN k /\ s[p] > 0
    <2>1. \A p \in DOMAIN s : s[p] = k[e + p]
      BY <1>1 DEF PInv, Follows, s, k, e
    <2>2. \A p \in DOMAIN k : k[p] > 0
      BY DEF PInv, Numbers, k
    <2> DEFINE n == Len(s)
               l == Len(k)
               f == Len(flight[g].records)
    <2>3. n \in Nat /\ l \in Nat /\ f \in Nat /\ DOMAIN k = 1 .. l /\ DOMAIN s = 1 .. n
      BY <1>2 DEF DInv, ClientTypes
    <2>4. (e + n) + f <= l
      BY <1>1 DEF PInv, Follows, Arrived, s, k, e
    <2> HIDE DEF n, l, f
    <2>5. \A p \in 1 .. n : e + p \in 1 .. l
      BY <1>2, <2>3, <2>4
    <2> QED
      BY <1>2, <2>1, <2>2, <2>3, <2>5 DEF n
  <1>9. ASSUME NEW p \in 1 .. Len(s), s[p] <= since, InOrder(g, s[p])
        PROVE  s[p] \in before
    <2>1. s[p] \in ToSet(ring[g])
      BY <1>6 DEF ToSet, s
    <2>2. CASE reader.of = g
      BY <1>1, <1>9, <2>1, <2>2 DEF PInv, PagingMissesNothing
    <2>3. CASE reader.of # g
      <3>1. since = 0 /\ s[p] \in Nat /\ s[p] > 0
        BY <1>2, <1>6, <1>8, <2>3
      <3> QED
        BY <1>9, <3>1
    <2> QED
      BY <2>2, <2>3
  <1>10. since = 0 \/ (since \in before /\ \E i \in 1 .. Arrived(g) : since = k[i])
    BY <1>1 DEF PInv, Cursor, k
  <1>11. Arrived(g) = e + Len(s) /\ Arrived(g)' = Arrived(g)
    BY <1>1 DEF Arrived, e, s
  <1>12. Numbers' /\ Past' /\ Follows'
    <2>1. next \in Nat
      <3>1. page # << >> => Len(page) \in DOMAIN page
        BY <1>7
      <3> QED
        BY <1>2, <1>7, <3>1 DEF NextSince, Last
    <2>2. ~Early(g) /\ g \in Session
      BY <1>1 DEF DInv, Handlers, Early
    <2>3. Past'
      BY <1>1, <1>4, <2>1, <2>2 DEF PInv, Past, Early
    <2> QED
      BY <1>1, <2>3 DEF PInv, Numbers, Given, Follows, Arrived
  <1> HIDE DEF since, before, next, got
  <1>13. CASE page = << >>
    <2>1. next = since /\ got = before
      BY <1>13 DEF next, got, NextSince, ToSet
    <2>2. Cursor'
      BY <1>1, <1>4, <1>10, <1>11, <2>1 DEF Cursor, k
    <2>3. PagingMissesNothing'
      <3> SUFFICES ASSUME NEW r \in ToSet(s), r <= since, InOrder(g, r) PROVE r \in before
        BY <1>1, <1>4, <2>1 DEF PagingMissesNothing, InOrder, s
      <3>1. PICK p \in 1 .. Len(s) : r = s[p]
        BY <1>6 DEF ToSet
      <3> QED
        BY <1>9, <3>1
    <2> QED
      BY <1>12, <2>2, <2>3 DEF PInv
  <1>14. CASE page # << >>
    <2>1. /\ start \in Nat /\ start < end /\ end \in 1 .. Len(s)
          /\ Len(page) = end - start /\ DOMAIN page = 1 .. end - start
      <3>1. start + 1 <= end
        BY <1>5, <1>6, <1>7, <1>14
      <3>2. Len(page) = end - start /\ DOMAIN page = 1 .. Len(page)
        BY <1>7, <3>1
      <3> QED
        BY <1>5, <1>6, <3>1, <3>2
    <2>2. next = s[end] /\ got = before \cup ToSet(page)
      <3>1. next = page[Len(page)]
        BY <1>14 DEF next, NextSince, Last
      <3>2. end - start \in 1 .. end - start /\ start + (end - start) = end
        BY <1>6, <2>1
      <3>3. page[end - start] = s[start + (end - start)]
        BY <1>7, <3>2
      <3> QED
        BY <2>1, <3>1, <3>2, <3>3 DEF got
    <2>3. \A p \in start + 1 .. end : s[p] \in got
      <3>1. ASSUME NEW p \in start + 1 .. end PROVE s[p] \in got
        <4>1. p - start \in 1 .. end - start /\ start + (p - start) = p
          BY <1>6, <2>1
        <4>2. page[p - start] = s[p]
          BY <1>7, <4>1
        <4> QED
          BY <2>1, <2>2, <4>1, <4>2 DEF ToSet
      <3> QED
        BY <3>1
    <2>4. next \in got
      BY <1>6, <2>1, <2>2, <2>3
    <2>5. Cursor'
      <3>1. next = k[e + end]
        BY <1>8, <2>1, <2>2
      <3>2. e + end \in 1 .. Arrived(g)
        BY <1>2, <1>6, <1>11, <2>1
      <3> QED
        BY <1>1, <1>4, <1>11, <2>4, <3>1, <3>2 DEF Cursor, k
    <2>6. PagingMissesNothing'
      <3> SUFFICES ASSUME NEW r \in ToSet(s), r <= next, InOrder(g, r) PROVE r \in got
        BY <1>1, <1>4 DEF PagingMissesNothing, InOrder, s
      <3>1. PICK p \in 1 .. Len(s) : r = s[p]
        BY <1>6 DEF ToSet
      <3>2. p \in Nat /\ p >= 1 /\ r \in Nat /\ e + p \in DOMAIN k /\ r = k[e + p]
        BY <1>2, <1>6, <1>8, <3>1
      <3>3. CASE p <= start
        <4>0. start > 0 /\ start \in 1 .. Len(s)
          <5> DEFINE n == Len(s)
          <5>1. n \in Nat /\ start \in 0 .. n
            BY <1>5, <1>6
          <5> HIDE DEF n
          <5>2. start > 0 /\ start \in 1 .. n
            BY <3>2, <3>3, <5>1
          <5> QED
            BY <5>2 DEF n
        <4>1. start > 0 /\ start \in 1 .. Len(s) /\ s[start] <= since /\ s[start] \in Nat
          <5>1. s[start] \in Nat
            BY <1>2, <1>6, <4>0
          <5> QED
            BY <1>5, <4>0, <5>1
        <4>2. e + start \in DOMAIN k /\ s[start] = k[e + start]
          BY <1>8, <4>1
        <4>3. p = start \/ e + p < e + start
          BY <1>2, <2>1, <3>2, <3>3
        <4>4. r <= s[start]
          BY <3>1, <3>2, <4>1, <4>2, <4>3 DEF InOrder, k
        <4>5. s[p] <= since
          BY <1>2, <3>1, <3>2, <4>1, <4>4
        <4> QED
          BY <1>9, <2>2, <3>1, <4>5
      <3>4. CASE p \in start + 1 .. end
        BY <2>3, <3>1, <3>4
      <3>5. CASE p > end
        <4>0. s[end] = k[e + end] /\ e + end \in DOMAIN k
          BY <1>8, <2>1
        <4>1. e + end < e + p /\ e + end \in DOMAIN k /\ next = k[e + end] /\ next \in Nat
          <5>1. s[end] \in Nat
            BY <1>2, <1>6, <2>1
          <5>2. end \in Int /\ e + end < e + p
            BY <1>2, <1>6, <3>2, <3>5
          <5> QED
            BY <2>2, <4>0, <5>1, <5>2
        <4>2. next <= r
          BY <3>2, <4>1 DEF InOrder, k
        <4>3. next = r
          BY <3>2, <4>1, <4>2
        <4> QED
          BY <2>4, <4>3
      <3> QED
        BY <2>1, <3>2, <3>3, <3>4, <3>5
    <2> QED
      BY <1>12, <2>5, <2>6 DEF PInv
  <1> QED
    BY <1>13, <1>14

LEMMA PagingBusSteps ==
  ASSUME DInv, DInv', PInv, BusStep \/ EmitEvent
  PROVE  PInv'
  <1>1. CASE EmitEvent
    <2>1. Given'
      BY <1>1, GivenByEmit DEF EmitEvent, DInv, PInv, Numbers
    <2> QED
      BY <1>1, <2>1, Unkept DEF EmitEvent, clientVars, netVars, rowVars, historyVars, Early
  <1>2. ASSUME Given', BusOnly
        PROVE  PInv'
    BY <1>2, Unkept DEF BusOnly, clientVars, netVars, rowVars, restVars, historyVars, Early
  <1>3. ASSUME NEW k \in DOMAIN work, NotifyObserver(k)
        PROVE  PInv'
    <2>1. CASE /\ Notify(k, App) \/ RecordObserverFailure(k, App)
               /\ BusOnly
      <3>1. Given'
        BY <2>1, GivenByTurns DEF DInv, PInv, Numbers
      <3> QED
        BY <1>2, <2>1, <3>1
    <2>2. ASSUME NEW g \in Session, Notify(k, g), Buffer(g, k[1]),
                 UNCHANGED <<signalVars, client, gen, flight, netVars, rowVars, askVars, restVars>>
          PROVE  PInv'
      BY <2>2, PagingBuffers
    <2> QED
      BY <1>3, <2>1, <2>2 DEF NotifyObserver
  <1>4. ASSUME NEW k, PassEnds(k) \/ SinkAnswers(k) \/ RecordSinkFailure(k), BusOnly
        PROVE  PInv'
    <2>1. Given'
      BY <1>4, GivenByTurns DEF DInv, PInv, Numbers
    <2> QED
      BY <1>2, <1>4, <2>1
  <1> QED
    BY <1>1, <1>3, <1>4 DEF BusStep

LEMMA PagingSignalSteps ==
  ASSUME DInv, DInv', PInv, SignalStep \/ UseSignals
  PROVE  PInv'
  <1>1. SignalOnly
    BY DEF SignalStep, UseSignals
  <1>2. (\E p : Emit(p)) \/ work' = work
    BY DEF SignalStep, UseSignals, Deliver, Handled, SubscriberFails, Published, PublishSignal,
       Subscribe, Unsubscribe, busVars
  <1>3. Given'
    BY <1>2, GivenByEmit DEF DInv, PInv, Numbers, Given
  <1> QED
    BY <1>1, <1>3, Unkept DEF SignalOnly, clientVars, netVars, rowVars, restVars, historyVars, Early

LEMMA PagingHandlerSteps ==
  ASSUME DInv, DInv', PInv, NEW g \in Session,
         Attach(g) \/ Stream(g) \/ HandlerEnds(g) \/ Ingest(g) \/ Reply(g)
  PROVE  PInv'
  <1>1. Given' /\ UNCHANGED <<kept, ring, evicted, reader, rows>>
    BY DEF Attach, Stream, HandlerEnds, Ingest, Reply, HubOnly, bothVars, busVars, PInv, Numbers,
       Given, rowVars, restVars, historyVars
  <1>2. \A h \in Session : Early(h)' => Early(h)
    BY DEF Attach, Stream, HandlerEnds, Ingest, Reply, Early, DInv, HubTypes
  <1>3. ASSUME NEW h \in Session
        PROVE  \/ flight'[h] = flight[h]
               \/ flight[h] # NoFlight /\ flight'[h].records = flight[h].records
    <2>1. CASE UNCHANGED flight
      BY <2>1
    <2>2. CASE Ingest(g)
      <3>1. flight[g].at = "net" /\ flight' = [flight EXCEPT ![g].at = "mail"]
        BY <2>2 DEF Ingest
      <3>2. flight[g] # NoFlight
        BY <3>1 DEF NoFlight
      <3>3. CASE h # g
        BY <3>1, <3>3 DEF DInv, ClientTypes
      <3>4. CASE h = g
        <4>1. flight'[g] = [flight[g] EXCEPT !.at = "mail"]
          BY <3>1 DEF DInv, ClientTypes
        <4>2. flight[g] \in [at : {"none", "net", "mail"}, records : Seq(Nat), dropped : Nat]
          BY DEF DInv, ClientTypes
        <4>3. flight'[g].records = flight[g].records
          BY <4>1, <4>2
        <4> QED
          BY <3>2, <3>4, <4>3
      <3> QED
        BY <3>3, <3>4
    <2> QED
      BY <2>1, <2>2 DEF Attach, Stream, HandlerEnds, Reply
  <1> QED
    BY <1>1, <1>2, <1>3, Unkept

LEMMA PagingActionStep ==
  ASSUME DInv, DInv', PInv, RunAction
  PROVE  PInv'
  <1>1. mail # << >> /\ ActionFrame /\ Head(mail) \in Messages
    BY NextMessage DEF RunAction, ActionFrame, DInv
  <1>2. CASE Head(mail).act = "attached" /\ Register(Head(mail).of)
    <2>1. PICK g : g = Head(mail).of
      OBVIOUS
    <2>2. g \in Session /\ handler[g] = "attaching"
      <3>1. 1 \in DOMAIN mail /\ Head(mail) = mail[1]
        BY <1>1 DEF DInv, HubTypes
      <3> QED
        BY <1>1, <1>2, <2>1, <3>1 DEF DInv, Handlers, Messages
    <2> QED
      BY <1>1, <1>2, <2>1, <2>2, PagingRegisters
  <1>3. CASE Head(mail).act = "ingested" /\ Ingested(Head(mail).of)
    <2>1. PICK g : g = Head(mail).of
      OBVIOUS
    <2>2. g \in Session
      BY <1>1, <1>3, <2>1 DEF Messages
    <2> QED
      BY <1>1, <1>3, <2>1, <2>2, PagingIngests
  <1>4. CASE Detach(Head(mail).of) \/ Settle(Head(mail).of)
    <2>1. Given' /\ UNCHANGED <<kept, ring, evicted, reader, handler, flight>> /\ rows' \subseteq rows
      BY <1>1, <1>4 DEF Detach, Settle, ActionFrame, bothVars, busVars, PInv, Numbers, Given,
         restVars, historyVars
    <2> QED
      BY <2>1, Unkept DEF Early
  <1> QED
    BY <1>2, <1>3, <1>4 DEF RunAction

LEMMA PagingElse ==
  ASSUME DInv, DInv', PInv,
         \/ UNCHANGED devtoolsVars \/ Attached \/ SocketDies
         \/ \E q \in Asks : Hear(q) \/ TimeOut(q) \/ HangUp(q)
         \/ \E g \in Session, q \in Asks : Ask(q, g)
         \/ \E next : Click(next)
  PROVE  PInv'
  <1>1. UNCHANGED <<work, kept, ring, evicted, reader, rows, handler, flight>>
    <2>1. CASE UNCHANGED devtoolsVars
      BY <2>1 DEF devtoolsVars, bothVars, busVars, clientVars, netVars, rowVars, restVars, historyVars
    <2>2. CASE Attached \/ SocketDies
      BY <2>2 DEF Attached, SocketDies, bothVars, busVars, clientVars, netVars, rowVars, restVars,
         historyVars
    <2>3. CASE \E q \in Asks : Hear(q) \/ TimeOut(q) \/ HangUp(q)
      BY <2>3 DEF Hear, TimeOut, HangUp, StopWaiting, AskOnly, bothVars, busVars, clientVars,
         netVars, rowVars, restVars, historyVars
    <2>4. CASE \E g \in Session, q \in Asks : Ask(q, g)
      BY <2>4 DEF Ask, AskOnly, bothVars, busVars, clientVars, netVars, rowVars, restVars,
         historyVars
    <2>5. CASE \E next : Click(next)
      BY <2>5 DEF Click, bothVars, busVars, clientVars, netVars, rowVars, historyVars
    <2> QED
      BY <2>1, <2>2, <2>3, <2>4, <2>5
  <1>2. Given'
    BY <1>1 DEF PInv, Numbers, Given
  <1> QED
    BY <1>1, <1>2, Unkept DEF Early

LEMMA PInvInitially == DevtoolsInit => PInv
  <1> SUFFICES ASSUME DevtoolsInit PROVE PInv
    OBVIOUS
  <1>1. Numbers
    BY DEF DevtoolsInit, SignalBusInit, BusInit, Numbers, Given
  <1>2. Past
    BY DEF DevtoolsInit, Past, Session, None
  <1>3. Follows /\ Cursor /\ PagingMissesNothing
    BY DEF DevtoolsInit, Follows, Cursor, PagingMissesNothing
  <1> QED
    BY <1>1, <1>2, <1>3 DEF PInv

LEMMA PInvPreserved == DInv /\ DInv' /\ PInv /\ [DevtoolsNext]_devtoolsVars => PInv'
  <1> SUFFICES ASSUME DInv, DInv', PInv, [DevtoolsNext]_devtoolsVars PROVE PInv'
    OBVIOUS
  <1>1. CASE BusStep \/ EmitEvent
    BY <1>1, PagingBusSteps
  <1>2. CASE SignalStep \/ UseSignals
    BY <1>2, PagingSignalSteps
  <1>3. CASE Dial
    BY <1>3, PagingDials
  <1>4. CASE Disconnect \/ DisconnectMidFlight \/ Refuse
    BY <1>4, PagingLeaves
  <1>5. CASE FlushOnce
    BY <1>5, PagingFlushes
  <1>6. CASE RunAction
    BY <1>6, PagingActionStep
  <1>7. CASE \E g \in Session : Attach(g) \/ Stream(g) \/ HandlerEnds(g) \/ Ingest(g) \/ Reply(g)
    BY <1>7, PagingHandlerSteps
  <1>8. CASE \E g \in Session : Read(g)
    BY <1>8, PagingReads
  <1>9. CASE \/ \E id \in rows : SelectionChanged(id)
             \/ \E paused \in BOOLEAN : PauseChanged(paused)
    <2>1. \E next : Click(next)
      BY <1>9 DEF SelectionChanged, PauseChanged
    <2> QED
      BY <2>1, PagingElse
  <1>10. CASE \/ UNCHANGED devtoolsVars \/ Attached \/ SocketDies
              \/ \E q \in Asks : Hear(q) \/ TimeOut(q) \/ HangUp(q)
              \/ \E g \in Session, q \in Asks : Ask(q, g)
    BY <1>10, PagingElse
  <1> QED
    BY <1>1, <1>2, <1>3, <1>4, <1>5, <1>6, <1>7, <1>8, <1>9, <1>10 DEF DevtoolsNext, Runtime

\* A reader that pages through a ring by its last record misses none that came
\* in order, for any capacity, slack, page size and number of sessions, whatever
\* the ring evicts meanwhile and however the records around it are out of order
\* (retention.ts:113-166, mcpReads.ts:281-308).
THEOREM ReadersMissNothing == DevtoolsSpec => []PagingMissesNothing
  <1>1. PInv => PagingMissesNothing
    BY DEF PInv
  <1>2. DevtoolsSpec => []PInv
    BY PInvInitially, PInvPreserved, DInvHolds, PTL DEF DevtoolsSpec
  <1> QED
    BY <1>1, <1>2, PTL

-----------------------------------------------------------------------------
(* Lists without repetition *)

LEMMA OneMoreMember ==
  ASSUME NEW T, NEW s \in Seq(T), NEW v \in T
  PROVE  /\ Append(s, v) \in Seq(T)
         /\ ToSet(Append(s, v)) = ToSet(s) \cup {v}
         /\ IsInjective(s) /\ v \notin ToSet(s) => IsInjective(Append(s, v))
  <1> DEFINE t == Append(s, v)
             n == Len(s)
  <1>1. /\ t \in Seq(T) /\ n \in Nat /\ DOMAIN s = 1 .. n /\ DOMAIN t = 1 .. n + 1
        /\ t[n + 1] = v /\ \A i \in 1 .. n : t[i] = s[i]
    OBVIOUS
  <1> HIDE DEF t, n
  <1>2. \A i \in 1 .. n + 1 : i \in 1 .. n \/ i = n + 1
    BY <1>1
  <1>3. ToSet(t) = ToSet(s) \cup {v}
    <2>1. \A i \in 1 .. n : i \in 1 .. n + 1
      BY <1>1
    <2>2. n + 1 \in 1 .. n + 1
      BY <1>1
    <2> QED
      BY <1>1, <1>2, <2>1, <2>2 DEF ToSet
  <1>4. ASSUME IsInjective(s), v \notin ToSet(s) PROVE IsInjective(t)
    <2>1. \A i \in 1 .. n : t[i] # v
      BY <1>1, <1>4 DEF ToSet
    <2> QED
      BY <1>1, <1>2, <1>4, <2>1 DEF IsInjective
  <1> QED
    BY <1>1, <1>3, <1>4 DEF t

LEMMA OneMemberLess ==
  ASSUME NEW T, NEW s \in Seq(T), s # << >>
  PROVE  /\ Tail(s) \in Seq(T) /\ Head(s) \in T
         /\ ToSet(s) = ToSet(Tail(s)) \cup {Head(s)}
         /\ IsInjective(s) => IsInjective(Tail(s)) /\ Head(s) \notin ToSet(Tail(s))
  <1> DEFINE t == Tail(s)
             n == Len(s)
             v == Head(s)
  <1>1. /\ t \in Seq(T) /\ n \in Nat /\ n > 0 /\ DOMAIN s = 1 .. n /\ DOMAIN t = 1 .. n - 1
        /\ v = s[1] /\ v \in T /\ \A i \in 1 .. n - 1 : t[i] = s[i + 1]
    OBVIOUS
  <1> HIDE DEF t, n, v
  <1>2. \A i \in 1 .. n : i = 1 \/ (i - 1 \in 1 .. n - 1 /\ (i - 1) + 1 = i)
    BY <1>1
  <1>3. \A i \in 1 .. n - 1 : i + 1 \in 1 .. n /\ i + 1 # 1
    BY <1>1
  <1>4. ToSet(s) = ToSet(t) \cup {v}
    <2>1. ASSUME NEW w \in ToSet(s) PROVE w \in ToSet(t) \cup {v}
      <3>1. PICK i \in 1 .. n : w = s[i]
        BY <1>1 DEF ToSet
      <3>2. CASE i = 1
        BY <1>1, <3>1, <3>2
      <3>3. CASE i # 1
        <4>1. i - 1 \in 1 .. n - 1 /\ t[i - 1] = w
          BY <1>1, <1>2, <3>1, <3>3
        <4> QED
          BY <1>1, <4>1 DEF ToSet
      <3> QED
        BY <3>2, <3>3
    <2>2. 1 \in 1 .. n
      BY <1>1
    <2>3. ToSet(t) \cup {v} \subseteq ToSet(s)
      BY <1>1, <1>3, <2>2 DEF ToSet
    <2> QED
      BY <2>1, <2>3
  <1>5. ASSUME IsInjective(s) PROVE IsInjective(t) /\ v \notin ToSet(t)
    <2>1. ASSUME NEW i \in 1 .. n - 1, NEW j \in 1 .. n - 1, t[i] = t[j] PROVE i = j
      <3>1. i + 1 = j + 1
        BY <1>1, <1>3, <1>5, <2>1 DEF IsInjective
      <3> QED
        BY <1>1, <3>1
    <2>2. 1 \in 1 .. n
      BY <1>1
    <2>3. \A i \in 1 .. n - 1 : t[i] # v
      BY <1>1, <1>3, <1>5, <2>2 DEF IsInjective
    <2> QED
      BY <1>1, <2>1, <2>3 DEF IsInjective, ToSet
  <1> QED
    BY <1>1, <1>4, <1>5 DEF t, v

\* One member of a list considered.
Taking(f, list, set, i) ==
  IF i = 0 THEN << >>
  ELSE IF list[i] \in set THEN Append(f[i - 1], list[i])
  ELSE f[i - 1]

LEMMA FilterUnfolds ==
  ASSUME NEW list, NEW set
  PROVE  Filter(list, set) =
           (CHOOSE f : f = [i \in 0 .. Len(list) |-> Taking(f, list, set, i)])[Len(list)]
  BY DEF Filter, Taking

LEMMA TakingExists ==
  ASSUME NEW list, NEW set, NEW n \in Nat
  PROVE  \E f : f = [i \in 0 .. n |-> Taking(f, list, set, i)]
  <1> DEFINE Solves(f, m) == \A i \in 0 .. m : f[i] = Taking(f, list, set, i)
             P == {m \in Nat : \E f : Solves(f, m)}
  <1>1. 0 \in P
    <2> DEFINE f == [i \in {0} |-> << >>]
    <2>1. Solves(f, 0)
      BY DEF Taking
    <2> HIDE DEF f, Solves
    <2> QED
      BY <2>1
  <1>2. ASSUME NEW m \in Nat, m \in P PROVE m + 1 \in P
    <2>1. PICK f : Solves(f, m)
      BY <1>2
    <2> DEFINE g == [i \in 0 .. m + 1 |-> IF i <= m THEN f[i] ELSE Taking(f, list, set, i)]
    <2>2. ASSUME NEW i \in 0 .. m + 1
          PROVE  g[i] = Taking(g, list, set, i)
      <3>1. CASE i = 0
        BY <2>1, <3>1 DEF Taking
      <3>2. CASE i # 0
        <4>1. i - 1 \in 0 .. m /\ i - 1 \in 0 .. m + 1 /\ i - 1 <= m
          BY <3>2
        <4>2. g[i - 1] = f[i - 1]
          BY <4>1
        <4>3. g[i] = Taking(f, list, set, i)
          <5>1. CASE i <= m
            BY <2>1, <5>1
          <5>2. CASE ~(i <= m)
            BY <5>2
          <5> QED
            BY <5>1, <5>2
        <4> HIDE DEF g
        <4> QED
          BY <4>2, <4>3 DEF Taking
      <3> QED
        BY <3>1, <3>2
    <2>3. Solves(g, m + 1)
      BY <2>2
    <2> HIDE DEF g, Solves
    <2>4. \E h : Solves(h, m + 1)
      BY <2>3
    <2> QED
      BY <2>4
  <1>3. n \in P
    <2> HIDE DEF P
    <2> QED
      BY <1>1, <1>2, Induction
  <1>4. PICK f : Solves(f, n)
    BY <1>3
  <1> DEFINE g == [i \in 0 .. n |-> Taking(f, list, set, i)]
  <1>5. \A i \in 0 .. n : g[i] = f[i]
    BY <1>4
  <1>6. ASSUME NEW i \in 0 .. n PROVE Taking(f, list, set, i) = Taking(g, list, set, i)
    <2>1. i # 0 => i - 1 \in 0 .. n
      OBVIOUS
    <2> HIDE DEF g
    <2> QED
      BY <1>5, <2>1 DEF Taking
  <1>7. g = [i \in 0 .. n |-> Taking(g, list, set, i)]
    <2> DEFINE h == [i \in 0 .. n |-> Taking(g, list, set, i)]
    <2>1. \A i \in 0 .. n : g[i] = h[i]
      BY <1>6
    <2> QED
      BY <2>1
  <1> QED
    BY <1>7

LEMMA Filtered ==
  ASSUME NEW T, NEW list \in Seq(T), NEW set
  PROVE  /\ Filter(list, set) \in Seq(T)
         /\ ToSet(Filter(list, set)) = ToSet(list) \cap set
         /\ IsInjective(list) => IsInjective(Filter(list, set))
  <1> DEFINE n == Len(list)
             f == CHOOSE f : f = [i \in 0 .. n |-> Taking(f, list, set, i)]
             Prior(m) == {list[j] : j \in 1 .. m}
             Good(m) == /\ f[m] \in Seq(T)
                        /\ ToSet(f[m]) = Prior(m) \cap set
                        /\ IsInjective(list) => IsInjective(f[m])
             P == {m \in Nat : m <= n => Good(m)}
  <1>1. n \in Nat /\ DOMAIN list = 1 .. n /\ \A i \in 1 .. n : list[i] \in T
    OBVIOUS
  <1>2. Filter(list, set) = f[n]
    BY FilterUnfolds
  <1> HIDE DEF n
  <1>3. f = [i \in 0 .. n |-> Taking(f, list, set, i)]
    BY <1>1, TakingExists
  <1> HIDE DEF f
  <1>4. \A i \in 0 .. n : f[i] = Taking(f, list, set, i)
    BY <1>3
  <1>5. 0 \in P
    <2> DEFINE none == << >>
    <2>1. f[0] = none
      BY <1>1, <1>4 DEF Taking
    <2>2. none \in Seq(T) /\ ToSet(none) = {} /\ IsInjective(none)
      BY DEF ToSet, IsInjective
    <2>3. Prior(0) = {}
      OBVIOUS
    <2> HIDE DEF none, Prior
    <2> QED
      BY <2>1, <2>2, <2>3
  <1>6. ASSUME NEW m \in Nat, m \in P PROVE m + 1 \in P
    <2> SUFFICES ASSUME m + 1 <= n PROVE Good(m + 1)
      OBVIOUS
    <2> DEFINE v == list[m + 1]
    <2>1. m + 1 \in 1 .. n /\ m + 1 \in 0 .. n /\ (m + 1) - 1 = m /\ m + 1 # 0 /\ m <= n /\ v \in T
      BY <1>1
    <2>2. Good(m)
      BY <1>6, <2>1
    <2>3. f[m + 1] = IF v \in set THEN Append(f[m], v) ELSE f[m]
      BY <1>4, <2>1 DEF Taking
    <2>4. Prior(m + 1) = Prior(m) \cup {v}
      <3>1. \A j \in 1 .. m + 1 : j \in 1 .. m \/ j = m + 1
        OBVIOUS
      <3>2. m + 1 \in 1 .. m + 1 /\ \A j \in 1 .. m : j \in 1 .. m + 1
        OBVIOUS
      <3> QED
        BY <3>1, <3>2
    <2>5. IsInjective(list) => v \notin Prior(m)
      <3>1. \A j \in 1 .. m : j \in 1 .. n /\ j # m + 1
        BY <1>1, <2>1
      <3> QED
        BY <1>1, <2>1, <3>1 DEF IsInjective
    <2> HIDE DEF Prior, v
    <2>6. CASE v \in set
      <3>1. /\ Append(f[m], v) \in Seq(T)
            /\ ToSet(Append(f[m], v)) = ToSet(f[m]) \cup {v}
            /\ IsInjective(f[m]) /\ v \notin ToSet(f[m]) => IsInjective(Append(f[m], v))
        BY <2>1, <2>2, OneMoreMember
      <3> QED
        BY <2>2, <2>3, <2>4, <2>5, <2>6, <3>1
    <2>7. CASE v \notin set
      BY <2>2, <2>3, <2>4, <2>7
    <2> QED
      BY <2>6, <2>7
  <1>7. n \in P
    <2> HIDE DEF P
    <2> QED
      BY <1>1, <1>5, <1>6, Induction
  <1>8. Prior(n) = ToSet(list)
    BY <1>1 DEF ToSet
  <1> HIDE DEF Prior
  <1> QED
    BY <1>1, <1>2, <1>7, <1>8

-----------------------------------------------------------------------------
(* Signals: their subscribers and their buffers *)

\* A subscriber is one of the list once, and came before it could be missed.
Subscriptions ==
  /\ signalled \in Seq(Channel)
  /\ subscribers \in Seq(Subscriber) /\ IsInjective(subscribers)
  /\ ToSet(subscribers) \subseteq DOMAIN cameAt
  /\ \A b \in DOMAIN cameAt : cameAt[b] \in 0 .. Len(signalled)

\* Those a publication owes its signal to.
Owed(s) == {b \in ToSet(subscribers) : AcceptsSignal(b, signalled[s]) /\ cameAt[b] < s}

\* A publication under way has run none of its subscribers, or some once and
\* has the others left.
UnderWay(s) ==
  /\ publishing[s] \in [stage : {"emitting", "delivering"}, left : Seq(Subscriber)]
  /\ \/ publishing[s].stage = "emitting" /\ handled[s] = << >>
     \/ /\ publishing[s].stage = "delivering"
        /\ IsInjective(publishing[s].left) /\ IsInjective(handled[s])
        /\ ToSet(publishing[s].left) \cap ToSet(handled[s]) = {}
        /\ Owed(s) \subseteq ToSet(publishing[s].left) \cup ToSet(handled[s])

Over(s) == IsInjective(handled[s]) /\ Owed(s) \subseteq ToSet(handled[s])

Deliveries ==
  /\ DOMAIN publishing \subseteq DOMAIN signalled
  /\ handled \in Seq(Seq(Subscriber)) /\ Len(handled) = Len(signalled)
  /\ \A s \in DOMAIN signalled : IF s \in DOMAIN publishing THEN UnderWay(s) ELSE Over(s)

Increasing(r) == \A i, j \in DOMAIN r : i < j => r[i] < r[j]

OfChannel(c) == {s \in DOMAIN signalled : signalled[s] = c}

\* A buffer of n holds the newest signals of its channel, in their order.
Holds(r, n, all) ==
  /\ r \in Seq(Nat) /\ Increasing(r) /\ Len(r) <= n
  /\ ToSet(r) \subseteq all
  /\ \A s \in all \ ToSet(r) : Len(r) = n /\ \A t \in ToSet(r) : s < t

Buffers ==
  /\ retained \in [Channel -> Seq(Nat)]
  /\ \A c \in Channel :
       IF signalPolicy(c).retention = "none" THEN retained[c] = << >>
       ELSE Holds(retained[c], signalPolicy(c).bufferSize, OfChannel(c))

SInv == Subscriptions /\ Deliveries /\ Buffers

LEMMA PolicyOf ==
  ASSUME NEW c, signalPolicy(c).retention # "none"
  PROVE  signalPolicy(c).bufferSize \in Nat
  <1> DEFINE all == Beside(ChannelPolicies, SignalPolicies)
             p == all[c]
  <1>1. CASE c \in DOMAIN normalizeRuntimeSignalPolicies
    <2>1. /\ DOMAIN normalizeRuntimeSignalPolicies = DOMAIN all
          /\ normalizeRuntimeSignalPolicies[c] = normalizeRuntimeSignalPolicy(p)
      BY <1>1 DEF normalizeRuntimeSignalPolicies
    <2>2. p \in Policy
      BY <1>1, <2>1, SignalAssumption DEF Beside
    <2>3. signalPolicy(c) = normalizeRuntimeSignalPolicy(p)
      BY <1>1, <2>1 DEF signalPolicy
    <2> HIDE DEF p
    <2>4. CASE p = [retention |-> "none"]
      BY <2>3, <2>4 DEF normalizeRuntimeSignalPolicy
    <2>5. CASE p = [retention |-> "bounded"]
      BY <2>3, <2>5, SignalAssumption DEF normalizeRuntimeSignalPolicy
    <2>6. CASE p \in [retention : {"bounded"}, bufferSize : Nat]
      <3>1. "bufferSize" \in DOMAIN p /\ p.bufferSize \in Nat
        BY <2>6
      <3> QED
        BY <2>3, <3>1 DEF normalizeRuntimeSignalPolicy
    <2> QED
      BY <2>2, <2>4, <2>5, <2>6 DEF Policy
  <1>2. CASE c \notin DOMAIN normalizeRuntimeSignalPolicies
    BY <1>2, SignalAssumption DEF signalPolicy
  <1> QED
    BY <1>1, <1>2

\* A buffer takes the next signal and gives up its oldest one if it was full.
LEMMA Buffered ==
  ASSUME NEW r, NEW n \in Nat, NEW all \in SUBSET Nat, NEW s \in Nat,
         Holds(r, n, all), \A t \in all : t < s
  PROVE  Holds(Newest(Append(r, s), n), n, all \cup {s})
  <1> DEFINE t == Append(r, s)
             m == Len(r)
  <1>0. m \in Nat /\ (m < n \/ m = n)
    BY DEF Holds
  <1>1. /\ r \in Seq(Nat) /\ m \in Nat /\ m <= n /\ ToSet(r) \subseteq all
        /\ DOMAIN r = 1 .. m /\ m = Len(r)
    BY DEF Holds
  <1>2. /\ t \in Seq(Nat) /\ Len(t) = m + 1 /\ DOMAIN t = 1 .. m + 1
        /\ t[m + 1] = s /\ \A i \in 1 .. m : t[i] = r[i]
    BY <1>1
  <1>3. ToSet(t) = ToSet(r) \cup {s}
    BY <1>1, OneMoreMember
  <1> HIDE DEF t, m
  <1>4. Increasing(t)
    <2> SUFFICES ASSUME NEW i \in 1 .. m + 1, NEW j \in 1 .. m + 1, i < j PROVE t[i] < t[j]
      BY <1>2 DEF Increasing
    <2>1. i \in 1 .. m /\ t[i] = r[i]
      BY <1>1, <1>2
    <2>2. CASE j = m + 1
      <3>1. r[i] \in ToSet(r)
        BY <1>1, <2>1 DEF ToSet
      <3> QED
        BY <1>1, <1>2, <2>1, <2>2, <3>1
    <2>3. CASE j # m + 1
      <3>1. j \in 1 .. m /\ t[j] = r[j]
        <4>1. j \in 1 .. m
          BY <1>0, <2>3
        <4> QED
          BY <1>2, <4>1
      <3>2. Increasing(r) /\ DOMAIN r = 1 .. m
        BY <1>1 DEF Holds
      <3> QED
        BY <2>1, <3>1, <3>2 DEF Increasing
    <2> QED
      BY <2>2, <2>3
  <1>5. CASE m < n
    <2>1. Newest(t, n) = t
      BY <1>1, <1>2, <1>5 DEF Newest
    <2>2. all \ ToSet(r) = {}
      <3>1. \A x \in all \ ToSet(r) : m = n
        BY <1>1 DEF Holds
      <3>2. m # n
        BY <1>0, <1>5
      <3> QED
        BY <3>1, <3>2
    <2>3. Len(t) <= n
      BY <1>1, <1>2, <1>5
    <2>4. (all \cup {s}) \ ToSet(t) = {}
      BY <1>3, <2>2
    <2>5. Holds(t, n, all \cup {s})
      BY <1>1, <1>2, <1>3, <1>4, <2>3, <2>4 DEF Holds
    <2> QED
      BY <2>1, <2>5 DEF t
  <1>6. CASE m = n
    <2> DEFINE u == Tail(t)
               v == Head(t)
    <2>1. Newest(t, n) = u
      <3>1. Len(t) > n /\ Len(t) - n + 1 = 2
        BY <1>1, <1>2, <1>6
      <3>2. SubSeq(t, 2, Len(t)) = Tail(t)
        BY <1>2
      <3> QED
        BY <3>1, <3>2 DEF Newest
    <2>2. /\ u \in Seq(Nat) /\ Len(u) = n /\ DOMAIN u = 1 .. n /\ v = t[1] /\ v \in Nat
          /\ \A i \in 1 .. n : u[i] = t[i + 1]
      BY <1>1, <1>2, <1>6
    <2>3. ToSet(t) = ToSet(u) \cup {v}
      <3>1. t # << >>
        BY <1>1, <1>2
      <3> QED
        BY <1>2, <3>1, OneMemberLess
    <2> HIDE DEF u, v
    <2>4. Increasing(u)
      <3> SUFFICES ASSUME NEW i \in 1 .. n, NEW j \in 1 .. n, i < j PROVE u[i] < u[j]
        BY <2>2 DEF Increasing
      <3>1. i + 1 \in 1 .. m + 1 /\ j + 1 \in 1 .. m + 1 /\ i + 1 < j + 1
        BY <1>6
      <3> QED
        BY <1>2, <1>4, <2>2, <3>1 DEF Increasing
    <2>5. \A w \in ToSet(u) : v < w
      <3> SUFFICES ASSUME NEW i \in 1 .. n PROVE v < u[i]
        BY <2>2 DEF ToSet
      <3>1. i + 1 \in 1 .. m + 1 /\ 1 \in 1 .. m + 1 /\ 1 < i + 1
        BY <1>6
      <3> QED
        BY <1>2, <1>4, <2>2, <3>1 DEF Increasing
    <2>6. ASSUME NEW x \in (all \cup {s}) \ ToSet(u), NEW w \in ToSet(u) PROVE x < w
      <3>1. x = v \/ x \notin ToSet(t)
        BY <2>3
      <3>2. CASE x = v
        BY <2>5, <3>2
      <3>3. CASE x \notin ToSet(t)
        <4>1. x \in all \ ToSet(r)
          BY <1>3, <3>3
        <4>2. w = s \/ w \in ToSet(r)
          BY <1>3, <2>3
        <4> QED
          BY <4>1, <4>2 DEF Holds
      <3> QED
        BY <3>1, <3>2, <3>3
    <2>7. ToSet(u) \subseteq all \cup {s}
      BY <1>1, <1>3, <2>3
    <2>8. Holds(u, n, all \cup {s})
      BY <2>2, <2>4, <2>6, <2>7 DEF Holds
    <2> QED
      BY <2>1, <2>8 DEF t
  <1> QED
    BY <1>0, <1>5, <1>6

\* As many signals are newer than a kept one as the buffer has room for.
LEMMA RoomForLater ==
  ASSUME NEW r, NEW n \in Nat, NEW all, NEW m \in Nat, all \subseteq 1 .. m,
         Holds(r, n, all), NEW s \in all
  PROVE  s \in ToSet(r) <=> Cardinality({t \in all : t > s}) < n
  <1> DEFINE Later == {t \in all : t > s}
             k == Len(r)
             Kept == ToSet(r)
  <1>1. /\ r \in Seq(Nat) /\ k \in Nat /\ k <= n /\ DOMAIN r = 1 .. k /\ Kept \subseteq all
        /\ k = Len(r)
    BY DEF Holds
  <1> HIDE DEF k
  <1>2. all \subseteq Nat /\ s \in Nat
    OBVIOUS
  <1>3. IsFiniteSet(Kept) /\ Cardinality(Kept) = k
    <2>1. \A i, j \in 1 .. k : r[i] = r[j] => i = j
      <3> SUFFICES ASSUME NEW i \in 1 .. k, NEW j \in 1 .. k, r[i] = r[j], i # j PROVE FALSE
        OBVIOUS
      <3>1. i < j \/ j < i
        OBVIOUS
      <3>2. r[i] < r[j] \/ r[j] < r[i]
        BY <1>1, <3>1 DEF Holds, Increasing
      <3>3. r[i] \in Nat /\ r[j] \in Nat
        BY <1>1
      <3> QED
        BY <3>2, <3>3
    <2>2. r \in [1 .. k -> Kept]
      BY <1>1 DEF ToSet
    <2>3. r \in Surjection(1 .. k, Kept) /\ r \in Injection(1 .. k, Kept)
      BY <1>1, <2>1, <2>2 DEF Surjection, Injection, IsInjective, ToSet
    <2>4. IsFiniteSet(1 .. k) /\ Cardinality(1 .. k) = k
      <3>1. 1 \in Int /\ k \in Int /\ (IF 1 > k THEN 0 ELSE k - 1 + 1) = k
        BY <1>1
      <3> QED
        BY <3>1, FS_Interval
    <2> HIDE DEF Kept
    <2> QED
      BY <2>3, <2>4, FS_Surjection
  <1>4. IsFiniteSet(Later)
    <2>1. IsFiniteSet(1 .. m)
      BY FS_Interval
    <2>2. Later \in SUBSET (1 .. m)
      OBVIOUS
    <2> QED
      BY <2>1, <2>2, FS_Subset
  <1>5. Cardinality(Later) \in Nat
    BY <1>4, FS_CardinalityType
  <1>6. CASE s \in Kept
    <2>1. Later \subseteq Kept \ {s}
      <3>1. ASSUME NEW t \in all, t > s, t \notin Kept PROVE FALSE
        <4>1. t < s
          BY <1>6, <3>1 DEF Holds
        <4> QED
          BY <1>2, <3>1, <4>1
      <3>2. \A t \in Later : t \in all /\ t > s /\ t # s
        BY <1>2
      <3> HIDE DEF Kept, Later
      <3> QED
        BY <3>1, <3>2
    <2>2. IsFiniteSet(Kept \ {s}) /\ Cardinality(Kept \ {s}) = k - 1
      BY <1>3, <1>6, FS_RemoveElement
    <2>3. Cardinality(Later) <= k - 1
      <3> HIDE DEF Later, Kept
      <3> QED
        BY <2>1, <2>2, FS_Subset
    <2> QED
      BY <1>1, <1>5, <1>6, <2>3
  <1>7. CASE s \notin Kept
    <2>1. k = n /\ Kept \subseteq Later
      BY <1>1, <1>2, <1>7 DEF Holds
    <2>2. k <= Cardinality(Later)
      <3> HIDE DEF Later, Kept
      <3> QED
        BY <1>3, <1>4, <2>1, FS_Subset
    <2> QED
      BY <1>1, <1>5, <1>7, <2>1, <2>2
  <1> QED
    BY <1>6, <1>7

LEMMA SInvMeansHandled == SInv => PublishedMeansHandled
  <1> SUFFICES ASSUME SInv PROVE PublishedMeansHandled
    OBVIOUS
  <1> DEFINE Later(s) == {t \in DOMAIN signalled : t > s /\ signalled[t] = signalled[s]}
             Kept(s) == /\ signalPolicy(signalled[s]).retention # "none"
                        /\ Cardinality(Later(s)) < signalPolicy(signalled[s]).bufferSize
             answered == UNION {ToSet(retained[c]) : c \in Channel}
             newest == {s \in DOMAIN signalled : Kept(s)}
  <1>1. \A s \in DOMAIN signalled \ DOMAIN publishing :
          /\ IsInjective(handled[s])
          /\ \A b \in ToSet(subscribers) :
               AcceptsSignal(b, signalled[s]) /\ cameAt[b] < s => b \in ToSet(handled[s])
    BY DEF SInv, Deliveries, Over, Owed
  <1>2. \A s \in DOMAIN signalled : signalled[s] \in Channel
    BY DEF SInv, Subscriptions
  <1>3. ASSUME NEW c \in Channel
        PROVE  \A s : s \in ToSet(retained[c]) <=> s \in OfChannel(c) /\ Kept(s)
    <2>1. CASE signalPolicy(c).retention = "none"
      <3>1. retained[c] = << >>
        BY <2>1 DEF SInv, Buffers
      <3>2. ToSet(retained[c]) = {}
        BY <3>1 DEF ToSet
      <3> QED
        BY <2>1, <3>2 DEF OfChannel
    <2>2. CASE signalPolicy(c).retention # "none"
      <3> DEFINE n == signalPolicy(c).bufferSize
      <3>1. n \in Nat /\ Holds(retained[c], n, OfChannel(c))
        BY <2>2, PolicyOf DEF SInv, Buffers
      <3>2. Len(signalled) \in Nat /\ OfChannel(c) \subseteq 1 .. Len(signalled)
        BY DEF SInv, Subscriptions, OfChannel
      <3>3. ASSUME NEW s \in OfChannel(c) PROVE s \in ToSet(retained[c]) <=> Kept(s)
        <4>1. signalled[s] = c /\ Later(s) = {t \in OfChannel(c) : t > s}
          BY DEF OfChannel
        <4>2. s \in ToSet(retained[c]) <=> Cardinality({t \in OfChannel(c) : t > s}) < n
          <5> HIDE DEF n
          <5> QED
            BY <3>1, <3>2, RoomForLater
        <4> HIDE DEF Later
        <4> QED
          BY <2>2, <4>1, <4>2
      <3>4. ToSet(retained[c]) \subseteq OfChannel(c)
        BY <3>1 DEF Holds
      <3> HIDE DEF Kept
      <3> QED
        BY <3>3, <3>4
    <2> QED
      BY <2>1, <2>2
  <1>4. answered = newest
    <2>1. ASSUME NEW s \in answered PROVE s \in newest
      <3> HIDE DEF Kept
      <3>1. PICK c \in Channel : s \in ToSet(retained[c])
        BY <2>1
      <3> QED
        BY <1>3, <3>1 DEF OfChannel
    <2>2. ASSUME NEW s \in newest PROVE s \in answered
      <3> HIDE DEF Kept
      <3>1. s \in ToSet(retained[signalled[s]])
        BY <1>2, <1>3, <2>2 DEF OfChannel
      <3> QED
        BY <1>2, <3>1
    <2> QED
      BY <2>1, <2>2
  <1>5. \A limit \in 0 .. Len(signalled) :
          QueryRecords(limit) = Newest(SetToSortSeq(newest, <), limit)
    <2> HIDE DEF newest
    <2> QED
      BY <1>4 DEF QueryRecords
  <1> QED
    BY <1>1, <1>5 DEF PublishedMeansHandled

\* One publication goes on, the others stay where they are.
LEMMA OneGoesOn ==
  ASSUME SInv, NEW s \in DOMAIN signalled,
         UNCHANGED <<signalled, retained, subscribers, cameAt>>,
         handled' \in Seq(Seq(Subscriber)), Len(handled') = Len(handled),
         DOMAIN publishing' \subseteq DOMAIN publishing,
         \A t \in DOMAIN signalled \ {s} :
           /\ t \in DOMAIN publishing => t \in DOMAIN publishing' /\ publishing'[t] = publishing[t]
           /\ handled'[t] = handled[t],
         IF s \in DOMAIN publishing' THEN UnderWay(s)' ELSE Over(s)'
  PROVE  SInv'
  <1>1. Subscriptions' /\ Buffers'
    BY DEF SInv, Subscriptions, Buffers, OfChannel
  <1>2. ASSUME NEW t \in DOMAIN signalled'
        PROVE  IF t \in DOMAIN publishing' THEN UnderWay(t)' ELSE Over(t)'
    <2>1. CASE t = s
      BY <2>1
    <2>2. CASE t # s
      <3>1. Owed(t)' = Owed(t) /\ handled'[t] = handled[t]
        BY <1>2, <2>2 DEF Owed
      <3>2. IF t \in DOMAIN publishing THEN UnderWay(t) ELSE Over(t)
        BY <1>2 DEF SInv, Deliveries
      <3>3. CASE t \in DOMAIN publishing'
        <4>1. t \in DOMAIN publishing /\ publishing'[t] = publishing[t]
          BY <1>2, <2>2, <3>3
        <4> QED
          BY <3>1, <3>2, <3>3, <4>1 DEF UnderWay
      <3>4. CASE t \notin DOMAIN publishing'
        <4>1. t \notin DOMAIN publishing
          BY <1>2, <2>2, <3>4
        <4> QED
          BY <3>1, <3>2, <3>4, <4>1 DEF Over
      <3> QED
        BY <3>3, <3>4
    <2> QED
      BY <2>1, <2>2
  <1>3. Deliveries'
    BY <1>2 DEF SInv, Deliveries
  <1> QED
    BY <1>1, <1>3 DEF SInv

LEMMA DeliverStep ==
  ASSUME SInv, NEW s \in DOMAIN publishing, Deliver(s)
  PROVE  SInv'
  <1> DEFINE taking == {b \in Subscriber : AcceptsSignal(b, signalled[s])}
             left == Filter(subscribers, taking)
  <1>1. s \in DOMAIN signalled /\ publishing[s].stage = "emitting"
    BY DEF Deliver, At, SInv, Deliveries
  <1>2. UnderWay(s)
    BY <1>1 DEF SInv, Deliveries
  <1>3. /\ left \in Seq(Subscriber) /\ IsInjective(left)
        /\ ToSet(left) = ToSet(subscribers) \cap taking
    BY Filtered DEF SInv, Subscriptions
  <1>4. /\ publishing' = [publishing EXCEPT ![s] = [stage |-> "delivering", left |-> left]]
        /\ UNCHANGED <<signalled, retained, subscribers, cameAt, handled>>
    BY DEF Deliver
  <1>5. ToSet(subscribers) \subseteq Subscriber
    BY DEF SInv, Subscriptions, ToSet
  <1>6. Owed(s) \subseteq ToSet(left)
    BY <1>3, <1>5 DEF Owed
  <1> HIDE DEF left
  <1>7. /\ publishing'[s].stage = "delivering" /\ publishing'[s].left = left
        /\ publishing'[s] \in [stage : {"emitting", "delivering"}, left : Seq(Subscriber)]
        /\ s \in DOMAIN publishing'
    BY <1>3, <1>4
  <1>8. handled[s] = << >>
    BY <1>1, <1>2 DEF UnderWay
  <1>9. IsInjective(handled[s]) /\ ToSet(handled[s]) = {}
    BY <1>8 DEF IsInjective, ToSet
  <1>10. Owed(s)' = Owed(s)
    BY <1>4 DEF Owed
  <1>11. UnderWay(s)'
    BY <1>3, <1>4, <1>6, <1>7, <1>9, <1>10 DEF UnderWay
  <1>12. handled' \in Seq(Seq(Subscriber)) /\ Len(handled') = Len(handled)
    BY <1>4 DEF SInv, Deliveries
  <1> QED
    BY <1>1, <1>4, <1>7, <1>11, <1>12, OneGoesOn

LEMMA NextSubscriberStep ==
  ASSUME SInv, NEW s \in DOMAIN publishing, NextSubscriber(s)
  PROVE  SInv'
  <1> DEFINE left == publishing[s].left
             ran == handled[s]
             b == Head(left)
             n == Len(handled)
  <1>1. s \in DOMAIN signalled /\ publishing[s].stage = "delivering" /\ left # << >>
    BY DEF NextSubscriber, At, SInv, Deliveries
  <1>2. UnderWay(s)
    BY <1>1 DEF SInv, Deliveries
  <1>3. /\ left \in Seq(Subscriber) /\ IsInjective(left) /\ IsInjective(ran)
        /\ ToSet(left) \cap ToSet(ran) = {} /\ Owed(s) \subseteq ToSet(left) \cup ToSet(ran)
    BY <1>1, <1>2 DEF UnderWay
  <1>4. /\ publishing' = [publishing EXCEPT ![s].left = Tail(left)]
        /\ handled' = [handled EXCEPT ![s] = Append(ran, b)]
        /\ UNCHANGED <<signalled, retained, subscribers, cameAt>>
    BY DEF NextSubscriber
  <1>5. handled \in Seq(Seq(Subscriber)) /\ n \in Nat /\ DOMAIN handled = 1 .. n /\ s \in 1 .. n
    <2>1. DOMAIN signalled = 1 .. Len(signalled)
      BY DEF SInv, Subscriptions
    <2> QED
      BY <1>1, <2>1 DEF SInv, Deliveries
  <1>6. ran \in Seq(Subscriber)
    BY <1>5
  <1>7. /\ Tail(left) \in Seq(Subscriber) /\ b \in Subscriber
        /\ ToSet(left) = ToSet(Tail(left)) \cup {b}
        /\ IsInjective(Tail(left)) /\ b \notin ToSet(Tail(left))
    BY <1>1, <1>3, OneMemberLess
  <1>8. /\ publishing'[s].stage = "delivering" /\ publishing'[s].left = Tail(left)
        /\ publishing'[s] \in [stage : {"emitting", "delivering"}, left : Seq(Subscriber)]
        /\ s \in DOMAIN publishing'
    <2>1. publishing'[s] = [publishing[s] EXCEPT !.left = Tail(left)]
      BY <1>4
    <2>4. publishing'[s] \in [stage : {"emitting", "delivering"}, left : Seq(Subscriber)]
      BY <1>2, <1>7, <2>1 DEF UnderWay
    <2>2. publishing'[s].stage = publishing[s].stage
      BY <2>1
    <2>3. "left" \in DOMAIN publishing[s]
      BY <1>2 DEF UnderWay
    <2> QED
      BY <1>1, <1>4, <2>1, <2>2, <2>3, <2>4
  <1> HIDE DEF left, ran, b, n
  <1>9. /\ Append(ran, b) \in Seq(Subscriber)
        /\ ToSet(Append(ran, b)) = ToSet(ran) \cup {b}
        /\ IsInjective(Append(ran, b))
    <2>1. b \notin ToSet(ran)
      BY <1>3, <1>7
    <2> QED
      BY <1>3, <1>6, <1>7, <2>1, OneMoreMember
  <1>10. /\ handled'[s] = Append(ran, b)
         /\ handled' \in Seq(Seq(Subscriber)) /\ Len(handled') = n
         /\ \A t \in 1 .. n : t # s => handled'[t] = handled[t]
    BY <1>4, <1>5, <1>9 DEF n
  <1>11. Owed(s)' = Owed(s)
    BY <1>4 DEF Owed
  <1>12. UnderWay(s)'
    BY <1>3, <1>7, <1>8, <1>9, <1>10, <1>11 DEF UnderWay
  <1>13. /\ DOMAIN publishing' = DOMAIN publishing
         /\ \A t \in DOMAIN publishing : t # s => publishing'[t] = publishing[t]
    BY <1>4
  <1>14. DOMAIN signalled = 1 .. n
    BY <1>5 DEF SInv, Subscriptions, Deliveries, n
  <1> QED
    BY <1>1, <1>4, <1>8, <1>10, <1>12, <1>13, <1>14, OneGoesOn DEF n

LEMMA PublishedStep ==
  ASSUME SInv, NEW s \in DOMAIN publishing, Published(s)
  PROVE  SInv'
  <1>1. s \in DOMAIN signalled /\ publishing[s].stage = "delivering" /\ publishing[s].left = << >>
    BY DEF Published, At, SInv, Deliveries
  <1>2. UnderWay(s)
    BY <1>1 DEF SInv, Deliveries
  <1>3. ToSet(publishing[s].left) = {}
    BY <1>1 DEF ToSet
  <1>4. Over(s)
    BY <1>1, <1>2, <1>3 DEF UnderWay, Over
  <1>5. /\ publishing' = [t \in DOMAIN publishing \ {s} |-> publishing[t]]
        /\ UNCHANGED <<signalled, retained, subscribers, cameAt, handled>>
    BY DEF Published, Restrict
  <1>6. s \notin DOMAIN publishing' /\ Over(s)'
    BY <1>4, <1>5 DEF Over, Owed
  <1>7. handled' \in Seq(Seq(Subscriber)) /\ Len(handled') = Len(handled)
    BY <1>5 DEF SInv, Deliveries
  <1> QED
    BY <1>1, <1>5, <1>6, <1>7, OneGoesOn

\* Subscribers come and go: nobody is owed more than before.
LEMMA SubscriptionSteps ==
  ASSUME SInv, NEW b \in Subscriber, Subscribe(b) \/ Unsubscribe(b)
  PROVE  SInv'
  <1>1. UNCHANGED <<signalled, retained, publishing, handled>>
    BY DEF Subscribe, Unsubscribe
  <1>2. Subscriptions' /\ \A s \in DOMAIN signalled : Owed(s)' \subseteq Owed(s)
    <2>1. CASE Subscribe(b)
      <3>1. /\ subscribers' = Append(subscribers, b) /\ b \notin ToSet(subscribers)
            /\ cameAt' = Beside(cameAt, [other \in {b} |-> Len(signalled)])
        BY <2>1 DEF Subscribe, SInv, Subscriptions
      <3>2. /\ subscribers' \in Seq(Subscriber) /\ IsInjective(subscribers')
            /\ ToSet(subscribers') = ToSet(subscribers) \cup {b}
        BY <3>1, OneMoreMember DEF SInv, Subscriptions
      <3>3. /\ DOMAIN cameAt' = DOMAIN cameAt \cup {b} /\ cameAt'[b] = Len(signalled)
            /\ \A c \in DOMAIN cameAt : cameAt'[c] = cameAt[c]
        BY <2>1, <3>1 DEF Beside, Subscribe
      <3>4. Len(signalled) \in Nat /\ DOMAIN signalled = 1 .. Len(signalled)
        BY DEF SInv, Subscriptions
      <3>5. Subscriptions'
        BY <1>1, <3>2, <3>3, <3>4 DEF SInv, Subscriptions
      <3>6. ASSUME NEW s \in DOMAIN signalled, NEW c \in Owed(s)' PROVE c \in Owed(s)
        <4>1. c \in ToSet(subscribers') /\ AcceptsSignal(c, signalled[s]) /\ cameAt'[c] < s
          BY <1>1, <3>6 DEF Owed, AcceptsSignal
        <4>2. c # b
          BY <3>3, <3>4, <4>1
        <4>3. c \in ToSet(subscribers) /\ c \in DOMAIN cameAt
          BY <3>2, <4>1, <4>2 DEF SInv, Subscriptions
        <4> QED
          BY <3>3, <4>1, <4>3 DEF Owed
      <3> QED
        BY <3>5, <3>6
    <2>2. CASE Unsubscribe(b)
      <3>1. subscribers' = Filter(subscribers, Subscriber \ {b}) /\ cameAt' = cameAt
        BY <2>2 DEF Unsubscribe
      <3>2. /\ subscribers' \in Seq(Subscriber) /\ IsInjective(subscribers')
            /\ ToSet(subscribers') \subseteq ToSet(subscribers)
        BY <3>1, Filtered DEF SInv, Subscriptions
      <3> QED
        BY <1>1, <3>1, <3>2 DEF SInv, Subscriptions, Owed, AcceptsSignal
    <2> QED
      BY <2>1, <2>2
  <1>3. Buffers'
    BY <1>1 DEF SInv, Buffers, OfChannel
  <1>4. Deliveries'
    <2>1. ASSUME NEW s \in DOMAIN signalled
          PROVE  IF s \in DOMAIN publishing THEN UnderWay(s)' ELSE Over(s)'
      <3>1. IF s \in DOMAIN publishing THEN UnderWay(s) ELSE Over(s)
        BY DEF SInv, Deliveries
      <3>2. Owed(s)' \subseteq Owed(s)
        BY <1>2
      <3> QED
        BY <1>1, <3>1, <3>2 DEF UnderWay, Over
    <2> QED
      BY <1>1, <2>1 DEF SInv, Deliveries
  <1> QED
    BY <1>2, <1>3, <1>4 DEF SInv

LEMMA PublishStep ==
  ASSUME SInv, NEW c \in Channel, PublishSignal(c)
  PROVE  SInv'
  <1>0. Len(signalled) \in Nat
    BY DEF SInv, Subscriptions
  <1> PICK m \in Nat, s \in Nat : m = Len(signalled) /\ s = m + 1
    BY <1>0
  <1> DEFINE news == [stage |-> "emitting", left |-> << >>]
  <1>1. /\ signalled \in Seq(Channel) /\ m \in Nat /\ DOMAIN signalled = 1 .. m
        /\ handled \in Seq(Seq(Subscriber)) /\ Len(handled) = m
        /\ DOMAIN publishing \subseteq 1 .. m
    BY DEF SInv, Subscriptions, Deliveries
  <1>2. /\ signalled' = Append(signalled, c)
        /\ retained' = Store(c, s)
        /\ publishing' = Beside(publishing, [t \in {s} |-> news])
        /\ handled' = Append(handled, << >>)
        /\ UNCHANGED <<subscribers, cameAt>>
    BY DEF PublishSignal
  <1>3. << >> \in Seq(Subscriber)
    OBVIOUS
  <1>4. /\ signalled' \in Seq(Channel) /\ Len(signalled') = s /\ DOMAIN signalled' = 1 .. s
        /\ signalled'[s] = c /\ \A t \in 1 .. m : signalled'[t] = signalled[t]
    BY <1>1, <1>2
  <1>5. /\ handled' \in Seq(Seq(Subscriber)) /\ Len(handled') = s
        /\ handled'[s] = << >> /\ \A t \in 1 .. m : handled'[t] = handled[t]
    BY <1>1, <1>2, <1>3
  <1>6. s \notin 1 .. m /\ s \in 1 .. s /\ \A t \in 1 .. s : t = s \/ t \in 1 .. m
    BY <1>1
  <1>7. /\ DOMAIN publishing' = DOMAIN publishing \cup {s}
        /\ publishing'[s] = news
        /\ \A t \in DOMAIN publishing : publishing'[t] = publishing[t]
    BY <1>1, <1>2, <1>6 DEF Beside
  <1>8. Subscriptions'
    <2>1. \A b \in DOMAIN cameAt : cameAt[b] \in 0 .. m
      BY DEF SInv, Subscriptions
    <2>2. \A b \in DOMAIN cameAt : cameAt[b] \in 0 .. s
      BY <1>1, <2>1
    <2> QED
      BY <1>2, <1>4, <2>2 DEF SInv, Subscriptions
  <1>9. Deliveries'
    <2>1. UnderWay(s)'
      <3>1. publishing'[s] \in [stage : {"emitting", "delivering"}, left : Seq(Subscriber)]
        BY <1>3, <1>7
      <3>2. publishing'[s].stage = "emitting" /\ handled'[s] = << >>
        BY <1>5, <1>7
      <3> QED
        BY <3>1, <3>2 DEF UnderWay
    <2>2. ASSUME NEW t \in 1 .. m
          PROVE  IF t \in DOMAIN publishing' THEN UnderWay(t)' ELSE Over(t)'
      <3>1. IF t \in DOMAIN publishing THEN UnderWay(t) ELSE Over(t)
        BY <1>1 DEF SInv, Deliveries
      <3>2. t \in DOMAIN publishing' <=> t \in DOMAIN publishing
        BY <1>6, <1>7
      <3>3. Owed(t)' = Owed(t) /\ handled'[t] = handled[t]
        BY <1>2, <1>4, <1>5 DEF Owed, AcceptsSignal
      <3>4. CASE t \in DOMAIN publishing
        <4>1. publishing'[t] = publishing[t]
          BY <1>7, <3>4
        <4> QED
          BY <3>1, <3>2, <3>3, <3>4, <4>1 DEF UnderWay
      <3>5. CASE t \notin DOMAIN publishing
        BY <3>1, <3>2, <3>3, <3>5 DEF Over
      <3> QED
        BY <3>4, <3>5
    <2>3. DOMAIN publishing' \subseteq 1 .. s
      BY <1>1, <1>6, <1>7
    <2> QED
      <3>1. \A t \in 1 .. s : IF t \in DOMAIN publishing' THEN UnderWay(t)' ELSE Over(t)'
        BY <1>6, <1>7, <2>1, <2>2
      <3> QED
        BY <1>4, <1>5, <2>3, <3>1 DEF Deliveries
  <1>10. Buffers'
    <2>1. \A d \in Channel : OfChannel(d)' = IF d = c THEN OfChannel(d) \cup {s} ELSE OfChannel(d)
      <3> SUFFICES ASSUME NEW d \in Channel
                   PROVE  OfChannel(d)' = IF d = c THEN OfChannel(d) \cup {s} ELSE OfChannel(d)
        OBVIOUS
      <3>1. OfChannel(d) = {t \in 1 .. m : signalled[t] = d}
        BY <1>1 DEF OfChannel
      <3>2. OfChannel(d)' = {t \in 1 .. s : signalled'[t] = d}
        BY <1>4 DEF OfChannel
      <3>3. 1 .. s = (1 .. m) \cup {s}
        BY <1>1
      <3> QED
        BY <1>4, <1>6, <3>1, <3>2, <3>3
    <2>2. CASE signalPolicy(c).retention = "none"
      <3>1. retained' = retained
        BY <1>2, <2>2 DEF Store
      <3>2. ASSUME NEW d \in Channel
            PROVE  IF signalPolicy(d).retention = "none" THEN retained[d] = << >>
                   ELSE Holds(retained[d], signalPolicy(d).bufferSize, OfChannel(d)')
        BY <2>1, <2>2 DEF SInv, Buffers
      <3> QED
        BY <3>1, <3>2 DEF SInv, Buffers
    <2>3. CASE signalPolicy(c).retention # "none"
      <3> DEFINE n == signalPolicy(c).bufferSize
                 r == Newest(Append(retained[c], s), n)
      <3>1. n \in Nat /\ Holds(retained[c], n, OfChannel(c))
        BY <2>3, PolicyOf DEF SInv, Buffers
      <3>2. retained' = [retained EXCEPT ![c] = r] /\ retained \in [Channel -> Seq(Nat)]
        BY <1>2, <2>3 DEF Store, SInv, Buffers
      <3>3. Holds(r, n, OfChannel(c) \cup {s})
        <4>1. OfChannel(c) \in SUBSET Nat /\ s \in Nat /\ \A t \in OfChannel(c) : t < s
          BY <1>1 DEF OfChannel
        <4> HIDE DEF n
        <4> QED
          BY <3>1, <4>1, Buffered
      <3>4. r \in Seq(Nat)
        BY <3>3 DEF Holds
      <3> HIDE DEF r
      <3>5. ASSUME NEW d \in Channel
            PROVE  IF signalPolicy(d).retention = "none" THEN retained'[d] = << >>
                   ELSE Holds(retained'[d], signalPolicy(d).bufferSize, OfChannel(d)')
        <4>1. CASE d = c
          BY <2>1, <2>3, <3>2, <3>3, <4>1
        <4>2. CASE d # c
          BY <2>1, <3>2, <4>2 DEF SInv, Buffers
        <4> QED
          BY <4>1, <4>2
      <3> QED
        BY <3>2, <3>4, <3>5 DEF Buffers
    <2> QED
      BY <2>2, <2>3
  <1> QED
    BY <1>8, <1>9, <1>10 DEF SInv

LEMMA SInvInitially == DevtoolsInit => SInv
  <1> SUFFICES ASSUME DevtoolsInit PROVE SInv
    OBVIOUS
  <1> DEFINE none == << >>
  <1>1. /\ none \in Seq(Channel) /\ none \in Seq(Seq(Subscriber)) /\ none \in Seq(Nat)
        /\ Len(none) = 0 /\ DOMAIN none = {} /\ ToSet(none) = {} /\ Increasing(none)
    BY DEF ToSet, Increasing
  <1>2. /\ signalled = none /\ retained = [c \in Channel |-> none] /\ subscribers = Configured
        /\ cameAt = [b \in ToSet(Configured) |-> 0] /\ publishing = none /\ handled = none
    BY DEF DevtoolsInit, SignalBusInit
  <1> HIDE DEF none
  <1>3. Subscriptions
    BY <1>1, <1>2, SignalAssumption DEF Subscriptions
  <1>4. Deliveries
    BY <1>1, <1>2 DEF Deliveries
  <1>5. Buffers
    <2>1. ASSUME NEW c \in Channel, signalPolicy(c).retention # "none"
          PROVE  Holds(none, signalPolicy(c).bufferSize, OfChannel(c))
      <3> DEFINE n == signalPolicy(c).bufferSize
      <3>1. n \in Nat
        BY <2>1, PolicyOf
      <3>2. OfChannel(c) = {}
        BY <1>1, <1>2 DEF OfChannel
      <3>3. Holds(none, n, OfChannel(c))
        <4> HIDE DEF n
        <4>1. Len(none) <= n
          BY <1>1, <3>1
        <4> QED
          BY <1>1, <3>2, <4>1 DEF Holds
      <3> QED
        BY <3>3
    <2>2. retained \in [Channel -> Seq(Nat)] /\ \A c \in Channel : retained[c] = none
      BY <1>1, <1>2
    <2>3. none = << >>
      BY DEF none
    <2> QED
      BY <2>1, <2>2, <2>3 DEF Buffers
  <1> QED
    BY <1>3, <1>4, <1>5 DEF SInv

LEMMA SInvPreserved == DInv /\ SInv /\ [DevtoolsNext]_devtoolsVars => SInv'
  <1> SUFFICES ASSUME DInv, SInv, [DevtoolsNext]_devtoolsVars PROVE SInv'
    OBVIOUS
  <1>1. CASE SignalStep
    <2>1. PICK s \in DOMAIN publishing :
            Deliver(s) \/ NextSubscriber(s) \/ Published(s)
      BY <1>1 DEF SignalStep, Handled, SubscriberFails
    <2> QED
      BY <2>1, DeliverStep, NextSubscriberStep, PublishedStep
  <1>2. CASE UseSignals
    <2>1. plan.guests \subseteq Subscriber
      BY DevtoolsAssumption DEF DInv, ClientTypes
    <2>2. \/ \E c \in Channel : PublishSignal(c)
          \/ \E b \in plan.guests : Subscribe(b) \/ Unsubscribe(b)
      BY <1>2 DEF UseSignals
    <2> QED
      BY <2>1, <2>2, PublishStep, SubscriptionSteps
  <1>3. CASE UNCHANGED signalVars
    BY <1>3 DEF signalVars, SInv, Subscriptions, Deliveries, UnderWay, Over, Owed, Buffers, OfChannel
  <1>4. CASE BusStep \/ EmitEvent
    <2>1. UNCHANGED signalVars
      BY <1>4 DEF BusStep, NotifyObserver, BusOnly, EmitEvent
    <2> QED
      BY <1>3, <2>1
  <1>5. CASE Dial \/ Disconnect \/ DisconnectMidFlight \/ Refuse
    <2>1. UNCHANGED signalVars
      BY <1>5 DEF Dial, Disconnect, DisconnectMidFlight, Refuse, Leave
    <2> QED
      BY <1>3, <2>1
  <1>6. CASE UNCHANGED devtoolsVars \/ Attached \/ FlushOnce \/ SocketDies
    <2>1. UNCHANGED signalVars
      BY <1>6 DEF devtoolsVars, bothVars, Attached, FlushOnce, SocketDies
    <2> QED
      BY <1>3, <2>1
  <1>7. CASE RunAction \/ \E g \in Session : Attach(g) \/ Stream(g) \/ HandlerEnds(g) \/ Ingest(g) \/ Reply(g)
    <2>1. UNCHANGED signalVars
      BY <1>7 DEF RunAction, ActionFrame, bothVars, Attach, Stream, HandlerEnds, Ingest, Reply, HubOnly
    <2> QED
      BY <1>3, <2>1
  <1>8. CASE \/ \E q \in Asks : Hear(q) \/ TimeOut(q) \/ HangUp(q)
             \/ \E g \in Session, q \in Asks : Ask(q, g)
    <2>1. UNCHANGED signalVars
      BY <1>8 DEF Hear, TimeOut, HangUp, StopWaiting, AskOnly, Ask, bothVars
    <2> QED
      BY <1>3, <2>1
  <1>9. CASE \/ \E g \in Session : Read(g)
             \/ \E id \in rows : SelectionChanged(id)
             \/ \E paused \in BOOLEAN : PauseChanged(paused)
    <2>1. UNCHANGED signalVars
      BY <1>9 DEF Read, SelectionChanged, PauseChanged, Click, bothVars
    <2> QED
      BY <1>3, <2>1
  <1> QED
    BY <1>1, <1>2, <1>4, <1>5, <1>6, <1>7, <1>8, <1>9 DEF DevtoolsNext, Runtime

\* A publication that has returned was handled exactly once by each subscriber
\* of its channel that was there all the while, and a query answers the newest
\* retained signals in order: for any channels, policies, subscribers and number
\* of publications under way, whoever fails, comes or goes (signalBus.ts:30-98,
\* 191-220).
THEOREM SignalsAreHandled == DevtoolsSpec => []PublishedMeansHandled
  <1>1. DevtoolsSpec => []SInv
    BY SInvInitially, SInvPreserved, DInvHolds, PTL DEF DevtoolsSpec
  <1> QED
    BY <1>1, SInvMeansHandled, PTL

-----------------------------------------------------------------------------
(* The dashboard *)

\* The cursor is on a session that has been registered, so that no later
\* registration puts it on a row again.
Watched ==
  /\ board = [selected |-> board.selected, paused |-> board.paused,
              frozen |-> board.frozen, clicks |-> board.clicks]
  /\ board.selected \in Session \cup {None}
  /\ board.selected \in Session => ~Early(board.selected)

BInv == Watched /\ PausedTailIsTheCursors

\* A step that registers nobody but a session whose handler waits for it.
LEMMA CursorStays ==
  ASSUME DInv, DInv', BInv, UNCHANGED board,
         \A g \in Session : Early(g)' => Early(g),
         \A g \in rows' : g \in rows \/ handler[g] = "attaching"
  PROVE  BInv'
  <1>1. rows' \subseteq Session
    BY DEF DInv, HubTypes
  <1>2. Watched'
    BY DEF BInv, Watched
  <1>3. \A g \in Session : handler[g] = "attaching" => Early(g)
    BY DEF Early
  <1>4. PausedTailIsTheCursors'
    BY <1>1, <1>3 DEF BInv, Watched, PausedTailIsTheCursors
  <1> QED
    BY <1>2, <1>4 DEF BInv

LEMMA DashboardClicks ==
  ASSUME DInv, BInv,
         \/ \E id \in rows : SelectionChanged(id)
         \/ \E paused \in BOOLEAN : PauseChanged(paused)
  PROVE  BInv'
  <1>1. UNCHANGED <<rows, handler>> /\ rows \subseteq Session
    <2>1. \E next : Click(next)
      BY DEF SelectionChanged, PauseChanged
    <2> QED
      BY <2>1 DEF Click, netVars, rowVars, DInv, HubTypes
  <1>2. ASSUME NEW id \in rows, SelectionChanged(id)
        PROVE  BInv'
    <2> DEFINE frozen == IF board.paused THEN Selected(id) ELSE board.frozen
    <2>1. board' = [selected |-> id, paused |-> board.paused, frozen |-> frozen,
                    clicks |-> board.clicks + 1]
      <3>1. Click([board EXCEPT !.selected = id,
                                !.frozen = IF board.paused THEN Selected(id) ELSE @])
        BY <1>2 DEF SelectionChanged
      <3> DEFINE named == [board EXCEPT !.selected = id]
      <3>2. named.frozen = board.frozen
        BY DEF BInv, Watched
      <3>3. Click([named EXCEPT !.frozen = frozen])
        BY <3>1, <3>2
      <3> HIDE DEF frozen
      <3> QED
        BY <3>3 DEF Click, BInv, Watched
    <2>3. board.paused => frozen = id
      BY DEF Selected
    <2> HIDE DEF frozen
    <2>2. ~Early(id)
      BY DEF DInv, Handlers, Early
    <2> QED
      BY <1>1, <2>1, <2>2, <2>3 DEF BInv, Watched, PausedTailIsTheCursors, Early
  <1>3. ASSUME NEW paused \in BOOLEAN, PauseChanged(paused)
        PROVE  BInv'
    <2> DEFINE frozen == IF paused THEN Selected(board.selected) ELSE None
    <2>1. Click([board EXCEPT !.paused = paused, !.frozen = frozen])
      BY <1>3 DEF PauseChanged
    <2>2. paused /\ board.selected \in rows => frozen = board.selected
      BY DEF Selected
    <2> HIDE DEF frozen
    <2>3. board' = [selected |-> board.selected, paused |-> paused, frozen |-> frozen,
                    clicks |-> board.clicks + 1]
      BY <2>1 DEF Click, BInv, Watched
    <2> QED
      BY <1>1, <2>2, <2>3 DEF BInv, Watched, PausedTailIsTheCursors, Early
  <1> QED
    BY <1>2, <1>3

LEMMA BInvInitially == DevtoolsInit => BInv
  BY DEF DevtoolsInit, BInv, Watched, PausedTailIsTheCursors, Session, None

LEMMA BInvPreserved == DInv /\ DInv' /\ BInv /\ [DevtoolsNext]_devtoolsVars => BInv'
  <1> SUFFICES ASSUME DInv, DInv', BInv, [DevtoolsNext]_devtoolsVars PROVE BInv'
    OBVIOUS
  <1> DEFINE Rest == UNCHANGED <<rows, handler, board>>
  <1>0. ASSUME Rest PROVE BInv'
    BY <1>0, CursorStays DEF Early
  <1>1. CASE BusStep \/ EmitEvent
    <2>1. ASSUME BusOnly PROVE Rest
      BY <2>1 DEF BusOnly, netVars, rowVars, restVars
    <2>2. ASSUME NEW k \in DOMAIN work, NotifyObserver(k) PROVE Rest
      BY <2>1, <2>2 DEF NotifyObserver, netVars, rowVars, restVars
    <2> QED
      BY <1>0, <1>1, <2>1, <2>2 DEF BusStep, EmitEvent, netVars, rowVars
  <1>2. CASE SignalStep \/ UseSignals
    BY <1>0, <1>2 DEF SignalStep, UseSignals, SignalOnly, netVars, rowVars, restVars
  <1>3. CASE Dial
    <2>1. gen' = gen + 1 /\ gen' \in Session /\ gen \in Nat
      BY <1>3, Numbered DEF Dial, DInv
    <2>2. Early(gen')
      BY <2>1 DEF DInv, Handlers, Early
    <2>3. \A g \in Session : g # gen' => handler'[g] = handler[g]
      BY <1>3 DEF Dial, DInv, HubTypes
    <2>4. \A g \in Session : Early(g)' => Early(g)
      BY <2>2, <2>3 DEF Early
    <2>5. UNCHANGED <<rows, board>>
      BY <1>3 DEF Dial, rowVars, restVars
    <2> QED
      BY <2>4, <2>5, CursorStays
  <1>4. CASE Disconnect \/ DisconnectMidFlight \/ Refuse
    <2>1. UNCHANGED <<rows, board>>
      BY <1>4 DEF Disconnect, DisconnectMidFlight, Refuse, rowVars, restVars
    <2>2. \A g \in Session : Early(g)' => Early(g)
      BY <1>4 DEF Disconnect, DisconnectMidFlight, Refuse, netVars, Early, DInv, HubTypes
    <2> QED
      BY <2>1, <2>2, CursorStays
  <1>5. CASE FlushOnce
    BY <1>0, <1>5 DEF FlushOnce, netVars, rowVars, restVars
  <1>6. CASE RunAction
    <2>1. mail # << >> /\ ActionFrame /\ Head(mail) \in Messages
      BY <1>6, NextMessage DEF RunAction, ActionFrame, DInv
    <2>2. PICK g : g = Head(mail).of
      OBVIOUS
    <2>3. UNCHANGED board
      BY <2>1 DEF ActionFrame, restVars
    <2>4. CASE Head(mail).act = "attached" /\ Register(g)
      <3>1. g \in Session /\ handler[g] = "attaching"
        <4>1. 1 \in DOMAIN mail /\ Head(mail) = mail[1]
          BY <2>1 DEF DInv, HubTypes
        <4> QED
          BY <2>1, <2>2, <2>4, <4>1 DEF DInv, Handlers, Messages
      <3>2. \A h \in Session : Early(h)' => Early(h)
        BY <2>4, <3>1 DEF Register, Early, DInv, HubTypes
      <3> QED
        BY <2>3, <2>4, <3>1, <3>2, CursorStays DEF Register
    <2>5. CASE Ingested(g) \/ Detach(g) \/ Settle(g)
      <3>1. rows' \subseteq rows /\ handler' = handler
        BY <2>5 DEF Ingested, Record, Detach, Settle
      <3> QED
        BY <2>3, <3>1, CursorStays DEF Early
    <2> QED
      BY <1>6, <2>2, <2>4, <2>5 DEF RunAction
  <1>7. CASE \E g \in Session : Attach(g) \/ Stream(g) \/ HandlerEnds(g) \/ Ingest(g) \/ Reply(g)
    <2>1. UNCHANGED <<rows, board>>
      BY <1>7 DEF Attach, Stream, HandlerEnds, Ingest, Reply, HubOnly, rowVars, restVars
    <2>2. \A g \in Session : Early(g)' => Early(g)
      BY <1>7 DEF Attach, Stream, HandlerEnds, Ingest, Reply, Early, DInv, HubTypes
    <2> QED
      BY <2>1, <2>2, CursorStays
  <1>8. CASE \E g \in Session : Read(g)
    BY <1>0, <1>8 DEF Read, netVars, rowVars
  <1>9. CASE \/ \E id \in rows : SelectionChanged(id)
             \/ \E paused \in BOOLEAN : PauseChanged(paused)
    BY <1>9, DashboardClicks
  <1>10. CASE \/ UNCHANGED devtoolsVars \/ Attached \/ SocketDies
              \/ \E q \in Asks : Hear(q) \/ TimeOut(q) \/ HangUp(q)
              \/ \E g \in Session, q \in Asks : Ask(q, g)
    <2>1. CASE UNCHANGED devtoolsVars \/ Attached \/ SocketDies
      BY <1>0, <2>1 DEF devtoolsVars, Attached, SocketDies, netVars, rowVars, restVars
    <2>2. CASE \E q \in Asks : Hear(q) \/ TimeOut(q) \/ HangUp(q)
      BY <1>0, <2>2 DEF Hear, TimeOut, HangUp, StopWaiting, AskOnly, netVars, rowVars, restVars
    <2>3. CASE \E g \in Session, q \in Asks : Ask(q, g)
      BY <1>0, <2>3 DEF Ask, AskOnly, netVars, rowVars, restVars
    <2> QED
      BY <1>10, <2>1, <2>2, <2>3
  <1> QED
    BY <1>1, <1>2, <1>3, <1>4, <1>5, <1>6, <1>7, <1>8, <1>9, <1>10 DEF DevtoolsNext, Runtime

\* While the dashboard is paused, whose records are frozen is who the cursor is
\* on, whatever attaches, detaches and is clicked: the header above a frozen tail
\* is its own, as long as the cursor's attachment is listed (dashboard.ts:186-209).
THEOREM FrozenTailsAreTheCursors == DevtoolsSpec => []PausedTailIsTheCursors
  <1>1. BInv => PausedTailIsTheCursors
    BY DEF BInv
  <1>2. DevtoolsSpec => []BInv
    BY BInvInitially, BInvPreserved, DInvHolds, PTL DEF DevtoolsSpec
  <1> QED
    BY <1>1, <1>2, PTL
=============================================================================

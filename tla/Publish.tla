------------------------------- MODULE Publish -------------------------------
(* The release script (publish.ts) and the builds it runs (build.ts), with    *)
(* the working tree, the registry and the disk they act on. A run reads the   *)
(* manifests once; what is packed, tried against the registry and uploaded is *)
(* taken from the tree each time, because every package's prepack script      *)
(* rebuilds it. Commands fail, the process is killed between and inside       *)
(* steps, an upload may succeed without npm hearing the answer, and the       *)
(* developer edits the tree and tries again.                                  *)
EXTENDS Integers, Sequences, FiniteSets

CONSTANTS
  Package,       \* the packages the script publishes
  Built,         \* those with a target in build.ts; the others ship as source
  DependsOn,     \* DependsOn[p]: the internal packages p's published manifest names
  Prepack,       \* Prepack[p]: the packages p's prepack script builds, in order
  Lists,         \* the package lists publishPackageOrder may be
  MaxVersion,    \* bound: versions a package goes through
  MaxEdits,      \* bound: edits of the tree
  MaxRuns,       \* bound: runs of the script
  MaxKills,      \* bound: runs whose process is killed
  QuietTree      \* TRUE: nobody edits the tree while a run is under way

(* The script lists every package once (publish.ts:73).                       *)
ASSUME PackagesAssumption ==
  /\ Package # {} /\ Built \subseteq Package
  /\ DependsOn \in [Package -> SUBSET Package]
  /\ \A l \in Lists :
       /\ l \in Seq(Package) /\ l # <<>>
       /\ \A p \in Package : \E i \in DOMAIN l : l[i] = p
       /\ \A i, j \in DOMAIN l : l[i] = l[j] => i = j

(* The prepack scripts build packages that have a target, their own among     *)
(* them (the "prepack" and "build" scripts of each package.json).             *)
ASSUME PrepackAssumption ==
  \A p \in Package :
    /\ Prepack[p] \in Seq(Package)
    /\ p \in Built => \E i \in DOMAIN Prepack[p] : Prepack[p][i] = p

Version == 1..MaxVersion
Workspace == 0            \* the range "workspace:*"

VARIABLES
  publishPackageOrder,   \* the list in the script
  manifest,  \* manifest[p]: version and internal ranges in p's package.json
  source,    \* the generation of the sources in the tree
  dist,      \* dist[p]: the generations p's JavaScript and declarations were built from
  distTypes, \* distTypes[p]: the generation of the declarations being rolled up; 0: none
  registry,  \* what npm serves: set of artefacts
  run,       \* the run under way
  workDirs,  \* temporary directories on the disk
  edits, runs, kills

vars == <<publishPackageOrder, manifest, source, dist, distTypes, registry, run, workDirs, edits, runs, kills>>
tree == <<manifest, source>>
built == <<dist, distTypes>>
counters == <<edits, runs, kills>>

Idle == [stage |-> "idle"]
Nothing == [js |-> 0, types |-> 0]

(* What packing p now gives: its manifest and the built or raw sources. *)
Artefact(p) == [pkg |-> p, version |-> manifest[p].version, ranges |-> manifest[p].ranges,
                files |-> IF p \in Built THEN dist[p] ELSE [js |-> source, types |-> source]]

Served(p, v) == \E a \in registry : a.pkg = p /\ a.version = v
Exists(p) == Served(p, manifest[p].version)

----------------------------------------------------------------------------
(* Reading and validating the manifests.                                     *)

internalEdges == {e \in Package \X Package : e[2] \in DependsOn[e[1]]}
Position(p) == CHOOSE i \in DOMAIN publishPackageOrder : publishPackageOrder[i] = p
RangeOf(e) == manifest[e[1]].ranges[e[2]]

assertPublishMetadata ==
  \A e \in internalEdges : RangeOf(e) # Workspace /\ RangeOf(e) = manifest[e[2]].version

assertPublishOrder == \A e \in internalEdges : Position(e[2]) < Position(e[1])

assertLocalPublishScript(mode, ci, tty) == ~ci /\ (mode = "dry-run" \/ tty)

----------------------------------------------------------------------------
(* Runs.                                                                     *)

Working == run # Idle
First == publishPackageOrder[1]

Order == publishPackageOrder
Current == Order[run.at]

(* A stage that handles the packages one after the other: entering it, and   *)
(* going on to the next package or, after the last, to another stage. Where  *)
(* npm runs the prepack script, its builds come first.                       *)
Enter(r, stage) == [r EXCEPT !.stage = stage, !.at = 1, !.build = Prepack[Order[1]]]
Next1(r, then) ==
  IF r.at = Len(Order) THEN then
  ELSE [r EXCEPT !.at = @ + 1, !.build = Prepack[Order[r.at + 1]]]

(* A command or a check fails: the run is over, and the finalizer removes the *)
(* directory it worked in.                                                    *)
Fails == run' = Idle /\ workDirs' = workDirs \ {run.id}

Continues(r) == run' = r /\ UNCHANGED workDirs

Targets == SelectSeq(Order, LAMBDA p : p \in Built)

(* The script starts: it refuses CI and terminals npm cannot prompt on, then *)
(* reads and checks the manifests. A smoke-only run skips the first check    *)
(* and the workspace's.                                                      *)
Start(mode, ci, tty) ==
  /\ ~Working /\ runs < MaxRuns
  /\ runs' = runs + 1
  /\ run' = IF /\ mode = "smoke-only" \/ assertLocalPublishScript(mode, ci, tty)
               /\ assertPublishMetadata /\ assertPublishOrder
            THEN [stage |-> IF mode = "smoke-only" THEN "build" ELSE "checks", mode |-> mode,
                  id |-> runs', context |-> manifest, at |-> 1,
                  build |-> IF mode = "smoke-only" THEN Targets ELSE <<>>, part |-> "clean",
                  packed |-> {}, nested |-> {}, uploads |-> {}]
            ELSE run
  /\ UNCHANGED <<publishPackageOrder, tree, built, registry, workDirs, edits, kills>>

workspaceChecks ==
  /\ Working /\ run.stage = "checks"
  /\ Continues([run EXCEPT !.stage = "build", !.build = Targets]) \/ Fails
  /\ UNCHANGED <<publishPackageOrder, tree, built, registry, counters>>

(* One package is built, by the script's build step or by a prepack: what an *)
(* earlier build left is removed first and the package is linked into itself, *)
(* JavaScript and declarations are then made at the same time, and the       *)
(* declarations rolled up. Whatever fails, dist-types goes.                  *)
Building(part) == Working /\ run.build # <<>> /\ run.part = part
Target == Head(run.build)
BuildFails == distTypes' = [distTypes EXCEPT ![Target] = 0] /\ Fails

buildPackage ==
  /\ Building("clean")
  /\ \/ /\ dist' = [dist EXCEPT ![Target] = Nothing]
        /\ distTypes' = [distTypes EXCEPT ![Target] = 0]
        /\ Continues([run EXCEPT !.part = "compile"])
     \/ dist' \in {dist, [dist EXCEPT ![Target] = Nothing]} /\ BuildFails
  /\ UNCHANGED <<publishPackageOrder, tree, registry, counters>>

compile ==
  /\ Building("compile")
  /\ \/ /\ dist' = [dist EXCEPT ![Target].js = source]
        /\ distTypes' = [distTypes EXCEPT ![Target] = source]
        /\ Continues([run EXCEPT !.part = "rollup"])
     \/ dist' \in {dist, [dist EXCEPT ![Target].js = source]} /\ BuildFails
  /\ UNCHANGED <<publishPackageOrder, tree, registry, counters>>

rollupDeclarations ==
  /\ Building("rollup")
  /\ \/ /\ dist' = [dist EXCEPT ![Target].types = distTypes[Target]]
        /\ distTypes' = [distTypes EXCEPT ![Target] = 0]
        /\ Continues([run EXCEPT !.build = Tail(@), !.part = "clean"])
     \/ BuildFails /\ UNCHANGED dist
  /\ UNCHANGED <<publishPackageOrder, tree, registry, counters>>

Ready(stage) == Working /\ run.stage = stage /\ run.build = <<>>
OpensDirectory(r) == run' = r /\ workDirs' = workDirs \cup {run.id}

(* The artefacts are built: a smoke-only run packs them, the others try the  *)
(* registry first.                                                           *)
buildArtifacts ==
  /\ Ready("build")
  /\ IF run.mode = "smoke-only" THEN OpensDirectory(Enter(run, "pack"))
     ELSE Continues([run EXCEPT !.stage = "view"])
  /\ UNCHANGED <<publishPackageOrder, tree, built, registry, counters>>

Tried ==
  IF run.at = Len(Order) THEN OpensDirectory(Enter(run, "pack"))
  ELSE Continues([run EXCEPT !.at = @ + 1, !.stage = "view"])

(* npm is asked whether the version is served. Only a --dry-run is let off   *)
(* by the answer: a release tries to publish the version all the same.       *)
packageVersionExists ==
  /\ Ready("view")
  /\ \/ IF run.mode = "dry-run" /\ Served(Current, run.context[Current].version) THEN Tried
        ELSE Continues([run EXCEPT !.stage = "dry-run", !.build = Prepack[Current]])
     \/ Fails
  /\ UNCHANGED <<publishPackageOrder, tree, built, registry, counters>>

(* npm publish --dry-run; npm may refuse a version that is served already.   *)
publishDryRun ==
  /\ Ready("dry-run")
  /\ Tried \/ Fails
  /\ UNCHANGED <<publishPackageOrder, tree, built, registry, counters>>

(* npm pack, into the temporary directory. *)
packPackage ==
  /\ Ready("pack")
  /\ \/ LET r == [run EXCEPT !.packed = @ \cup {Artefact(Current)}]
        IN Continues(Next1(r, [r EXCEPT !.stage = "write"]))
     \/ Fails
  /\ UNCHANGED <<publishPackageOrder, tree, built, registry, counters>>

(* A tarball lies where the script looks for it when it was packed under the *)
(* version the script has read.                                              *)
requireTarball(p) == \E a \in run.packed : a.pkg = p /\ a.version = run.context[p].version

(* The consumer is written, with overrides that pin every internal range to  *)
(* its tarball.                                                              *)
writeSmokeProject ==
  /\ Ready("write")
  /\ \/ (\A p \in Package : requireTarball(p)) /\ Continues([run EXCEPT !.stage = "install"])
     \/ Fails
  /\ UNCHANGED <<publishPackageOrder, tree, built, registry, counters>>

(* It is installed. An installer that does not honour the overrides may nest *)
(* a copy npm serves under the package that asks for it.                     *)
smokeInstall ==
  /\ Ready("install")
  /\ \/ \E copies \in SUBSET {e \in internalEdges : Served(e[2], RangeOf(e))} :
          Continues([run EXCEPT !.stage = "layout", !.nested = copies])
     \/ Fails
  /\ UNCHANGED <<publishPackageOrder, tree, built, registry, counters>>

assertPackedFiles == \A a \in run.packed : a.files.js # 0 /\ a.files.types # 0

(* A mutant: only the copy under the first package is looked for. *)
FirstCopyOnly == \A e \in run.nested : e[1] # Order[1]

assertSingleCopies == run.nested = {}

(* The layout is looked at, and every binary must be linked. *)
assertPackedBinaries ==
  /\ Ready("layout")
  /\ (assertPackedFiles /\ assertSingleCopies /\ Continues([run EXCEPT !.stage = "smoke"])) \/ Fails
  /\ UNCHANGED <<publishPackageOrder, tree, built, registry, counters>>

(* The consumer is typechecked, imported and its commands launched; then the *)
(* directory goes, and a release begins to publish.                          *)
packAndSmoke ==
  /\ Ready("smoke")
  /\ \/ /\ run' = IF run.mode = "release" THEN Enter(run, "publish") ELSE Idle
        /\ workDirs' = workDirs \ {run.id}
     \/ Fails
  /\ UNCHANGED <<publishPackageOrder, tree, built, registry, counters>>

Uploaded(r) == Next1([r EXCEPT !.uploads = @ \cup {Artefact(Current)}], Idle)

(* A mutant: the release goes on after a package npm did not take. *)
GoesOn ==
  /\ Ready("publish")
  /\ \/ /\ ~Exists(Current)
        /\ registry' = registry \cup {Artefact(Current)}
        /\ Continues(Uploaded(run)) \/ Fails
     \/ Continues(Next1(run, Idle)) /\ UNCHANGED registry
  /\ UNCHANGED <<publishPackageOrder, tree, built, counters>>

(* npm publish. npm takes a version it does not serve, and the script goes   *)
(* on or, when the answer is lost, stops; or npm refuses and the script      *)
(* stops. The rest of the list is left alone.                                *)
publishToNpm ==
  /\ Ready("publish")
  /\ \/ /\ ~Exists(Current)
        /\ registry' = registry \cup {Artefact(Current)}
        /\ Continues(Uploaded(run)) \/ Fails
     \/ Fails /\ UNCHANGED registry
  /\ UNCHANGED <<publishPackageOrder, tree, built, counters>>

(* The process is killed: no finalizer runs, and a package being built is    *)
(* left with what was written.                                               *)
Kill ==
  /\ Working /\ kills < MaxKills
  /\ kills' = kills + 1
  /\ run' = Idle
  /\ IF Building("compile")
     THEN /\ dist' \in {dist, [dist EXCEPT ![Target].js = source]}
          /\ distTypes' \in {distTypes, [distTypes EXCEPT ![Target] = source]}
     ELSE UNCHANGED built
  /\ UNCHANGED <<publishPackageOrder, tree, registry, workDirs, edits, runs>>

(* The developer changes the sources and any of the manifests. *)
Manifests == [version : Version, ranges : UNION {[DependsOn[p] -> {Workspace} \cup Version] : p \in Package}]
Edit ==
  /\ edits < MaxEdits
  /\ QuietTree => ~Working
  /\ edits' = edits + 1
  /\ source' = source + 1
  /\ \E m \in [Package -> Manifests] :
       /\ \A p \in Package : DOMAIN m[p].ranges = DependsOn[p] /\ m[p].version >= manifest[p].version
       /\ manifest' = m
  /\ UNCHANGED <<publishPackageOrder, built, registry, run, workDirs, runs, kills>>

Init ==
  /\ publishPackageOrder \in Lists
  /\ manifest = [p \in Package |-> [version |-> 1, ranges |-> [d \in DependsOn[p] |-> 1]]]
  /\ source = 1
  /\ dist = [p \in Built |-> Nothing] /\ distTypes = [p \in Built |-> 0]
  /\ registry = {}
  /\ run = Idle
  /\ workDirs = {}
  /\ edits = 0 /\ runs = 0 /\ kills = 0

Next ==
  \/ \E mode \in {"release", "dry-run", "smoke-only"}, ci, tty \in BOOLEAN : Start(mode, ci, tty)
  \/ workspaceChecks \/ buildPackage \/ compile \/ rollupDeclarations \/ buildArtifacts
  \/ packageVersionExists \/ publishDryRun
  \/ packPackage \/ writeSmokeProject \/ smokeInstall \/ assertPackedBinaries \/ packAndSmoke
  \/ publishToNpm
  \/ Kill \/ Edit

Spec == Init /\ [][Next]_vars

----------------------------------------------------------------------------
(* Properties.                                                               *)

(* Whatever failed, was killed, edited and tried again, a consumer who        *)
(* installs a package npm serves finds every internal range served too        *)
(* (publish.ts:64-69, 352-355).                                                *)
DependenciesFirst ==
  \A a \in registry : \A d \in DependsOn[a.pkg] : Served(d, a.ranges[d])

(* What a run uploads is what its consumer was tried with: the artefact of a  *)
(* tarball it packed, whole, in an install where no copy but the tarballs'    *)
(* could be resolved. The upload packs again, after the smoke is over         *)
(* (publish.ts:432-437, 1077-1098).                                           *)
SmokeTriedTheUploads ==
  Working => \A a \in run.uploads : a \in run.packed /\ a.files = [js |-> source, types |-> source] /\ run.nested = {}

(* A run that is over has left no directory behind unless it was killed       *)
(* (publish.ts:1048-1074).                                                    *)
DirectoriesRemoved ==
  Cardinality(workDirs \ (IF Working THEN {run.id} ELSE {})) <= kills
=============================================================================

-------------------------- MODULE RegistryPublication --------------------------
(***************************************************************************)
(* The way of a container image from its two native builds into a registry *)
(* and out again: assembled (scripts/assemble_native_container.py),        *)
(* released with its stable release, copied under its version and perhaps  *)
(* under latest (scripts/publish_verified.py), and resolved to digests for *)
(* a deployment (scripts/verified_images.py).                              *)
(*                                                                         *)
(* Publishers run wherever an operator starts them, at the same time, and  *)
(* stop at any call. Others push to the registry too, and a maintainer     *)
(* replaces assets of the public release. One archive of the newest        *)
(* version is assembled here; all others are given and already stable.     *)
(***************************************************************************)
EXTENDS OciArchives

CONSTANTS
  Publishers,     \* runs of publish_verified.py
  ImageOrder,     \* the images of the container mapping, in its order
  Versions,       \* the stable versions
  Newest,         \* the version whose first image is assembled here
  Revision,       \* its commit
  Offers,         \* what the two native builds bring to an assembly, by a name
  MaxAssemblies,  \* bound: assemblies that succeed
  MaxPushes,      \* bound: tags others push to
  MaxEdits        \* bound: releases with replaced assets

Mapped == ToSet(ImageOrder)
Tags == Versions \union {"latest"}

ASSUME PublicationAssumption ==
  /\ ImageOrder \in Seq(STRING) /\ ImageOrder # <<>>
  /\ Versions \intersect {"latest", "none", "other", "edited"} = {}
  /\ Newest \in Versions
  /\ MaxAssemblies \in Nat /\ MaxPushes \in Nat /\ MaxEdits \in Nat

ASSUME OffersAssumption ==
  \A b \in DOMAIN Offers, p \in ToSet(Platforms) : Listed(Offers[b][p].archive.root)

VARIABLES
  assembled,  \* the offers that were assembled, with their provenance detached or
              \* not, until one of them is released
  public,     \* the newest version is a public stable release
  edited,     \* stable releases whose assets are not what they were released with
  tags,       \* what each tag of each image stands for in the registry: the
              \* approved archive of a version, or something else
  stored,     \* what publishers have put into the registry for each image
  pc,         \* where each publisher stands
  job,        \* what it publishes: a version, with latest or not, and the payloads
              \* it has downloaded
  at,         \* the position in the loop it is in
  resolver,   \* verified_images.py: where it stands, its version, its position
  output,     \* the version whose digests are in the file it writes
  pushed,     \* tags others pushed to
  surprised   \* publishers and images whose version tag others pushed to after
              \* the publisher had found it free

releaseVars == <<assembled, public, edited>>
registryVars == <<tags, stored>>
publisherVars == <<pc, job, at>>
resolverVars == <<resolver, output>>
othersVars == <<pushed, surprised>>
vars == <<assembled, public, edited, tags, stored, pc, job, at, resolver, output,
          pushed, surprised>>

NoJob == [version |-> Newest, latest |-> FALSE, holds |-> "none"]
NoResolution == [pc |-> "idle", version |-> Newest, holds |-> "none", at |-> 1]

\* What a tag may stand for: the approved archive of a version, an edited one,
\* something that others pushed, or nothing.
Contents == Versions \union {"edited", "other", "none"}

TypeOK ==
  /\ assembled \subseteq (DOMAIN Offers) \X BOOLEAN
  /\ Cardinality(assembled) <= MaxAssemblies
  /\ public \in BOOLEAN
  /\ edited \subseteq Versions
  /\ tags \in [Mapped -> [Tags -> Contents]]
  /\ stored \subseteq Mapped \X Contents
  /\ pc \in [Publishers -> {"idle", "preflight", "copy"}]
  /\ job \in [Publishers -> [version : Versions, latest : BOOLEAN, holds : Contents]]
  /\ at \in [Publishers -> 1..2 * Len(ImageOrder)]
  /\ resolver \in [pc : {"idle", "compare", "write"},
                   version : Versions, holds : Contents,
                   at : 1..Len(ImageOrder)]
  /\ output \in Versions \union {"none"}
  /\ pushed \subseteq Mapped \X Tags
  /\ surprised \subseteq Publishers \X Mapped

Init ==
  /\ assembled = {}
  /\ public = FALSE
  /\ edited = {}
  /\ tags = [i \in Mapped |-> [t \in Tags |-> "none"]]
  /\ stored = {}
  /\ pc = [p \in Publishers |-> "idle"]
  /\ job = [p \in Publishers |-> NoJob]
  /\ at = [p \in Publishers |-> 1]
  /\ resolver = NoResolution
  /\ output = "none"
  /\ pushed = {}
  /\ surprised = {}

(***************************************************************************)
(* The assembly of the first image of the newest version, and its release. *)
(* A native input is its archive, the archive its receipt was verified     *)
(* with, and the record of its smoke test.                                 *)
(***************************************************************************)
\* verify_native_input: the build record is of this platform, plan and attempt.
NativeBuild(input, p) ==
  /\ input.build.platform = p
  /\ input.build.version = Newest
  /\ input.build.revision = Revision
  /\ input.build.attempt = "current"

\* mutant: the merged archive is not compared with the receipt and the smoke test
AttestedInput(input) == HasProvenance(input.archive)

\* verify_assembled_inputs, of what merge_archives or detach has read.
AssembledInput(input) ==
  /\ input.archive = input.received
  /\ HasProvenance(input.archive)
  /\ Images(input.archive)[1].content.config = input.build.config

ArchivesOf(inputs) == [p \in ToSet(Platforms) |-> inputs[p].archive]

Assemblable(inputs) ==
  /\ \A p \in ToSet(Platforms) : NativeBuild(inputs[p], p)
  /\ Mergeable(ArchivesOf(inputs), Newest, Revision)
  /\ \A p \in ToSet(Platforms) : AssembledInput(inputs[p])

\* What the assembly of an offer writes: under a policy with detached provenance an
\* image and its sidecar, otherwise one image with everything in it.
AssemblyOf(name, inputs) ==
  IF name[2]
    THEN [name |-> name, image |-> RuntimeArchive(inputs), sidecar |-> Sidecar(inputs, Revision)]
    ELSE [name |-> name, image |-> Merge(inputs), sidecar |-> NoSidecar]

Assemblies ==
  {AssemblyOf(name, ArchivesOf(Offers[name[1]])) :
     name \in {b \in DOMAIN Offers : Assemblable(Offers[b])} \X BOOLEAN}

\* verify_declared_artifacts, and verify_staged where the policy asks for it.
Releasable(image, evidence) ==
  /\ OciMetadata(image.image, Newest)
  /\ IF image.name[2] THEN VerifiedPair(image.image, evidence.sidecar, Newest, Revision)
                      ELSE evidence = image

\* The assemblies whose image and sidecar may be staged together.
Pairs ==
  {<<pair[1].name, pair[2].name>> :
     pair \in {q \in Assemblies \X Assemblies : Releasable(q[1], q[2])}}

\* assemble; a refused one leaves nothing behind (NativeOutputs). The policy is that of
\* the commit, the same for every assembly.
Assemble ==
  /\ ~public
  /\ Cardinality(assembled) < MaxAssemblies
  /\ \E assembly \in Assemblies :
       /\ \A other \in assembled : other[2] = assembly.name[2]
       /\ assembled' = assembled \union {assembly.name}
  /\ UNCHANGED <<public, edited, registryVars, publisherVars, resolverVars, othersVars>>

\* The archive is staged, perhaps with the sidecar of another assembly, and released.
Release ==
  /\ ~public
  /\ \E pair \in Pairs : ToSet(pair) \subseteq assembled
  /\ public' = TRUE
  /\ assembled' = {}
  /\ UNCHANGED <<edited, registryVars, publisherVars, resolverVars, othersVars>>

IsPublic(v) == v = Newest => public

\* A maintainer replaces an asset of a public release.
EditAsset ==
  /\ Cardinality(edited) < MaxEdits
  /\ \E v \in Versions :
       /\ IsPublic(v)
       /\ edited' = edited \union {v}
  /\ UNCHANGED <<assembled, public, registryVars, publisherVars, resolverVars, othersVars>>

(***************************************************************************)
(* publish_verified.py                                                     *)
(***************************************************************************)
\* Where the publisher goes on; once it stands idle it holds nothing any more.
Go(p, place) ==
  /\ surprised' = IF place = "idle" THEN {s \in surprised : s[1] # p} ELSE surprised
  /\ pc' = [pc EXCEPT ![p] = place]
  /\ at' = [at EXCEPT ![p] = 1]
  /\ job' = IF place = "idle" THEN [job EXCEPT ![p] = NoJob] ELSE job

\* One round further in a loop of n rounds, or on to what follows it.
Further(p, n, after) ==
  IF at[p] < n THEN /\ at' = [at EXCEPT ![p] = @ + 1]
                    /\ UNCHANGED <<pc, job, surprised>>
               ELSE Go(p, after)

\* mutant: the payloads are not compared with the manifest
PublicRelease(v) == IsPublic(v)

\* verified_assets: the release is public, and its payloads are those of its manifest
\* and of its evidence. From here on the publisher works on its own copies.
VerifiedAssets(v) == IsPublic(v) /\ v \notin edited
Payloads(v) == IF v \in edited THEN "edited" ELSE v

\* Somebody starts a publisher, for whatever version.
Begin(p) ==
  /\ pc[p] = "idle"
  /\ \E v \in Versions, latest \in BOOLEAN :
       /\ VerifiedAssets(v)
       /\ job' = [job EXCEPT ![p] = [version |-> v, latest |-> latest, holds |-> Payloads(v)]]
  /\ pc' = [pc EXCEPT ![p] = "preflight"]
  /\ UNCHANGED <<at, releaseVars, registryVars, resolverVars, othersVars>>

\* mutant: only the first destination is looked at
FirstUnpublished(p) == at[p] > 1 \/ tags[ImageOrder[at[p]]][job[p].version] = "none"

\* require_unpublished_version; when the inventory cannot be read, Stop stands for it.
Unpublished(p) == tags[ImageOrder[at[p]]][job[p].version] = "none"

\* container_commands, one destination a step.
Preflight(p) ==
  /\ pc[p] = "preflight"
  /\ IF Unpublished(p) THEN Further(p, Len(ImageOrder), "copy") ELSE Go(p, "idle")
  /\ UNCHANGED <<releaseVars, registryVars, resolverVars, pushed>>

\* mutant: latest follows each image instead of all of them
EachLatest(p) ==
  IF ~job[p].latest THEN [n \in 1..Len(ImageOrder) |-> <<ImageOrder[n], job[p].version>>]
  ELSE [n \in 1..2 * Len(ImageOrder) |->
         <<ImageOrder[(n + 1) \div 2], IF n % 2 = 1 THEN job[p].version ELSE "latest">>]

\* The copies under the version come before all those under latest.
Commands(p) ==
  [n \in 1..Len(ImageOrder) |-> <<ImageOrder[n], job[p].version>>]
  \o (IF job[p].latest THEN [n \in 1..Len(ImageOrder) |-> <<ImageOrder[n], "latest">>] ELSE <<>>)

\* subprocess.run(command, check=True): the copy is made, and perhaps reported as
\* failed, which ends the run.
Copy(p) ==
  /\ pc[p] = "copy"
  /\ LET image == Commands(p)[at[p]][1]
         tag == Commands(p)[at[p]][2]
     IN  /\ tags' = [tags EXCEPT ![image][tag] = job[p].holds]
         /\ stored' = stored \union {<<image, job[p].holds>>}
  /\ Further(p, Len(Commands(p)), "idle") \/ Go(p, "idle")
  /\ UNCHANGED <<releaseVars, resolverVars, pushed>>

\* A call fails, or the run is stopped; its temporary directory goes with it.
Stop(p) ==
  /\ pc[p] # "idle"
  /\ Go(p, "idle")
  /\ UNCHANGED <<releaseVars, registryVars, resolverVars, pushed>>

\* The images whose version the publisher has found free.
FoundFree(p) ==
  CASE pc[p] = "idle" -> {}
    [] pc[p] = "preflight" -> {ImageOrder[n] : n \in 1..at[p] - 1}
    [] pc[p] = "copy" -> Mapped

\* Others push an image of their own.
Push(i, t) ==
  /\ Cardinality(pushed) < MaxPushes
  /\ tags' = [tags EXCEPT ![i][t] = "other"]
  /\ pushed' = pushed \union {<<i, t>>}
  /\ surprised' = surprised \union
       {<<p, i>> : p \in {q \in Publishers : job[q].version = t /\ i \in FoundFree(q)}}
  /\ UNCHANGED <<releaseVars, stored, publisherVars, resolverVars>>

(***************************************************************************)
(* verified_images.py                                                      *)
(***************************************************************************)
ResolverAt(place) == resolver.pc = place
ResolverDone == resolver' = NoResolution

Resolve ==
  /\ ResolverAt("idle")
  /\ \E v \in Versions :
       /\ VerifiedAssets(v)
       /\ resolver' = [pc |-> "compare", version |-> v, holds |-> Payloads(v), at |-> 1]
  /\ UNCHANGED <<releaseVars, registryVars, publisherVars, output, othersVars>>

\* The bytes of the registry are those of the archive.
SameDigest(i) == tags[i][resolver.version] = resolver.holds

\* mutant: the loop runs once too often
ComparePastEnd ==
  /\ ResolverAt("compare")
  /\ IF ~SameDigest(ImageOrder[resolver.at]) THEN ResolverDone
     ELSE resolver' = [resolver EXCEPT !.at = @ + 1]
  /\ UNCHANGED <<releaseVars, registryVars, publisherVars, output, othersVars>>

Compare ==
  /\ ResolverAt("compare")
  /\ IF ~SameDigest(ImageOrder[resolver.at]) THEN ResolverDone
     ELSE IF resolver.at < Len(ImageOrder) THEN resolver' = [resolver EXCEPT !.at = @ + 1]
     ELSE resolver' = [resolver EXCEPT !.pc = "write"]
  /\ UNCHANGED <<releaseVars, registryVars, publisherVars, output, othersVars>>

\* write_output replaces the file in one step, or fails and leaves it.
WriteOutput ==
  /\ ResolverAt("write")
  /\ output' \in {output, resolver.version}
  /\ ResolverDone
  /\ UNCHANGED <<releaseVars, registryVars, publisherVars, othersVars>>

Publish(p) == Begin(p) \/ Preflight(p) \/ Copy(p) \/ Stop(p)

Next ==
  \/ Assemble \/ Release \/ EditAsset
  \/ \E p \in Publishers : Publish(p)
  \/ \E i \in Mapped, t \in Tags : Push(i, t)
  \/ Resolve \/ Compare \/ WriteOutput

Spec == Init /\ [][Next]_vars

(***************************************************************************)
(* Properties.                                                             *)
(***************************************************************************)
\* Whatever an assembly accepts and writes, the checks of the release accept too, so
\* that an image is not found unfit after its builds are spent, as long as the leaves
\* of both inputs stay within the limit on one archive (merge_oci_archives.py:550,
\* release_provenance.py:346, version_plan.py:1577).
WithinLimit ==
  {a.name : a \in {b \in Assemblies : Len(Walk(b.image.root)) <= MaxVisited}}
AssembledVerifies == \A b \in assembled : b \in WithinLimit => <<b, b>> \in Pairs

\* The image of an index is, for each platform, the one a smoke test ran, built from
\* the commit and for the version of the release, and every statement that comes with
\* it is about one of the two.
AsBuilt(leaves, inputs) ==
  LET runnable == Only(leaves, {leaf \in ToSet(leaves) : leaf.platform # "unknown"})
  IN  /\ [n \in DOMAIN runnable |-> runnable[n].platform] = Platforms
      /\ \A n \in DOMAIN runnable :
           LET config == runnable[n].content.config
           IN  /\ config = inputs[Platforms[n]].build.config
               /\ config.platform = Platforms[n]
               /\ config.version = Newest
               /\ config.revision = Revision
      /\ \A leaf \in ToSet(leaves) : leaf.platform = "unknown" =>
           \A statement \in ToSet(leaf.content.layers) :
             statement.subject \in {runnable[n].content : n \in DOMAIN runnable}

\* A sidecar speaks of the images of an archive.
SpeaksOf(sidecar, image) ==
  \A p \in ToSet(Platforms) : \A leaf \in ToSet(Leaves(Archive({}, sidecar.inputs[p]))) :
    leaf.platform = "unknown" =>
      \A statement \in ToSet(leaf.content.layers) :
        \E runnable \in ToSet(Images(image)) :
          runnable.platform = p /\ statement.subject = runnable.content

PairsAsBuilt ==
  {<<pair[1].name, pair[2].name>> :
     pair \in {q \in Assemblies \X Assemblies :
                 /\ AsBuilt(Leaves(q[1].image), Offers[q[1].name[1]])
                 /\ q[1].name[2] => q[2].name[2] /\ SpeaksOf(q[2].sidecar, q[1].image)}}

\* Whatever the checks of a release let pass was assembled from the smoke-tested
\* builds of its version, and the sidecar that goes with it speaks of those very
\* images, also when it is of another assembly (assemble_native_container.py:223,
\* release_provenance.py:222).
ReleasableAsBuilt ==
  \A pair \in Pairs : ToSet(pair) \subseteq assembled => pair \in PairsAsBuilt

\* A deployment is only ever told digests that were approved for the version and that
\* the registry holds, whatever failed, was pushed or was retried on the way
\* (verified_images.py:126).
DeployedIsStored ==
  output # "none" => IsPublic(output) /\ \A i \in Mapped : <<i, output>> \in stored

\* latest of an image is a release only once every image of that release is in the
\* registry under its version ("move container latest after every versioned image is
\* published", publish_verified.py:270), whichever copy failed and however many
\* publishers are at it.
LatestIsComplete ==
  \A v \in Versions : \A i, j \in Mapped :
    tags[i]["latest"] = v => tags[j][v] = v \/ <<j, v>> \in pushed

\* No publisher changes what a version tag stands for ("Never overwrite an existing
\* version tag, even on retries", publish_verified.py:223), but for a tag that others
\* pushed after the publisher had found it free.
VersionTagsKept ==
  [][\A i \in Mapped, v \in Versions :
       tags[i][v] # "none" /\ tags'[i][v] # tags[i][v] =>
         \/ tags'[i][v] = "other"
         \/ \E p \in Publishers : pc[p] = "copy" /\ job[p].version = v /\ <<p, i>> \in surprised]_vars
================================================================================

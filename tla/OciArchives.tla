------------------------------ MODULE OciArchives ------------------------------
(***************************************************************************)
(* What an OCI archive has to look like, three times over: to be merged    *)
(* into the released image (class Archive and merge_archives of            *)
(* scripts/merge_oci_archives.py), to be detached from its provenance      *)
(* (scripts/release_provenance.py), and to be published (_OciMetadata of   *)
(* scripts/version_plan.py).                                               *)
(*                                                                         *)
(* A blob is its content, so the content is its digest too. An archive is  *)
(* the set of its blobs and the descriptors of its index.json. Any failing *)
(* check refuses the archive, so the checks are one conjunction, whatever  *)
(* their order. Sizes, media types, JSON and tar syntax are left out.      *)
(***************************************************************************)
EXTENDS Integers, Sequences, FiniteSets, SequencesExt

CONSTANTS
  MaxDepth,   \* how deep an index may be nested
  MaxVisited  \* how many descriptors one archive may hold

ASSUME ArchivesAssumption == MaxDepth \in Nat \ {0} /\ MaxVisited \in Nat

Platforms == <<"linux/amd64", "linux/arm64">>

(***************************************************************************)
(* Blobs: an index, a manifest (of an image or of an attestation), a       *)
(* config, the empty config of an artifact, a layer and an in-toto         *)
(* statement.                                                              *)
(***************************************************************************)
NoBlob == [kind |-> "none"]
EmptyConfig == [kind |-> "empty"]
Index(manifests) == [kind |-> "index", manifests |-> manifests]
Manifest(config, layers, artifact, subject) ==
  [kind |-> "manifest", config |-> config, layers |-> layers,
   artifact |-> artifact, subject |-> subject]
Config(platform, version, revision, diffs) ==
  [kind |-> "config", platform |-> platform, version |-> version,
   revision |-> revision, diffs |-> diffs]
Layer(bytes) == [kind |-> "layer", bytes |-> bytes]
Statement(subject, predicate) ==
  [kind |-> "statement", subject |-> subject, predicate |-> predicate]

\* A descriptor names a blob; annotated says that it is marked as that of an
\* attestation, and reference is the digest it is marked with.
Descriptor(content, platform, annotated, reference) ==
  [content |-> content, platform |-> platform, annotated |-> annotated,
   reference |-> reference]

Archive(blobs, root) == [blobs |-> blobs, root |-> root]

(***************************************************************************)
(* The walk from index.json: Levels(root)[d] are the descriptors d indexes *)
(* below it. Nothing depends on the order in which the code meets them.    *)
(***************************************************************************)
Nested(descriptor) ==
  IF descriptor.content.kind = "index" THEN descriptor.content.manifests ELSE <<>>

Levels(root) ==
  LET level[d \in 0..MaxDepth + 1] ==
        IF d = 0 THEN root
        ELSE FlattenSeq([i \in DOMAIN level[d - 1] |-> Nested(level[d - 1][i])])
  IN  level

IsList(list) == list \in Seq(ToSet(list))

\* walk_index: what index.json and every index below it name are lists.
Listed(root) ==
  /\ IsList(root)
  /\ \A d \in 0..MaxDepth : \A descriptor \in ToSet(Levels(root)[d]) : IsList(Nested(descriptor))

Walk(root) == FlattenSeq([d \in 1..MaxDepth + 1 |-> Levels(root)[d - 1]])

\* walk and walk_index: the limits, the blobs and the shape of the graph.
Walkable(archive) ==
  /\ archive.root # <<>>
  /\ Levels(archive.root)[MaxDepth + 1] = <<>>
  /\ Len(Walk(archive.root)) <= MaxVisited
  /\ \A descriptor \in ToSet(Walk(archive.root)) :
       LET content == descriptor.content
       IN  /\ content \in archive.blobs
           /\ content.kind \in {"index", "manifest"}
           /\ content.kind = "index" => content.manifests # <<>>

\* What a list has of a set, in the order of the list.
Only(list, set) == FlattenSeq([i \in DOMAIN list |-> IF list[i] \in set THEN <<list[i]>> ELSE <<>>])

\* The manifests at the end of the walk.
ManifestsIn(list) == Only(list, {descriptor \in ToSet(list) : descriptor.content.kind = "manifest"})
Leaves(archive) == ManifestsIn(Walk(archive.root))

IsAttestation(leaf) == leaf.annotated \/ leaf.content.artifact
ImagesIn(leaves) == Only(leaves, {leaf \in ToSet(leaves) : ~IsAttestation(leaf)})
AttestationsIn(leaves) == Only(leaves, {leaf \in ToSet(leaves) : IsAttestation(leaf)})
Images(archive) == ImagesIn(Leaves(archive))
Attestations(archive) == AttestationsIn(Leaves(archive))

(***************************************************************************)
(* Archive: the contract of one native input.                              *)
(***************************************************************************)
Labels(config, version, revision) ==
  /\ config.version = version
  /\ config.revision = revision

\* image, with layer_digest: the layers are those the config was built from.
RunnableImage(archive, leaf, platform, version, revision) ==
  LET manifest == leaf.content
      config == manifest.config
  IN  /\ manifest.subject = NoBlob
      /\ config \in archive.blobs
      /\ config.kind = "config"
      /\ leaf.platform = platform
      /\ config.platform = platform
      /\ Labels(config, version, revision)
      /\ ToSet(manifest.layers) \subseteq archive.blobs
      /\ config.diffs = [i \in DOMAIN manifest.layers |-> manifest.layers[i].bytes]

\* The image an attestation is about, in its artifact and in its legacy form.
Subject(leaf) == IF leaf.content.artifact THEN leaf.content.subject ELSE leaf.reference

ArtifactForm(archive, leaf) ==
  LET manifest == leaf.content
  IN  /\ manifest.artifact
      /\ manifest.config = EmptyConfig
      /\ manifest.config \in archive.blobs
      /\ manifest.subject \in archive.blobs
      /\ manifest.subject.kind = "manifest"
      /\ leaf.reference \in {NoBlob, manifest.subject}

UnknownConfig(archive, config) ==
  /\ config \in archive.blobs
  /\ config.kind = "config"
  /\ config.platform = "unknown"

LegacyForm(archive, leaf) ==
  /\ ~leaf.content.artifact
  /\ leaf.content.subject = NoBlob
  /\ UnknownConfig(archive, leaf.content.config)
  /\ leaf.reference \in archive.blobs

\* attestation: every statement in it is about that image.
Attestation(archive, leaf) ==
  /\ leaf.platform = "unknown"
  /\ ArtifactForm(archive, leaf) \/ LegacyForm(archive, leaf)
  /\ leaf.content.layers # <<>>
  /\ \A statement \in ToSet(leaf.content.layers) :
       /\ statement \in archive.blobs
       /\ statement.kind = "statement"
       /\ statement.subject = Subject(leaf)

\* mutant: the attestations are not compared with the image
OneImage(archive) == Len(Images(archive)) = 1

\* validate_complete_graph
CompleteGraph(archive) ==
  /\ Len(Images(archive)) = 1
  /\ \A leaf \in ToSet(Attestations(archive)) : Subject(leaf) = Images(archive)[1].content

DistinctLeaves(archive) ==
  LET leaves == Leaves(archive)
  IN  \A i, j \in DOMAIN leaves : leaves[i].content = leaves[j].content => i = j

NativeInput(archive, platform, version, revision) ==
  /\ Walkable(archive)
  /\ \A leaf \in ToSet(Leaves(archive)) :
       IF IsAttestation(leaf) THEN Attestation(archive, leaf)
                              ELSE RunnableImage(archive, leaf, platform, version, revision)
  /\ DistinctLeaves(archive)
  /\ CompleteGraph(archive)

HasProvenance(archive) ==
  \E leaf \in ToSet(Attestations(archive)) :
    \E statement \in ToSet(leaf.content.layers) : statement.predicate = "provenance"

(***************************************************************************)
(* merge_archives: one index over the leaves of both inputs, the images    *)
(* first, and every blob of either. Attestations are ordered by digest in  *)
(* the code and by input here.                                             *)
(***************************************************************************)
BothImages(inputs) == Images(inputs[Platforms[1]]) \o Images(inputs[Platforms[2]])
BothAttestations(inputs) == Attestations(inputs[Platforms[1]]) \o Attestations(inputs[Platforms[2]])

NestedIndex(leaves) == <<Descriptor(Index(leaves), "none", FALSE, NoBlob)>>

Merge(inputs) ==
  LET root == NestedIndex(BothImages(inputs) \o BothAttestations(inputs))
  IN  Archive((UNION {inputs[p].blobs : p \in ToSet(Platforms)}) \union {root[1].content}, root)

Mergeable(inputs, version, revision) ==
  \A p \in ToSet(Platforms) : NativeInput(inputs[p], p, version, revision)

(***************************************************************************)
(* detach: a runnable archive with both images and nothing else, and a     *)
(* sidecar with the metadata of the inputs and their index.json.           *)
(***************************************************************************)
RuntimeBlobs(leaf) == {leaf.content, leaf.content.config} \union ToSet(leaf.content.layers)

RuntimeArchive(inputs) ==
  LET root == NestedIndex(BothImages(inputs))
  IN  Archive({root[1].content}
              \union UNION {RuntimeBlobs(leaf) : leaf \in ToSet(BothImages(inputs))},
              root)

\* metadata_names: everything an archive check reads, which is all but the layers.
Metadata(archive) ==
  {descriptor.content : descriptor \in ToSet(Walk(archive.root))}
  \union {leaf.content.config : leaf \in ToSet(Leaves(archive))}
  \union UNION {ToSet(leaf.content.layers) : leaf \in ToSet(Attestations(archive))}

Sidecar(inputs, revision) ==
  [revision |-> revision,
   image |-> RuntimeArchive(inputs),
   inputs |-> [p \in ToSet(Platforms) |-> inputs[p].root],
   blobs |-> UNION {Metadata(inputs[p]) : p \in ToSet(Platforms)}]
NoSidecar == [revision |-> "none"]

\* class RuntimeArchive: both platforms, in the one form the code itself writes.
Runnable(archive, version, revision) ==
  /\ Walkable(archive)
  /\ Attestations(archive) = <<>>
  /\ \A leaf \in ToSet(Images(archive)) :
       RunnableImage(archive, leaf, leaf.platform, version, revision)
  /\ [i \in DOMAIN Images(archive) |-> Images(archive)[i].platform] = Platforms
  /\ archive.root = NestedIndex(Images(archive))
  /\ archive.blobs = {archive.root[1].content}
       \union UNION {RuntimeBlobs(leaf) : leaf \in ToSet(Images(archive))}

\* class EvidenceArchive: the original input, from the sidecar's metadata and the
\* layers of the runnable archive.
Original(archive, sidecar, p) == Archive(archive.blobs \union sidecar.blobs, sidecar.inputs[p])

\* verify_pair
VerifiedPair(archive, sidecar, version, revision) ==
  /\ sidecar # NoSidecar
  /\ sidecar.revision = revision
  /\ Runnable(archive, version, revision)
  /\ sidecar.image = archive
  /\ \A p \in ToSet(Platforms) :
       LET original == Original(archive, sidecar, p)
       IN  /\ NativeInput(original, p, version, revision)
           /\ Images(original)[1] \in ToSet(Images(archive))
           /\ HasProvenance(original)
  /\ sidecar.blobs \subseteq
       UNION {Metadata(Original(archive, sidecar, p)) : p \in ToSet(Platforms)}

(***************************************************************************)
(* _OciMetadata: the contract of a published archive. It looks for the     *)
(* version and for what the attestations are about, not at the layers and  *)
(* statements themselves.                                                  *)
(***************************************************************************)
MetadataRunnable(archive, leaf, version) ==
  LET config == leaf.content.config
  IN  /\ config \in archive.blobs
      /\ config.kind = "config"
      /\ config.platform # "unknown"
      /\ leaf.platform \in {"none", config.platform}
      /\ config.version = version
      /\ ToSet(leaf.content.layers) \subseteq archive.blobs

MetadataAttestation(archive, leaf) ==
  /\ leaf.platform = "unknown"
  /\ \/ ArtifactForm(archive, leaf)
     \/ ~leaf.content.artifact /\ UnknownConfig(archive, leaf.content.config)
  /\ leaf.content.layers # <<>>
  /\ ToSet(leaf.content.layers) \subseteq {b \in archive.blobs : b.kind = "statement"}

\* walk takes whatever is marked as an attestation for one, an index too. verify:
\* what an attestation is about is one of the runnable images; a legacy one without
\* a reference is about nothing.
OciMetadata(archive, version) ==
  /\ Walkable(archive)
  /\ \A descriptor \in ToSet(Walk(archive.root)) :
       descriptor.content.kind = "index" => ~descriptor.annotated
  /\ \A leaf \in ToSet(Images(archive)) : MetadataRunnable(archive, leaf, version)
  /\ \A leaf \in ToSet(Attestations(archive)) :
       /\ MetadataAttestation(archive, leaf)
       /\ Subject(leaf) \in {image.content : image \in ToSet(Images(archive))}
            \union (IF leaf.content.artifact THEN {} ELSE {NoBlob})
  /\ Images(archive) # <<>>
================================================================================

------------------------- MODULE MCRegistryPublication -------------------------
(***************************************************************************)
(* RegistryPublication with what two native builds may bring: images of    *)
(* the right and of the wrong version, commit, platform and layers, each   *)
(* with attestations about itself and about a stray image, in both forms,  *)
(* flat and nested, with a blob missing, swapped after the receipt, or     *)
(* with the smoke test of another attempt or another image.                *)
(***************************************************************************)
EXTENDS RegistryPublication, TLC

CONSTANTS NewVersion, OldVersion

MCVersions == {NewVersion, OldVersion}
MCImages == <<"monitoring", "exporter">>
Amd == Platforms[1]
Arm == Platforms[2]

(***************************************************************************)
(* An offer is named by its image, its attestation (form, subject,         *)
(* reference, what the statement is about), the graph around them, the     *)
(* blob that is missing, and what became of its receipt or smoke test. The *)
(* amd64 input is as named; the arm64 input is in order.                   *)
(***************************************************************************)
Own == <<"artifact", "image", "none", "image">>
Attested ==
  {"artifact"} \X {"image", "stray"} \X {"none", "image", "stray"} \X {"image", "stray"}
  \union {"legacy"} \X {"none"} \X {"none", "image", "stray"} \X {"image", "stray"}
Names ==
  {"good", "version", "revision", "platform", "layer"}
     \X Attested \X {"flat"} \X {"none"} \X {"sound"}
  \union {"good"} \X {Own} \X {"nested", "marked", "deep", "bare", "alone", "twice", "sbom", "both"}
     \X {"none", "layer", "image", "config", "empty"} \X {"sound"}
  \union {"good", "rebuilt"} \X {Own} \X {"flat"} \X {"none"} \X {"sound", "swapped", "earlier", "other"}

ImageOf(p, version, revision, bytes) ==
  Manifest(Config(p, version, revision, <<bytes>>), <<Layer(bytes)>>, FALSE, NoBlob)
Good(p) == ImageOf(p, NewVersion, NewVersion, "app")
Stray(p) == ImageOf(p, NewVersion, NewVersion, "stray")
ImageNamed(name, p) ==
  CASE name = "good" -> Good(p)
    [] name = "rebuilt" -> ImageOf(p, NewVersion, NewVersion, "rebuilt")
    [] name = "version" -> ImageOf(p, OldVersion, NewVersion, "app")
    [] name = "revision" -> ImageOf(p, NewVersion, OldVersion, "app")
    [] name = "platform" -> ImageOf("linux/386", NewVersion, NewVersion, "app")
    [] name = "layer" -> Manifest(Config(p, NewVersion, NewVersion, <<"app">>),
                                  <<Layer("other")>>, FALSE, NoBlob)

AttestationNamed(name, image, stray) ==
  LET blob(n) == CASE n = "none" -> NoBlob [] n = "image" -> image [] n = "stray" -> stray
      statements == <<Statement(blob(name[4]), "provenance")>>
  IN  IF name[1] = "artifact"
        THEN Descriptor(Manifest(EmptyConfig, statements, TRUE, blob(name[2])),
                        "unknown", FALSE, blob(name[3]))
        ELSE Descriptor(Manifest(Config("unknown", "none", "none", <<>>), statements, FALSE, NoBlob),
                        "unknown", TRUE, blob(name[3]))

Sbom(image) ==
  Descriptor(Manifest(Config("unknown", "none", "none", <<>>), <<Statement(image, "sbom")>>, FALSE, NoBlob),
             "unknown", TRUE, image)

RootNamed(name, runnable, attestation) ==
  LET leaves == <<runnable, attestation>>
      under(manifests, marked) == <<Descriptor(Index(manifests), "none", marked, NoBlob)>>
  IN  CASE name = "flat" -> leaves
        [] name = "nested" -> under(leaves, FALSE)
        [] name = "marked" -> under(leaves, TRUE)
        [] name = "deep" -> under(under(under(leaves, FALSE), FALSE), FALSE)
        [] name = "bare" -> <<runnable>>
        [] name = "alone" -> <<attestation>>
        [] name = "twice" -> leaves \o <<attestation>>
        [] name = "sbom" -> leaves \o <<Sbom(runnable.content)>>
        [] name = "both" -> leaves \o <<[runnable EXCEPT !.content = Stray(runnable.platform)]>>

\* Every blob the root leads to, and the stray image.
ClosureOf(root, stray) ==
  LET whole == Archive({}, root)
  IN  Metadata(whole) \union {stray}
      \union UNION {ToSet(leaf.content.layers) : leaf \in ToSet(Leaves(whole))}

ArchiveNamed(name, p) ==
  LET image == ImageNamed(name[1], p)
      runnable == Descriptor(image, p, FALSE, NoBlob)
      root == RootNamed(name[3], runnable, AttestationNamed(name[2], image, Stray(p)))
      missing == CASE name[4] = "none" -> {}
                   [] name[4] = "layer" -> ToSet(image.layers)
                   [] name[4] = "image" -> {image}
                   [] name[4] = "config" -> {image.config}
                   [] name[4] = "empty" -> {EmptyConfig}
  IN  Archive(ClosureOf(root, Stray(p)) \ missing, root)

InputNamed(name, p) ==
  LET archive == ArchiveNamed(name, p)
      before == ArchiveNamed([name EXCEPT ![3] = "bare"], p)
  IN  [archive |-> archive,
       received |-> IF name[5] = "swapped" THEN before ELSE archive,
       build |-> [platform |-> p, version |-> NewVersion, revision |-> NewVersion,
                  attempt |-> IF name[5] = "earlier" THEN "earlier" ELSE "current",
                  config |-> IF name[5] = "other" THEN Stray(p).config
                                                  ELSE ImageNamed(name[1], p).config]]

MCOffers ==
  [name \in Names |->
     Amd :> InputNamed(name, Amd) @@ Arm :> InputNamed(<<"good", Own, "flat", "none", "sound">>, Arm)]

Symmetry == Permutations(Publishers)
================================================================================

----------------------- MODULE RegistryPublicationProofs -----------------------
(***************************************************************************)
(* Proofs about RegistryPublication. First the registry, for any number of *)
(* publishers, images, versions, foreign pushes and edited releases; what  *)
(* the archives look like plays no part there. Then the archives, for any  *)
(* offers whose indexes name lists, nested and as long as they may be:     *)
(* what an assembly writes is accepted by the release, and what a release  *)
(* accepts was built, tested and attested for its version.                 *)
(***************************************************************************)
EXTENDS RegistryPublication, FiniteSetTheorems, WellFoundedInduction, TLAPS

(* What a tag says of a version was put there by a publisher.              *)
StoredInv == \A i \in Mapped, t \in Tags, v \in Versions : tags[i][t] = v => <<i, v>> \in stored

(* A version tag that is free or of its own version, unless the publisher  *)
(* was surprised there; one that a publisher has copied to.                *)
Free(p, i) == tags[i][job[p].version] \in {"none", job[p].version} \/ <<p, i>> \in surprised
Versioned(i, v) == tags[i][v] = v \/ <<i, v>> \in pushed

(* Where a publisher stands it holds the approved payloads of its version, *)
(* the destinations it has looked at are free, and those it has copied to  *)
(* hold its version.                                                       *)
Loop(p) ==
  /\ pc[p] = "idle" => at[p] = 1
  /\ pc[p] # "idle" => job[p].holds = job[p].version
  /\ pc[p] = "preflight" =>
       /\ at[p] <= Len(ImageOrder)
       /\ \A n \in 1..(at[p] - 1) : Free(p, ImageOrder[n])
  /\ pc[p] = "copy" =>
       /\ at[p] <= Len(Commands(p))
       /\ \A n \in 1..Len(ImageOrder) :
            /\ Free(p, ImageOrder[n])
            /\ n < at[p] => Versioned(ImageOrder[n], job[p].version)
LoopInv == \A p \in Publishers : Loop(p)

(* The resolver holds the approved payloads of a public version, and what  *)
(* it has compared was in the registry.                                    *)
ResolverInv ==
  /\ resolver.pc # "idle" => resolver.holds = resolver.version /\ IsPublic(resolver.version)
  /\ resolver.pc = "compare" => \A n \in 1..(resolver.at - 1) : <<ImageOrder[n], resolver.version>> \in stored
  /\ resolver.pc = "write" => \A i \in Mapped : <<i, resolver.version>> \in stored

IInv ==
  /\ TypeOK /\ IsFiniteSet(assembled)
  /\ LoopInv /\ StoredInv /\ ResolverInv
  /\ LatestIsComplete /\ DeployedIsStored

(***************************************************************************)
(* Images, tags and loops.                                                 *)
(***************************************************************************)
LEMMA OrderFacts ==
  /\ Len(ImageOrder) \in Nat \ {0} /\ DOMAIN ImageOrder = 1..Len(ImageOrder)
  /\ \A n \in 1..Len(ImageOrder) : ImageOrder[n] \in Mapped
  /\ \A i \in Mapped : \E n \in 1..Len(ImageOrder) : i = ImageOrder[n]
<1>1. ImageOrder \in Seq(STRING) /\ ImageOrder # <<>>
  BY PublicationAssumption
<1>2. Len(ImageOrder) \in Nat \ {0} /\ DOMAIN ImageOrder = 1..Len(ImageOrder)
  BY <1>1
<1>3. Mapped = {ImageOrder[n] : n \in DOMAIN ImageOrder}
  BY DEF Mapped, ToSet
<1>4. QED
  BY <1>2, <1>3

LEMMA TagFacts ==
  /\ "latest" \in Tags /\ "latest" \notin Versions /\ Versions \subseteq Tags /\ Versions \subseteq Contents
  /\ "none" \notin Versions /\ "other" \notin Versions /\ "edited" \notin Versions
  /\ "other" \in Contents /\ "none" \in Contents /\ Newest \in Versions
BY PublicationAssumption DEF Tags, Contents

(* A command copies under the version up to the last image, and under      *)
(* latest from there on.                                                   *)
LEMMA CommandFacts ==
  ASSUME TypeOK, NEW p \in Publishers
  PROVE  /\ Len(Commands(p)) \in Nat /\ Len(Commands(p)) <= 2 * Len(ImageOrder)
         /\ Len(Commands(p)) >= Len(ImageOrder)
         /\ \A n \in 1..Len(Commands(p)) :
              /\ Commands(p)[n][1] \in Mapped
              /\ n <= Len(ImageOrder) => Commands(p)[n] = <<ImageOrder[n], job[p].version>>
              /\ n > Len(ImageOrder) => Commands(p)[n][2] = "latest"
<1> DEFINE N == Len(ImageOrder)
           first == [n \in 1..N |-> <<ImageOrder[n], job[p].version>>]
           more == [n \in 1..N |-> <<ImageOrder[n], "latest">>]
           Kinds == Mapped \X Tags
<1>1. N \in Nat /\ job[p].version \in Tags
  BY OrderFacts, TagFacts DEF TypeOK
<1>2. first \in Seq(Kinds) /\ Len(first) = N /\ \A n \in 1..N : first[n] = <<ImageOrder[n], job[p].version>>
  BY <1>1, OrderFacts
<1>3. more \in Seq(Kinds) /\ Len(more) = N /\ \A n \in 1..N : more[n] = <<ImageOrder[n], "latest">>
  BY <1>1, OrderFacts, TagFacts
<1>4. <<>> \in Seq(Kinds) /\ Len(<<>>) = 0
  OBVIOUS
<1>5. Commands(p) = first \o (IF job[p].latest THEN more ELSE <<>>)
  BY DEF Commands
<1> HIDE DEF first, more, Kinds
<1>6. CASE job[p].latest
  <2>1. Commands(p) = first \o more
    BY <1>5, <1>6
  <2>2. Len(Commands(p)) = N + N
    BY <1>1, <1>2, <1>3, <2>1
  <2>3. \A n \in 1..N : Commands(p)[n] = first[n]
    BY <1>1, <1>2, <1>3, <2>1
  <2>4. \A n \in (N + 1)..(N + N) : Commands(p)[n] = more[n - N]
    BY <1>1, <1>2, <1>3, <2>1
  <2>5. ASSUME NEW n \in 1..(N + N)
        PROVE  /\ Commands(p)[n][1] \in Mapped
               /\ n <= N => Commands(p)[n] = <<ImageOrder[n], job[p].version>>
               /\ n > N => Commands(p)[n][2] = "latest"
    <3>1. CASE n <= N
      BY <1>1, <1>2, <2>3, <3>1, OrderFacts
    <3>2. CASE n > N
      <4>1. n - N \in 1..N /\ Commands(p)[n] = more[n - N]
        BY <1>1, <2>4, <3>2
      <4>2. QED
        BY <1>1, <1>3, <3>2, <4>1, OrderFacts
    <3>3. QED
      BY <1>1, <3>1, <3>2
  <2>6. QED
    BY <1>1, <2>2, <2>5
<1>7. CASE ~job[p].latest
  <2>1. Commands(p) = first
    BY <1>2, <1>5, <1>7
  <2>2. QED
    BY <1>1, <1>2, <2>1, OrderFacts
<1>8. QED
  BY <1>6, <1>7

(***************************************************************************)
(* The steps of a publisher.                                               *)
(***************************************************************************)
(* What a step leaves of a publisher that does not take it.                *)
Keeps(q) ==
  /\ pc'[q] = pc[q] /\ at'[q] = at[q] /\ job'[q] = job[q]
  /\ \A i \in Mapped : <<q, i>> \in surprised => <<q, i>> \in surprised'

(* A step that writes a version tag with nothing but its version.          *)
OwnTags ==
  /\ pushed' = pushed
  /\ \A i \in Mapped, v \in Versions : tags'[i][v] \in {tags[i][v], v}

LEMMA KeptLoop ==
  ASSUME TypeOK, NEW q \in Publishers, Loop(q), Keeps(q), OwnTags
  PROVE  Loop(q)'
<1>1. job[q].version \in Versions
  BY DEF TypeOK
<1>2. \A i \in Mapped : Free(q, i) => Free(q, i)'
  BY <1>1 DEF Keeps, OwnTags, Free
<1>3. \A i \in Mapped : Versioned(i, job[q].version) => Versioned(i, job[q].version)'
  BY <1>1 DEF OwnTags, Versioned, Keeps
<1>4. Commands(q)' = Commands(q)
  BY DEF Commands, Keeps
<1>5. at[q] \in 1..2 * Len(ImageOrder)
  BY DEF TypeOK
<1>6. ASSUME pc[q] = "preflight"
      PROVE  /\ at'[q] <= Len(ImageOrder)
             /\ \A n \in 1..(at'[q] - 1) : Free(q, ImageOrder[n])'
  <2>1. at[q] <= Len(ImageOrder) /\ at'[q] = at[q] /\ \A n \in 1..(at[q] - 1) : Free(q, ImageOrder[n])
    BY <1>6 DEF Loop, Keeps
  <2>2. \A n \in 1..(at[q] - 1) : ImageOrder[n] \in Mapped
    BY <1>5, <2>1, OrderFacts
  <2>3. QED
    BY <1>2, <2>1, <2>2
<1>7. ASSUME pc[q] = "copy"
      PROVE  /\ at'[q] <= Len(Commands(q)')
             /\ \A n \in 1..Len(ImageOrder) :
                  /\ Free(q, ImageOrder[n])'
                  /\ n < at'[q] => Versioned(ImageOrder[n], job[q].version)'
  <2>1. /\ at[q] <= Len(Commands(q)) /\ at'[q] = at[q]
        /\ \A n \in 1..Len(ImageOrder) :
             /\ Free(q, ImageOrder[n])
             /\ n < at[q] => Versioned(ImageOrder[n], job[q].version)
    BY <1>7 DEF Loop, Keeps
  <2>2. QED
    BY <1>2, <1>3, <1>4, <2>1, OrderFacts
<1>8. pc'[q] = pc[q] /\ job'[q] = job[q] /\ at'[q] = at[q]
  BY DEF Keeps
<1>9. QED
  BY <1>6, <1>7, <1>8 DEF Loop

LEMMA GoFacts ==
  ASSUME TypeOK, NEW p \in Publishers, NEW place \in {"idle", "preflight", "copy"}, Go(p, place)
  PROVE  /\ pc' \in [Publishers -> {"idle", "preflight", "copy"}]
         /\ at' \in [Publishers -> 1..2 * Len(ImageOrder)]
         /\ job' \in [Publishers -> [version : Versions, latest : BOOLEAN, holds : Contents]]
         /\ surprised' \subseteq surprised
         /\ pc'[p] = place /\ at'[p] = 1
         /\ place # "idle" => job' = job /\ surprised' = surprised
         /\ \A q \in Publishers \ {p} : Keeps(q)
<1>1. NoJob \in [version : Versions, latest : BOOLEAN, holds : Contents]
  BY TagFacts DEF NoJob
<1>2. 1 \in 1..2 * Len(ImageOrder)
  BY OrderFacts
<1>3. pc' \in [Publishers -> {"idle", "preflight", "copy"}] /\ pc'[p] = place
  BY DEF Go, TypeOK
<1>4. at' \in [Publishers -> 1..2 * Len(ImageOrder)] /\ at'[p] = 1
  BY <1>2 DEF Go, TypeOK
<1>5. job' \in [Publishers -> [version : Versions, latest : BOOLEAN, holds : Contents]]
  BY <1>1 DEF Go, TypeOK
<1>6. surprised' \subseteq surprised
  BY DEF Go
<1>7. place # "idle" => job' = job /\ surprised' = surprised
  BY DEF Go
<1>8. ASSUME NEW q \in Publishers \ {p}
      PROVE  Keeps(q)
  <2>1. pc'[q] = pc[q] /\ at'[q] = at[q] /\ job'[q] = job[q]
    BY DEF Go, TypeOK
  <2>2. \A i \in Mapped : <<q, i>> \in surprised => <<q, i>> \in surprised'
    BY DEF Go
  <2>3. QED
    BY <2>1, <2>2 DEF Keeps
<1>9. QED
  BY <1>3, <1>4, <1>5, <1>6, <1>7, <1>8

(* A publisher that stands idle claims nothing.                            *)
LEMMA IdleLoop ==
  ASSUME TypeOK, NEW p \in Publishers, Go(p, "idle")
  PROVE  Loop(p)'
<1>1. pc'[p] = "idle" /\ at'[p] = 1
  BY GoFacts
<1>2. QED
  BY <1>1 DEF Loop

(* A round of a loop, or the step to what follows it.                      *)
LEMMA FurtherFacts ==
  ASSUME TypeOK, NEW p \in Publishers, NEW place \in {"idle", "preflight", "copy"},
         NEW n \in Nat, n <= 2 * Len(ImageOrder), Further(p, n, place)
  PROVE  /\ pc' \in [Publishers -> {"idle", "preflight", "copy"}]
         /\ at' \in [Publishers -> 1..2 * Len(ImageOrder)]
         /\ job' \in [Publishers -> [version : Versions, latest : BOOLEAN, holds : Contents]]
         /\ surprised' \subseteq surprised
         /\ \/ at[p] < n /\ at'[p] = at[p] + 1 /\ pc' = pc /\ job' = job /\ surprised' = surprised
            \/ at[p] >= n /\ Go(p, place)
         /\ \A q \in Publishers \ {p} : Keeps(q)
<1>1. at[p] \in 1..2 * Len(ImageOrder) /\ at \in [Publishers -> 1..2 * Len(ImageOrder)]
  BY DEF TypeOK
<1>2. CASE at[p] < n
  <2>1. at' = [at EXCEPT ![p] = @ + 1] /\ pc' = pc /\ job' = job /\ surprised' = surprised
    BY <1>2 DEF Further
  <2>2. at[p] + 1 \in 1..2 * Len(ImageOrder)
    BY <1>1, <1>2, OrderFacts
  <2>3. at' \in [Publishers -> 1..2 * Len(ImageOrder)] /\ at'[p] = at[p] + 1
    BY <1>1, <2>1, <2>2
  <2>4. \A q \in Publishers \ {p} : Keeps(q)
    BY <1>1, <2>1 DEF Keeps
  <2>5. QED
    BY <1>2, <2>1, <2>3, <2>4 DEF TypeOK
<1>3. CASE ~(at[p] < n)
  <2>1. Go(p, place) /\ at[p] >= n
    BY <1>1, <1>3 DEF Further
  <2>2. QED
    BY <2>1, GoFacts
<1>4. QED
  BY <1>2, <1>3

(* What a publisher's step keeps of the rest.                              *)
LEMMA PublisherType ==
  ASSUME TypeOK, IsFiniteSet(assembled),
         UNCHANGED <<releaseVars, resolverVars, pushed>>,
         pc' \in [Publishers -> {"idle", "preflight", "copy"}],
         at' \in [Publishers -> 1..2 * Len(ImageOrder)],
         job' \in [Publishers -> [version : Versions, latest : BOOLEAN, holds : Contents]],
         surprised' \subseteq surprised,
         tags' \in [Mapped -> [Tags -> Contents]],
         stored' \subseteq Mapped \X Contents
  PROVE  TypeOK' /\ IsFiniteSet(assembled)'
BY DEF TypeOK, releaseVars, resolverVars

LEMMA PublisherInv ==
  ASSUME IInv, NEW p \in Publishers, OwnTags, Loop(p)',
         \A q \in Publishers \ {p} : Keeps(q),
         UNCHANGED <<releaseVars, resolverVars, pushed>>,
         stored \subseteq stored'
  PROVE  LoopInv' /\ ResolverInv' /\ DeployedIsStored'
<1>1. LoopInv'
  <2>1. ASSUME NEW q \in Publishers
        PROVE  Loop(q)'
    <3>1. CASE q = p
      BY <3>1
    <3>2. CASE q # p
      BY <3>2, KeptLoop DEF IInv, LoopInv
    <3>3. QED
      BY <3>1, <3>2
  <2>2. QED
    BY <2>1 DEF LoopInv
<1>2. ResolverInv'
  BY DEF IInv, ResolverInv, IsPublic, releaseVars, resolverVars
<1>3. DeployedIsStored'
  BY DEF IInv, DeployedIsStored, IsPublic, releaseVars, resolverVars
<1>4. QED
  BY <1>1, <1>2, <1>3

(* A publisher's step that writes nothing to the registry.                 *)
LEMMA QuietInv ==
  ASSUME IInv, UNCHANGED <<tags, stored, pushed>>
  PROVE  OwnTags /\ StoredInv' /\ LatestIsComplete'
<1>1. OwnTags
  BY DEF OwnTags
<1>2. StoredInv'
  BY DEF IInv, StoredInv
<1>3. LatestIsComplete'
  BY DEF IInv, LatestIsComplete
<1>4. QED
  BY <1>1, <1>2, <1>3

LEMMA BeginStep ==
  ASSUME IInv, NEW p \in Publishers, Begin(p)
  PROVE  IInv'
<1>1. PICK v \in Versions, latest \in BOOLEAN :
        /\ VerifiedAssets(v)
        /\ job' = [job EXCEPT ![p] = [version |-> v, latest |-> latest, holds |-> Payloads(v)]]
  BY DEF Begin
<1>2. /\ UNCHANGED <<releaseVars, resolverVars, pushed>>
      /\ UNCHANGED <<tags, stored, pushed>> /\ at' = at /\ surprised' = surprised
      /\ pc[p] = "idle" /\ pc' = [pc EXCEPT ![p] = "preflight"]
  BY DEF Begin, releaseVars, resolverVars, registryVars, othersVars
<1>3. Payloads(v) = v /\ v \in Contents
  BY <1>1, TagFacts DEF VerifiedAssets, Payloads
<1>4. /\ TypeOK /\ IsFiniteSet(assembled) /\ LoopInv
  BY DEF IInv
<1>5. /\ pc' \in [Publishers -> {"idle", "preflight", "copy"}]
      /\ job' \in [Publishers -> [version : Versions, latest : BOOLEAN, holds : Contents]]
      /\ pc'[p] = "preflight"
      /\ job'[p] = [version |-> v, latest |-> latest, holds |-> v]
  BY <1>1, <1>2, <1>3, <1>4 DEF TypeOK
<1>6. \A q \in Publishers \ {p} : Keeps(q)
  BY <1>1, <1>2, <1>4 DEF TypeOK, Keeps
<1>7. at'[p] = 1
  BY <1>2, <1>4 DEF LoopInv, Loop
<1>8. Loop(p)'
  BY <1>5, <1>7, OrderFacts DEF Loop
<1>9. TypeOK' /\ IsFiniteSet(assembled)'
  <2>1. /\ at' \in [Publishers -> 1..2 * Len(ImageOrder)] /\ surprised' \subseteq surprised
        /\ tags' \in [Mapped -> [Tags -> Contents]] /\ stored' \subseteq Mapped \X Contents
    BY <1>2, <1>4 DEF TypeOK
  <2>2. QED
    BY <1>2, <1>4, <1>5, <2>1, PublisherType
<1>10. QED
  BY <1>2, <1>6, <1>8, <1>9, QuietInv, PublisherInv DEF IInv

LEMMA StopStep ==
  ASSUME IInv, NEW p \in Publishers, Stop(p)
  PROVE  IInv'
<1>1. /\ Go(p, "idle") /\ UNCHANGED <<releaseVars, resolverVars, pushed>>
      /\ UNCHANGED <<tags, stored, pushed>>
  BY DEF Stop, registryVars
<1>2. TypeOK /\ IsFiniteSet(assembled)
  BY DEF IInv
<1>3. Loop(p)'
  BY <1>1, <1>2, IdleLoop
<1>4. \A q \in Publishers \ {p} : Keeps(q)
  BY <1>1, <1>2, GoFacts
<1>5. TypeOK' /\ IsFiniteSet(assembled)'
  <2>1. tags' \in [Mapped -> [Tags -> Contents]] /\ stored' \subseteq Mapped \X Contents
    BY <1>1, <1>2 DEF TypeOK
  <2>2. QED
    BY <1>1, <1>2, <2>1, GoFacts, PublisherType
<1>6. QED
  BY <1>1, <1>3, <1>4, <1>5, QuietInv, PublisherInv DEF IInv

LEMMA PreflightStep ==
  ASSUME IInv, NEW p \in Publishers, Preflight(p)
  PROVE  IInv'
<1> DEFINE N == Len(ImageOrder)
<1>1. /\ UNCHANGED <<releaseVars, resolverVars, pushed>> /\ UNCHANGED <<tags, stored, pushed>>
      /\ pc[p] = "preflight"
      /\ IF Unpublished(p) THEN Further(p, N, "copy") ELSE Go(p, "idle")
  BY DEF Preflight, registryVars
<1>2. TypeOK /\ IsFiniteSet(assembled) /\ Loop(p)
  BY DEF IInv, LoopInv
<1>3. N \in Nat /\ N <= 2 * N /\ N > 0
  BY OrderFacts
<1>4. /\ at[p] \in 1..N /\ job[p].holds = job[p].version
      /\ \A n \in 1..(at[p] - 1) : Free(p, ImageOrder[n])
  BY <1>1, <1>2, <1>3 DEF Loop, TypeOK
<1>5. tags' \in [Mapped -> [Tags -> Contents]] /\ stored' \subseteq Mapped \X Contents
  BY <1>1, <1>2 DEF TypeOK
<1>6. CASE ~Unpublished(p)
  <2>1. Go(p, "idle")
    BY <1>1, <1>6
  <2>2. Loop(p)' /\ \A q \in Publishers \ {p} : Keeps(q)
    BY <1>2, <2>1, IdleLoop, GoFacts
  <2>3. TypeOK' /\ IsFiniteSet(assembled)'
    BY <1>1, <1>2, <1>5, <2>1, GoFacts, PublisherType
  <2>4. QED
    BY <1>1, <2>2, <2>3, QuietInv, PublisherInv DEF IInv
<1>7. CASE Unpublished(p)
  <2>1. Further(p, N, "copy")
    BY <1>1, <1>7
  <2>2. Free(p, ImageOrder[at[p]])
    BY <1>7 DEF Unpublished, Free
  <2>3. \A n \in 1..at[p] : Free(p, ImageOrder[n])
    BY <1>3, <1>4, <2>2
  <2>4. TypeOK' /\ IsFiniteSet(assembled)' /\ \A q \in Publishers \ {p} : Keeps(q)
    BY <1>1, <1>2, <1>3, <1>5, <2>1, FurtherFacts, PublisherType
  <2>5. CASE at[p] < N
    <3>1. at'[p] = at[p] + 1 /\ pc' = pc /\ job' = job /\ surprised' = surprised
      BY <1>2, <1>3, <1>4, <2>1, <2>5, FurtherFacts
    <3>2. \A n \in 1..(at'[p] - 1) : Free(p, ImageOrder[n])'
      BY <1>1, <1>3, <1>4, <2>3, <3>1 DEF Free
    <3>3. Loop(p)'
      BY <1>1, <1>3, <1>4, <2>5, <3>1, <3>2 DEF Loop
    <3>4. QED
      BY <1>1, <2>4, <3>3, QuietInv, PublisherInv DEF IInv
  <2>6. CASE at[p] = N
    <3>1. Go(p, "copy")
      BY <1>3, <2>1, <2>6 DEF Further
    <3>2. pc'[p] = "copy" /\ at'[p] = 1 /\ job' = job /\ surprised' = surprised
      BY <1>2, <3>1, GoFacts
    <3>3. \A n \in 1..N : Free(p, ImageOrder[n])'
      BY <1>1, <1>3, <2>3, <2>6, <3>2 DEF Free
    <3>4. Len(Commands(p))' >= 1
      BY <1>2, <1>3, <3>2, CommandFacts DEF Commands
    <3>5. Len(Commands(p))' \in Nat
      BY <1>2, <3>2, CommandFacts DEF Commands
    <3>6. Loop(p)'
      BY <1>3, <1>4, <3>2, <3>3, <3>4, <3>5 DEF Loop
    <3>7. QED
      BY <1>1, <2>4, <3>6, QuietInv, PublisherInv DEF IInv
  <2>7. QED
    BY <1>3, <1>4, <2>5, <2>6
<1>8. QED
  BY <1>6, <1>7

(* What a copy writes: the approved payloads, under the version up to the  *)
(* last image, and under latest only when all of them are there.           *)
LEMMA CopyFacts ==
  ASSUME IInv, NEW p \in Publishers, Copy(p)
  PROVE  \E image \in Mapped, tag \in Tags :
           /\ \A i \in Mapped, t \in Tags :
                tags'[i][t] = IF i = image /\ t = tag THEN job[p].version ELSE tags[i][t]
           /\ stored' = stored \union {<<image, job[p].version>>}
           /\ tags' \in [Mapped -> [Tags -> Contents]]
           /\ job[p].version \in Versions /\ pc[p] = "copy"
           /\ \/ /\ tag = job[p].version /\ Free(p, image)
                 /\ at[p] <= Len(ImageOrder) /\ image = ImageOrder[at[p]]
              \/ /\ tag = "latest" /\ at[p] > Len(ImageOrder)
                 /\ \A j \in Mapped : Versioned(j, job[p].version)
<1> DEFINE image == Commands(p)[at[p]][1]
           tag == Commands(p)[at[p]][2]
           v == job[p].version
<1>1. /\ pc[p] = "copy" /\ tags' = [tags EXCEPT ![image][tag] = job[p].holds]
      /\ stored' = stored \union {<<image, job[p].holds>>}
  BY DEF Copy
<1>2. TypeOK /\ Loop(p)
  BY DEF IInv, LoopInv
<1>3. /\ job[p].holds = v /\ at[p] <= Len(Commands(p))
      /\ \A n \in 1..Len(ImageOrder) :
           /\ Free(p, ImageOrder[n])
           /\ n < at[p] => Versioned(ImageOrder[n], v)
  BY <1>1, <1>2 DEF Loop
<1>4. v \in Versions /\ at[p] \in 1..2 * Len(ImageOrder) /\ tags \in [Mapped -> [Tags -> Contents]]
  BY <1>2 DEF TypeOK
<1>5. at[p] \in 1..Len(Commands(p)) /\ Len(ImageOrder) \in Nat
  BY <1>2, <1>3, <1>4, CommandFacts, OrderFacts
<1>6. image \in Mapped
  BY <1>2, <1>5, CommandFacts
<1>7. \/ /\ tag = v /\ Free(p, image)
         /\ at[p] <= Len(ImageOrder) /\ image = ImageOrder[at[p]]
      \/ /\ tag = "latest" /\ at[p] > Len(ImageOrder)
         /\ \A j \in Mapped : Versioned(j, v)
  <2>1. CASE at[p] <= Len(ImageOrder)
    <3>1. Commands(p)[at[p]] = <<ImageOrder[at[p]], v>>
      BY <1>2, <1>5, <2>1, CommandFacts
    <3>2. QED
      BY <1>3, <1>5, <2>1, <3>1
  <2>2. CASE at[p] > Len(ImageOrder)
    <3>1. tag = "latest"
      BY <1>2, <1>5, <2>2, CommandFacts
    <3>2. \A n \in 1..Len(ImageOrder) : Versioned(ImageOrder[n], v)
      BY <1>3, <1>5, <2>2
    <3>3. QED
      BY <2>2, <3>1, <3>2, OrderFacts
  <2>3. QED
    BY <1>4, <1>5, <2>1, <2>2
<1>8. tag \in Tags
  BY <1>4, <1>7, TagFacts
<1> HIDE DEF image, tag
<1>9. tags' = [tags EXCEPT ![image] = [tags[image] EXCEPT ![tag] = v]]
  BY <1>1, <1>3, <1>4, <1>6
<1>10. v \in Contents
  BY <1>4, TagFacts
<1>11. tags' \in [Mapped -> [Tags -> Contents]]
  BY <1>4, <1>6, <1>8, <1>9, <1>10
<1>12. \A i \in Mapped, t \in Tags :
         tags'[i][t] = IF i = image /\ t = tag THEN v ELSE tags[i][t]
  BY <1>4, <1>6, <1>8, <1>9, <1>10
<1>13. stored' = stored \union {<<image, v>>}
  BY <1>1, <1>3
<1>14. QED
  BY <1>1, <1>4, <1>6, <1>7, <1>8, <1>11, <1>12, <1>13

LEMMA CopyStep ==
  ASSUME IInv, NEW p \in Publishers, Copy(p)
  PROVE  IInv'
<1> DEFINE v == job[p].version
           N == Len(ImageOrder)
<1>1. PICK image \in Mapped, tag \in Tags :
        /\ \A i \in Mapped, t \in Tags :
             tags'[i][t] = IF i = image /\ t = tag THEN v ELSE tags[i][t]
        /\ stored' = stored \union {<<image, v>>}
        /\ tags' \in [Mapped -> [Tags -> Contents]]
        /\ v \in Versions /\ pc[p] = "copy"
        /\ \/ /\ tag = v /\ Free(p, image)
              /\ at[p] <= N /\ image = ImageOrder[at[p]]
           \/ /\ tag = "latest" /\ at[p] > N
              /\ \A j \in Mapped : Versioned(j, v)
  BY CopyFacts
<1>2. /\ UNCHANGED <<releaseVars, resolverVars, pushed>>
      /\ Further(p, Len(Commands(p)), "idle") \/ Go(p, "idle")
  BY DEF Copy
<1>3. TypeOK /\ IsFiniteSet(assembled) /\ Loop(p)
  BY DEF IInv, LoopInv
<1>4. OwnTags
  BY <1>1, <1>2, TagFacts DEF OwnTags
<1>5. StoredInv'
  <2>1. ASSUME NEW i \in Mapped, NEW t \in Tags, NEW w \in Versions, tags'[i][t] = w
        PROVE  <<i, w>> \in stored'
    BY <1>1, <2>1 DEF IInv, StoredInv
  <2>2. QED
    BY <2>1 DEF StoredInv
<1>6. LatestIsComplete'
  <2>1. ASSUME NEW w \in Versions, NEW i \in Mapped, NEW j \in Mapped, tags'[i]["latest"] = w
        PROVE  tags'[j][w] = w \/ <<j, w>> \in pushed'
    <3>1. CASE tag = "latest" /\ i = image
      <4>1. w = v
        BY <1>1, <2>1, <3>1
      <4>2. Versioned(j, v)
        BY <1>1, <3>1, TagFacts
      <4>3. QED
        BY <1>1, <1>4, <4>1, <4>2 DEF OwnTags, Versioned
    <3>2. CASE ~(tag = "latest" /\ i = image)
      <4>1. tags[i]["latest"] = w
        BY <1>1, <2>1, <3>2, TagFacts
      <4>2. tags[j][w] = w \/ <<j, w>> \in pushed
        BY <4>1 DEF IInv, LatestIsComplete
      <4>3. QED
        BY <1>4, <4>2 DEF OwnTags
    <3>3. QED
      BY <3>1, <3>2
  <2>2. QED
    BY <2>1 DEF LatestIsComplete
<1>7. stored' \subseteq Mapped \X Contents /\ stored \subseteq stored'
  BY <1>1, <1>3, TagFacts DEF TypeOK
<1>8. CASE Go(p, "idle")
  <2>1. Loop(p)' /\ \A q \in Publishers \ {p} : Keeps(q)
    BY <1>3, <1>8, IdleLoop, GoFacts
  <2>2. TypeOK' /\ IsFiniteSet(assembled)'
    BY <1>1, <1>2, <1>3, <1>7, <1>8, GoFacts, PublisherType
  <2>3. QED
    BY <1>2, <1>4, <1>5, <1>6, <1>7, <2>1, <2>2, PublisherInv DEF IInv
<1>9. CASE ~Go(p, "idle")
  <2>1. Further(p, Len(Commands(p)), "idle")
    BY <1>2, <1>9
  <2>2. Len(Commands(p)) \in Nat /\ Len(Commands(p)) <= 2 * N /\ N \in Nat
    BY <1>3, CommandFacts, OrderFacts
  <2>3. TypeOK' /\ IsFiniteSet(assembled)' /\ \A q \in Publishers \ {p} : Keeps(q)
    BY <1>1, <1>2, <1>3, <1>7, <2>1, <2>2, FurtherFacts, PublisherType
  <2>4. at[p] < Len(Commands(p)) /\ at'[p] = at[p] + 1 /\ pc' = pc /\ job' = job /\ surprised' = surprised
    BY <1>3, <1>9, <2>1, <2>2, FurtherFacts
  <2>5. at[p] \in Nat /\ at[p] >= 1
    BY <1>3 DEF TypeOK
  <2>6. /\ job[p].holds = v
        /\ \A n \in 1..N : Free(p, ImageOrder[n]) /\ (n < at[p] => Versioned(ImageOrder[n], v))
    BY <1>1, <1>3 DEF Loop
  <2>7. Commands(p)' = Commands(p)
    BY <2>4 DEF Commands
  <2>8. \A n \in 1..N : Free(p, ImageOrder[n])'
    BY <1>1, <1>4, <2>4, <2>6, OrderFacts DEF Free, OwnTags
  <2>9. \A n \in 1..N : n < at'[p] => Versioned(ImageOrder[n], v)'
    <3>1. ASSUME NEW n \in 1..N, n < at'[p]
          PROVE  Versioned(ImageOrder[n], v)'
      <4>1. ImageOrder[n] \in Mapped /\ v' = v
        BY <2>4, OrderFacts
      <4>2. CASE n < at[p]
        BY <1>1, <1>4, <2>6, <4>1, <4>2 DEF OwnTags, Versioned
      <4>3. CASE n = at[p]
        <5>1. tag = v /\ image = ImageOrder[n]
          BY <1>1, <2>2, <2>5, <4>3
        <5>2. tags'[ImageOrder[n]][v] = v
          BY <1>1, <4>1, <5>1
        <5>3. QED
          BY <4>1, <5>2 DEF Versioned
      <4>4. QED
        BY <2>2, <2>4, <2>5, <3>1, <4>2, <4>3
    <3>2. QED
      BY <3>1
  <2>10. Loop(p)'
    <3>1. pc'[p] = "copy" /\ job'[p].holds = job'[p].version /\ at'[p] <= Len(Commands(p)')
      BY <1>1, <2>2, <2>4, <2>5, <2>6, <2>7
    <3>2. QED
      BY <2>4, <2>8, <2>9, <3>1 DEF Loop
  <2>11. QED
    BY <1>2, <1>4, <1>5, <1>6, <1>7, <2>3, <2>10, PublisherInv DEF IInv
<1>10. QED
  BY <1>8, <1>9

(***************************************************************************)
(* The steps of others: foreign pushes, the resolver, the release.         *)
(***************************************************************************)
LEMMA PushStep ==
  ASSUME IInv, NEW i \in Mapped, NEW t \in Tags, Push(i, t)
  PROVE  IInv'
<1>1. /\ tags' = [tags EXCEPT ![i][t] = "other"]
      /\ pushed' = pushed \union {<<i, t>>}
      /\ surprised' = surprised \union
           {<<p, i>> : p \in {q \in Publishers : job[q].version = t /\ i \in FoundFree(q)}}
      /\ UNCHANGED <<assembled, public, edited, stored, pc, job, at, resolver, output>>
  BY DEF Push, releaseVars, publisherVars, resolverVars
<1>2. TypeOK /\ IsFiniteSet(assembled)
  BY DEF IInv
<1>3. tags' = [tags EXCEPT ![i] = [tags[i] EXCEPT ![t] = "other"]]
  BY <1>1, <1>2 DEF TypeOK
<1>4. tags' \in [Mapped -> [Tags -> Contents]]
  BY <1>2, <1>3, TagFacts DEF TypeOK
<1>5. \A j \in Mapped, u \in Tags : tags'[j][u] = IF j = i /\ u = t THEN "other" ELSE tags[j][u]
  BY <1>2, <1>3 DEF TypeOK
<1>6. TypeOK' /\ IsFiniteSet(assembled)'
  <2>1. pushed' \subseteq Mapped \X Tags
    BY <1>1, <1>2 DEF TypeOK
  <2>2. surprised' \subseteq Publishers \X Mapped
    BY <1>1, <1>2 DEF TypeOK
  <2>3. QED
    BY <1>1, <1>2, <1>4, <2>1, <2>2 DEF TypeOK
<1>7. StoredInv'
  BY <1>1, <1>5, TagFacts DEF IInv, StoredInv
<1>8. LatestIsComplete'
  <2>1. ASSUME NEW w \in Versions, NEW k \in Mapped, NEW j \in Mapped, tags'[k]["latest"] = w
        PROVE  tags'[j][w] = w \/ <<j, w>> \in pushed'
    <3>1. tags[k]["latest"] = w
      BY <1>5, <2>1, TagFacts
    <3>2. tags[j][w] = w \/ <<j, w>> \in pushed
      BY <3>1 DEF IInv, LatestIsComplete
    <3>3. QED
      BY <1>1, <1>5, <3>2, TagFacts
  <2>2. QED
    BY <2>1 DEF LatestIsComplete
<1>9. ResolverInv' /\ DeployedIsStored'
  BY <1>1 DEF IInv, ResolverInv, DeployedIsStored, IsPublic
<1>10. ASSUME NEW q \in Publishers
       PROVE  Loop(q)'
  <2>1. Loop(q) /\ job[q].version \in Versions /\ at[q] \in 1..2 * Len(ImageOrder)
    BY <1>2 DEF IInv, LoopInv, TypeOK
  <2>2. job'[q] = job[q] /\ pc'[q] = pc[q] /\ at'[q] = at[q] /\ Commands(q)' = Commands(q)
    BY <1>1 DEF Commands
  <2>3. ASSUME NEW j \in Mapped, Free(q, j), j \in FoundFree(q)
        PROVE  Free(q, j)'
    <3>1. CASE j = i /\ t = job[q].version
      <4>1. <<q, j>> \in surprised'
        BY <1>1, <2>3, <3>1
      <4>2. QED
        BY <4>1 DEF Free
    <3>2. CASE ~(j = i /\ t = job[q].version)
      <4>1. tags'[j][job[q].version] = tags[j][job[q].version]
        BY <1>5, <2>1, <3>2, TagFacts
      <4>2. QED
        BY <1>1, <2>2, <2>3, <4>1 DEF Free
    <3>3. QED
      BY <3>1, <3>2
  <2>4. ASSUME NEW j \in Mapped, Versioned(j, job[q].version)
        PROVE  Versioned(j, job[q].version)'
    BY <1>1, <1>5, <2>1, <2>2, <2>4, TagFacts DEF Versioned
  <2>5. ASSUME pc[q] = "preflight"
        PROVE  \A n \in 1..(at[q] - 1) : Free(q, ImageOrder[n])'
    <3>1. ASSUME NEW n \in 1..(at[q] - 1)
          PROVE  Free(q, ImageOrder[n])'
      <4>1. at[q] <= Len(ImageOrder) /\ Free(q, ImageOrder[n])
        BY <2>1, <2>5 DEF Loop
      <4>2. ImageOrder[n] \in Mapped
        BY <2>1, <4>1, OrderFacts
      <4>3. ImageOrder[n] \in FoundFree(q)
        BY <2>5 DEF FoundFree
      <4>4. QED
        BY <2>3, <4>1, <4>2, <4>3
    <3>2. QED
      BY <3>1
  <2>6. ASSUME pc[q] = "copy"
        PROVE  \A n \in 1..Len(ImageOrder) :
                 Free(q, ImageOrder[n])' /\ (n < at[q] => Versioned(ImageOrder[n], job[q].version)')
    <3>1. FoundFree(q) = Mapped
      BY <2>6 DEF FoundFree
    <3>2. \A n \in 1..Len(ImageOrder) :
            Free(q, ImageOrder[n]) /\ (n < at[q] => Versioned(ImageOrder[n], job[q].version))
      BY <2>1, <2>6 DEF Loop
    <3>3. QED
      BY <2>3, <2>4, <3>1, <3>2, OrderFacts
  <2>7. QED
    BY <2>1, <2>2, <2>5, <2>6 DEF Loop
<1>11. QED
  BY <1>6, <1>7, <1>8, <1>9, <1>10 DEF IInv, LoopInv

(* The publishers and the registry, when others move.                      *)
LEMMA ElsewhereInv ==
  ASSUME IInv, UNCHANGED <<tags, stored, pc, job, at, pushed, surprised>>
  PROVE  LoopInv' /\ StoredInv' /\ LatestIsComplete'
<1>1. OwnTags /\ StoredInv' /\ LatestIsComplete'
  BY QuietInv
<1>2. TypeOK /\ \A q \in Publishers : Loop(q) /\ Keeps(q)
  BY DEF IInv, LoopInv, Keeps
<1>3. QED
  BY <1>1, <1>2, KeptLoop DEF LoopInv

LEMMA ResolverStep ==
  ASSUME IInv, Resolve \/ Compare \/ WriteOutput
  PROVE  IInv'
<1>1. /\ UNCHANGED <<assembled, public, edited>>
      /\ UNCHANGED <<tags, stored, pc, job, at, pushed, surprised>>
  BY DEF Resolve, Compare, WriteOutput, releaseVars, registryVars, publisherVars, othersVars
<1>2. TypeOK /\ IsFiniteSet(assembled) /\ ResolverInv /\ DeployedIsStored /\ StoredInv
  BY DEF IInv
<1>3. LoopInv' /\ StoredInv' /\ LatestIsComplete'
  BY <1>1, ElsewhereInv
<1> DEFINE Kind == [pc : {"idle", "compare", "write"}, version : Versions, holds : Contents,
                    at : 1..Len(ImageOrder)]
<1>4. resolver \in Kind /\ output \in Versions \union {"none"}
  BY <1>2 DEF TypeOK
<1>5. NoResolution \in Kind
  BY OrderFacts, TagFacts DEF NoResolution
<1>6. ASSUME resolver' \in Kind, output' \in Versions \union {"none"}
      PROVE  TypeOK' /\ IsFiniteSet(assembled)'
  BY <1>1, <1>2, <1>6 DEF TypeOK
<1>7. ASSUME resolver' = NoResolution
      PROVE  ResolverInv'
  BY <1>7 DEF ResolverInv, NoResolution
<1>8. ASSUME output' = output
      PROVE  DeployedIsStored'
  BY <1>1, <1>2, <1>8 DEF DeployedIsStored, IsPublic
<1>9. CASE Resolve
  <2>1. PICK v \in Versions :
          /\ VerifiedAssets(v)
          /\ resolver' = [pc |-> "compare", version |-> v, holds |-> Payloads(v), at |-> 1]
    BY <1>9 DEF Resolve
  <2>2. output' = output
    BY <1>9 DEF Resolve
  <2>3. Payloads(v) = v /\ v \in Contents /\ IsPublic(v)
    BY <2>1, TagFacts DEF VerifiedAssets, Payloads
  <2>4. resolver' \in Kind
    BY <2>1, <2>3, OrderFacts
  <2>5. ResolverInv'
    BY <1>1, <2>1, <2>3 DEF ResolverInv, IsPublic
  <2>6. QED
    BY <1>3, <1>4, <1>6, <1>8, <2>2, <2>4, <2>5 DEF IInv
<1>10. CASE Compare
  <2>1. /\ resolver.pc = "compare" /\ output' = output
        /\ IF ~SameDigest(ImageOrder[resolver.at]) THEN resolver' = NoResolution
           ELSE IF resolver.at < Len(ImageOrder) THEN resolver' = [resolver EXCEPT !.at = @ + 1]
           ELSE resolver' = [resolver EXCEPT !.pc = "write"]
    BY <1>10 DEF Compare, ResolverAt, ResolverDone
  <2>2. CASE ~SameDigest(ImageOrder[resolver.at])
    BY <1>3, <1>4, <1>5, <1>6, <1>7, <1>8, <2>1, <2>2 DEF IInv
  <2>3. CASE SameDigest(ImageOrder[resolver.at])
    <3>1. resolver.at \in 1..Len(ImageOrder) /\ Len(ImageOrder) \in Nat /\ resolver.version \in Versions
      BY <1>4, OrderFacts
    <3>2. resolver.holds = resolver.version /\ IsPublic(resolver.version)
      BY <1>2, <2>1 DEF ResolverInv
    <3>3. <<ImageOrder[resolver.at], resolver.version>> \in stored
      BY <1>2, <2>3, <3>1, <3>2, OrderFacts, TagFacts DEF SameDigest, StoredInv
    <3>4. \A n \in 1..resolver.at : <<ImageOrder[n], resolver.version>> \in stored
      BY <1>2, <2>1, <3>1, <3>3 DEF ResolverInv
    <3>5. CASE resolver.at < Len(ImageOrder)
      <4>1. resolver' = [resolver EXCEPT !.at = resolver.at + 1]
        BY <2>1, <2>3, <3>5
      <4>2. /\ resolver' \in Kind /\ resolver'.pc = "compare" /\ resolver'.at = resolver.at + 1
            /\ resolver'.version = resolver.version /\ resolver'.holds = resolver.holds
        BY <1>4, <2>1, <3>1, <3>5, <4>1
      <4>3. resolver'.at - 1 = resolver.at
        BY <3>1, <4>2
      <4>4. ResolverInv'
        BY <1>1, <3>2, <3>4, <4>2, <4>3 DEF ResolverInv, IsPublic
      <4>5. QED
        BY <1>3, <1>4, <1>6, <1>8, <2>1, <4>2, <4>4 DEF IInv
    <3>6. CASE ~(resolver.at < Len(ImageOrder))
      <4>1. resolver' = [resolver EXCEPT !.pc = "write"] /\ resolver.at = Len(ImageOrder)
        BY <2>1, <2>3, <3>1, <3>6
      <4>2. /\ resolver' \in Kind /\ resolver'.pc = "write"
            /\ resolver'.version = resolver.version /\ resolver'.holds = resolver.holds
        BY <1>4, <4>1
      <4>3. \A i \in Mapped : <<i, resolver.version>> \in stored
        BY <3>4, <4>1, OrderFacts
      <4>4. ResolverInv'
        BY <1>1, <3>2, <4>2, <4>3 DEF ResolverInv, IsPublic
      <4>5. QED
        BY <1>3, <1>4, <1>6, <1>8, <2>1, <4>2, <4>4 DEF IInv
    <3>7. QED
      BY <3>5, <3>6
  <2>4. QED
    BY <2>2, <2>3
<1>11. CASE WriteOutput
  <2>1. resolver.pc = "write" /\ output' \in {output, resolver.version} /\ resolver' = NoResolution
    BY <1>11 DEF WriteOutput, ResolverAt, ResolverDone
  <2>2. IsPublic(resolver.version) /\ \A i \in Mapped : <<i, resolver.version>> \in stored
    BY <1>2, <2>1 DEF ResolverInv
  <2>3. DeployedIsStored'
    BY <1>1, <1>2, <2>1, <2>2 DEF DeployedIsStored, IsPublic
  <2>4. output' \in Versions \union {"none"}
    BY <1>4, <2>1
  <2>5. QED
    BY <1>3, <1>5, <1>6, <1>7, <2>1, <2>3, <2>4 DEF IInv
<1>12. QED
  BY <1>9, <1>10, <1>11

(* What the public release claims stays public.                            *)
LEMMA ReleaseInv ==
  ASSUME IInv, public => public', UNCHANGED <<stored, resolver, output>>
  PROVE  ResolverInv' /\ DeployedIsStored'
BY DEF IInv, ResolverInv, DeployedIsStored, IsPublic

LEMMA ReleaseStep ==
  ASSUME IInv, Assemble \/ Release \/ EditAsset
  PROVE  IInv'
<1>1. /\ UNCHANGED <<tags, stored, pc, job, at, pushed, surprised>>
      /\ UNCHANGED <<stored, resolver, output>> /\ tags' = tags
  BY DEF Assemble, Release, EditAsset, registryVars, publisherVars, resolverVars, othersVars
<1>2. public => public'
  BY DEF Assemble, Release, EditAsset
<1>3. LoopInv' /\ StoredInv' /\ LatestIsComplete' /\ ResolverInv' /\ DeployedIsStored'
  BY <1>1, <1>2, ElsewhereInv, ReleaseInv
<1>4. TypeOK /\ IsFiniteSet(assembled)
  BY DEF IInv
<1>5. /\ assembled' \subseteq (DOMAIN Offers) \X BOOLEAN /\ IsFiniteSet(assembled')
      /\ Cardinality(assembled') <= MaxAssemblies
      /\ public' \in BOOLEAN /\ edited' \subseteq Versions
  <2>1. /\ assembled \subseteq (DOMAIN Offers) \X BOOLEAN /\ Cardinality(assembled) <= MaxAssemblies
        /\ public \in BOOLEAN /\ edited \subseteq Versions
        /\ Cardinality(assembled) \in Nat /\ MaxAssemblies \in Nat
    BY <1>4, FS_CardinalityType, PublicationAssumption DEF TypeOK
  <2>2. CASE Assemble
    <3>1. Cardinality(assembled) < MaxAssemblies /\ public' = public /\ edited' = edited
      BY <2>2 DEF Assemble
    <3>2. PICK assembly \in Assemblies : assembled' = assembled \union {assembly.name}
      BY <2>2 DEF Assemble
    <3>3. assembly.name \in (DOMAIN Offers) \X BOOLEAN
      <4>1. PICK name \in {b \in DOMAIN Offers : Assemblable(Offers[b])} \X BOOLEAN :
              assembly = AssemblyOf(name, ArchivesOf(Offers[name[1]]))
        BY DEF Assemblies
      <4>2. assembly.name = name
        BY <4>1 DEF AssemblyOf
      <4>3. name \in (DOMAIN Offers) \X BOOLEAN
        OBVIOUS
      <4>4. QED
        BY <4>2, <4>3
    <3>4. /\ IsFiniteSet(assembled \union {assembly.name})
          /\ Cardinality(assembled \union {assembly.name}) \in
               {Cardinality(assembled), Cardinality(assembled) + 1}
      BY <1>4, FS_AddElement
    <3>5. QED
      BY <2>1, <3>1, <3>2, <3>3, <3>4
  <2>3. CASE Release
    <3>1. assembled' = {} /\ public' = TRUE /\ edited' = edited
      BY <2>3 DEF Release
    <3>2. QED
      BY <2>1, <3>1, FS_EmptySet
  <2>4. CASE EditAsset
    <3>1. PICK v \in Versions : edited' = edited \union {v}
      BY <2>4 DEF EditAsset
    <3>2. assembled' = assembled /\ public' = public
      BY <2>4 DEF EditAsset
    <3>3. QED
      BY <1>4, <2>1, <3>1, <3>2
  <2>5. QED
    BY <2>2, <2>3, <2>4
<1>6. TypeOK' /\ IsFiniteSet(assembled)'
  BY <1>1, <1>4, <1>5 DEF TypeOK
<1>7. QED
  BY <1>3, <1>6 DEF IInv

(***************************************************************************)
(* The invariant and what follows from it.                                 *)
(***************************************************************************)
LEMMA InitInv == Init => IInv
<1> SUFFICES ASSUME Init PROVE IInv
  OBVIOUS
<1>1. TypeOK /\ IsFiniteSet(assembled)
  <2>1. NoJob \in [version : Versions, latest : BOOLEAN, holds : Contents]
    BY TagFacts DEF NoJob
  <2>2. NoResolution \in [pc : {"idle", "compare", "write"}, version : Versions, holds : Contents,
                           at : 1..Len(ImageOrder)]
    BY OrderFacts, TagFacts DEF NoResolution
  <2>3. Cardinality(assembled) <= MaxAssemblies /\ IsFiniteSet(assembled)
    BY FS_EmptySet, PublicationAssumption DEF Init
  <2>4. tags \in [Mapped -> [Tags -> Contents]]
    BY TagFacts DEF Init
  <2>5. at \in [Publishers -> 1..2 * Len(ImageOrder)]
    BY OrderFacts DEF Init
  <2>6. QED
    BY <2>1, <2>2, <2>3, <2>4, <2>5 DEF Init, TypeOK
<1>2. LoopInv
  BY DEF Init, LoopInv, Loop
<1>3. StoredInv /\ LatestIsComplete
  BY TagFacts DEF Init, StoredInv, LatestIsComplete
<1>4. ResolverInv /\ DeployedIsStored
  BY DEF Init, ResolverInv, DeployedIsStored, NoResolution
<1>5. QED
  BY <1>1, <1>2, <1>3, <1>4 DEF IInv

LEMMA NextInv == IInv /\ [Next]_vars => IInv'
<1> SUFFICES ASSUME IInv, [Next]_vars PROVE IInv'
  OBVIOUS
<1>1. CASE Assemble \/ Release \/ EditAsset
  BY <1>1, ReleaseStep
<1>2. CASE \E p \in Publishers : Publish(p)
  BY <1>2, BeginStep, PreflightStep, CopyStep, StopStep DEF Publish
<1>3. CASE \E i \in Mapped, t \in Tags : Push(i, t)
  BY <1>3, PushStep
<1>4. CASE Resolve \/ Compare \/ WriteOutput
  BY <1>4, ResolverStep
<1>5. CASE UNCHANGED vars
  <2>1. /\ UNCHANGED <<assembled, public, edited, resolver, output>>
        /\ UNCHANGED <<tags, stored, pc, job, at, pushed, surprised>>
    BY <1>5 DEF vars
  <2>2. TypeOK' /\ IsFiniteSet(assembled)'
    BY <2>1 DEF IInv, TypeOK
  <2>3. QED
    BY <2>1, <2>2, ElsewhereInv, ReleaseInv DEF IInv
<1>6. QED
  BY <1>1, <1>2, <1>3, <1>4, <1>5 DEF Next

(* The publishers, the resolver and the registry keep the invariant, for   *)
(* any number of publishers, images, versions, pushes and edits.           *)
THEOREM InvariantHolds == Spec => []IInv
BY InitInv, NextInv, PTL DEF Spec

(* Tags, jobs and positions stay within their ranges; no publisher runs    *)
(* beyond the images of its mapping.                                       *)
THEOREM TypeCorrect == Spec => []TypeOK
<1>1. IInv => TypeOK
  BY DEF IInv
<1>2. QED
  BY <1>1, InvariantHolds, PTL

(* latest of an image is a release only once every image of that release   *)
(* is in the registry under its version (publish_verified.py:270).         *)
THEOREM LatestCompletes == Spec => []LatestIsComplete
<1>1. IInv => LatestIsComplete
  BY DEF IInv
<1>2. QED
  BY <1>1, InvariantHolds, PTL

(* A deployment is only told digests of a public version that a publisher  *)
(* has put into the registry for every image (verified_images.py:126).     *)
THEOREM DeployedAreStored == Spec => []DeployedIsStored
<1>1. IInv => DeployedIsStored
  BY DEF IInv
<1>2. QED
  BY <1>1, InvariantHolds, PTL

(* No publisher changes a version tag, but one pushed by others behind its *)
(* back (publish_verified.py:223).                                         *)
THEOREM VersionTagsAreKept == Spec => VersionTagsKept
<1> DEFINE Kept(i, v) ==
      tags[i][v] # "none" /\ tags'[i][v] # tags[i][v] =>
        \/ tags'[i][v] = "other"
        \/ \E p \in Publishers : pc[p] = "copy" /\ job[p].version = v /\ <<p, i>> \in surprised
<1>1. ASSUME IInv, [Next]_vars, NEW i \in Mapped, NEW v \in Versions
      PROVE  Kept(i, v)
  <2>1. CASE \E p \in Publishers : Copy(p)
    <3>1. PICK p \in Publishers : Copy(p)
      BY <2>1
    <3>2. PICK image \in Mapped, tag \in Tags :
            /\ \A j \in Mapped, t \in Tags :
                 tags'[j][t] = IF j = image /\ t = tag THEN job[p].version ELSE tags[j][t]
            /\ pc[p] = "copy"
            /\ \/ tag = job[p].version /\ Free(p, image)
               \/ tag = "latest"
      BY <1>1, <3>1, CopyFacts
    <3>3. ASSUME tags[i][v] # "none", tags'[i][v] # tags[i][v]
          PROVE  pc[p] = "copy" /\ job[p].version = v /\ <<p, i>> \in surprised
      <4>1. i = image /\ v = tag
        BY <3>2, <3>3, TagFacts
      <4>2. v = job[p].version /\ Free(p, image) /\ tags'[i][v] = v
        BY <3>2, <4>1, TagFacts
      <4>3. QED
        BY <3>2, <3>3, <4>1, <4>2 DEF Free
    <3>4. QED
      BY <3>3
  <2>2. CASE \E j \in Mapped, t \in Tags : Push(j, t)
    <3>1. PICK j \in Mapped, t \in Tags : Push(j, t)
      BY <2>2
    <3>2. tags' = [tags EXCEPT ![j][t] = "other"] /\ TypeOK
      BY <1>1, <3>1 DEF Push, IInv
    <3>3. tags' = [tags EXCEPT ![j] = [tags[j] EXCEPT ![t] = "other"]]
      BY <3>2 DEF TypeOK
    <3>4. tags'[i][v] = IF i = j /\ v = t THEN "other" ELSE tags[i][v]
      BY <3>2, <3>3, TagFacts DEF TypeOK
    <3>5. QED
      BY <3>4
  <2>3. CASE tags' = tags
    BY <2>3
  <2>4. ASSUME ~(\E p \in Publishers : Copy(p)), ~(\E j \in Mapped, t \in Tags : Push(j, t))
        PROVE  tags' = tags
    BY <1>1, <2>4 DEF Next, Publish, Assemble, Release, EditAsset, Begin, Preflight, Stop,
                      Resolve, Compare, WriteOutput, registryVars, vars
  <2>5. QED
    BY <2>1, <2>2, <2>3, <2>4
<1>2. IInv /\ [Next]_vars => [\A i \in Mapped, v \in Versions : Kept(i, v)]_vars
  BY <1>1
<1>3. QED
  BY <1>2, InvariantHolds, PTL DEF Spec, VersionTagsKept

(***************************************************************************)
(* The archives. Levels and FlattenSeq are recursive functions, so what    *)
(* they are is shown by induction over the natural numbers, which is here  *)
(* a fact about sets of them.                                              *)
(***************************************************************************)
LessThan == {p \in Nat \X Nat : p[1] < p[2]}

LEMMA Least ==
  ASSUME NEW T \in SUBSET Nat, T # {}
  PROVE  \E x \in T : \A y \in T : x <= y
<1>1. IsWellFoundedOn(LessThan, Nat)
  <2>1. LessThan = OpToRel(<, Nat)
    BY DEF LessThan, OpToRel
  <2>2. QED
    BY <2>1, NatLessThanWellFounded
<1>2. PICK x \in T : \A y \in T : ~(<<y, x>> \in LessThan)
  BY <1>1, WFMin
<1>3. ASSUME NEW y \in T PROVE x <= y
  <2>1. ~(<<y, x>> \in LessThan)
    BY <1>2
  <2>2. QED
    BY <2>1 DEF LessThan
<1>4. QED
  BY <1>3

LEMMA Induction ==
  ASSUME NEW S, 0 \in S, \A n \in Nat : n \in S => n + 1 \in S
  PROVE  Nat \subseteq S
<1> DEFINE T == Nat \ S
<1>1. ASSUME T # {} PROVE FALSE
  <2>1. PICK x \in T : \A y \in T : x <= y
    BY <1>1, Least
  <2>2. x - 1 \in Nat /\ x - 1 \notin T
    BY <2>1
  <2>3. QED
    BY <2>1, <2>2
<1>2. QED
  BY <1>1

(***************************************************************************)
(* Flattened lists.                                                        *)
(***************************************************************************)
Flattening(seqs, f) ==
  f = [i \in 1..Len(seqs) |-> IF i = 1 THEN seqs[i] ELSE f[i - 1] \o seqs[i]]

(* FlattenSeq is a CHOOSE of such a function, and there is one.            *)
LEMMA FlattenByDef ==
  ASSUME NEW seqs, Len(seqs) # 0
  PROVE  FlattenSeq(seqs) = (CHOOSE f : Flattening(seqs, f))[Len(seqs)]
BY DEF FlattenSeq, Flattening

LEMMA FlatteningExists ==
  ASSUME NEW S, NEW seqs \in Seq(Seq(S))
  PROVE  \E f : Flattening(seqs, f)
<1> DEFINE Step(f, n) == f = [i \in 1..n |-> IF i = 1 THEN seqs[i] ELSE f[i - 1] \o seqs[i]]
           T == {n \in Nat : \E f : Step(f, n)}
<1>1. 0 \in T
  <2>1. Step([i \in 1..0 |-> <<>>], 0)
    OBVIOUS
  <2>2. QED
    BY <2>1
<1>2. ASSUME NEW n \in Nat, n \in T PROVE n + 1 \in T
  <2>1. PICK f : Step(f, n)
    BY <1>2
  <2> DEFINE g == [i \in 1..(n + 1) |-> IF i = 1 THEN seqs[i] ELSE f[i - 1] \o seqs[i]]
  <2>2. \A i \in 1..n : g[i] = f[i]
    <3>1. \A i \in 1..n : f[i] = IF i = 1 THEN seqs[i] ELSE f[i - 1] \o seqs[i]
      BY <2>1, Zenon
    <3>2. \A i \in 1..n : i \in 1..(n + 1)
      OBVIOUS
    <3>3. QED
      BY <3>1, <3>2
  <2>3. Step(g, n + 1)
    <3>1. \A i \in 1..(n + 1) : i # 1 => i - 1 \in 1..n
      OBVIOUS
    <3>2. QED
      BY <2>2, <3>1
  <2> HIDE DEF g, Step
  <2>4. \E h : Step(h, n + 1)
    BY <2>3
  <2>5. QED
    BY <2>4
<1> HIDE DEF T
<1>3. Len(seqs) \in T
  BY <1>1, <1>2, Induction
<1>4. QED
  BY <1>3 DEF T, Flattening

(* A flattened list is built up one list after the other.                  *)
LEMMA FlattenSteps ==
  ASSUME NEW S, NEW seqs \in Seq(Seq(S)), seqs # <<>>
  PROVE  \E f \in [1..Len(seqs) -> Seq(S)] :
           /\ f[1] = seqs[1] /\ \A i \in 2..Len(seqs) : f[i] = f[i - 1] \o seqs[i]
           /\ FlattenSeq(seqs) = f[Len(seqs)]
<1> DEFINE f == CHOOSE f : Flattening(seqs, f)
           n == Len(seqs)
<1>1. n \in Nat \ {0} /\ \A i \in 1..n : seqs[i] \in Seq(S)
  OBVIOUS
<1>2. Flattening(seqs, f) /\ FlattenSeq(seqs) = f[n]
  BY <1>1, FlatteningExists, FlattenByDef
<1> HIDE DEF f
<1>3. DOMAIN f = 1..n /\ \A i \in 1..n : f[i] = IF i = 1 THEN seqs[i] ELSE f[i - 1] \o seqs[i]
  BY <1>2, Zenon DEF Flattening
<1>4. f = [i \in 1..n |-> f[i]]
  BY <1>2, Zenon DEF Flattening
<1> DEFINE T == {m \in Nat : m \in 1..n => f[m] \in Seq(S)}
<1>5. 0 \in T
  OBVIOUS
<1>6. ASSUME NEW m \in Nat, m \in T PROVE m + 1 \in T
  <2>1. SUFFICES ASSUME m + 1 \in 1..n PROVE f[m + 1] \in Seq(S)
    OBVIOUS
  <2>2. CASE m = 0
    <3>1. 1 \in 1..n /\ m + 1 = 1
      BY <1>1, <2>2
    <3>2. f[1] = seqs[1]
      BY <1>3, <3>1
    <3>3. QED
      BY <1>1, <3>1, <3>2
  <2>3. CASE m # 0
    <3>1. m \in 1..n /\ f[m] \in Seq(S) /\ seqs[m + 1] \in Seq(S)
      BY <1>1, <1>6, <2>1, <2>3
    <3>2. f[m + 1] = f[m] \o seqs[m + 1]
      <4>1. m + 1 # 1 /\ (m + 1) - 1 = m
        BY <2>3
      <4>2. QED
        BY <1>3, <2>1, <4>1
    <3>3. QED
      BY <3>1, <3>2
  <2>4. QED
    BY <2>2, <2>3
<1> HIDE DEF T
<1>7. Nat \subseteq T
  BY <1>5, <1>6, Induction
<1>8. \A i \in 1..n : f[i] \in Seq(S)
  BY <1>1, <1>7 DEF T
<1>9. f \in [1..n -> Seq(S)]
  BY <1>4, <1>8
<1>10. f[1] = seqs[1] /\ \A i \in 2..n : f[i] = f[i - 1] \o seqs[i]
  <2>1. 1 \in 1..n /\ \A i \in 2..n : i \in 1..n /\ i # 1
    BY <1>1
  <2>2. QED
    BY <1>3, <2>1
<1>11. QED
  BY <1>2, <1>9, <1>10

(* A flattened list is a list of what its lists hold.                      *)
LEMMA FlattenType ==
  ASSUME NEW S, NEW seqs \in Seq(Seq(S))
  PROVE  FlattenSeq(seqs) \in Seq(S)
<1>1. CASE seqs = <<>>
  <2>1. FlattenSeq(seqs) = <<>>
    BY <1>1 DEF FlattenSeq
  <2>2. <<>> \in Seq(S)
    OBVIOUS
  <2>3. QED
    BY <2>1, <2>2
<1>2. CASE seqs # <<>>
  <2>1. PICK f \in [1..Len(seqs) -> Seq(S)] : FlattenSeq(seqs) = f[Len(seqs)]
    BY <1>2, FlattenSteps
  <2>2. Len(seqs) \in 1..Len(seqs)
    BY <1>2
  <2>3. QED
    BY <2>1, <2>2
<1>3. QED
  BY <1>1, <1>2

LEMMA ConcatElements ==
  ASSUME NEW S, NEW s \in Seq(S), NEW t \in Seq(S)
  PROVE  ToSet(s \o t) = ToSet(s) \union ToSet(t)
<1>1. /\ Len(s) \in Nat /\ Len(t) \in Nat /\ DOMAIN s = 1..Len(s) /\ DOMAIN t = 1..Len(t)
      /\ DOMAIN (s \o t) = 1..(Len(s) + Len(t))
      /\ \A i \in 1..Len(s) : (s \o t)[i] = s[i]
      /\ \A i \in 1..Len(t) : (s \o t)[Len(s) + i] = t[i]
      /\ \A i \in (Len(s) + 1)..(Len(s) + Len(t)) : (s \o t)[i] = t[i - Len(s)]
  OBVIOUS
<1>2. ASSUME NEW i \in DOMAIN (s \o t) PROVE (s \o t)[i] \in ToSet(s) \union ToSet(t)
  <2>1. CASE i <= Len(s)
    <3>1. i \in 1..Len(s)
      BY <1>1, <2>1
    <3>2. QED
      BY <1>1, <3>1 DEF ToSet
  <2>2. CASE ~(i <= Len(s))
    <3>1. i - Len(s) \in 1..Len(t) /\ i \in (Len(s) + 1)..(Len(s) + Len(t))
      BY <1>1, <2>2
    <3>2. (s \o t)[i] = t[i - Len(s)]
      BY <1>1, <3>1
    <3>3. QED
      BY <1>1, <3>1, <3>2 DEF ToSet
  <2>3. QED
    BY <2>1, <2>2
<1>3. ASSUME NEW i \in DOMAIN s PROVE s[i] \in ToSet(s \o t)
  <2>1. i \in DOMAIN (s \o t) /\ (s \o t)[i] = s[i]
    BY <1>1
  <2>2. QED
    BY <2>1 DEF ToSet
<1>4. ASSUME NEW i \in DOMAIN t PROVE t[i] \in ToSet(s \o t)
  <2>1. Len(s) + i \in DOMAIN (s \o t) /\ (s \o t)[Len(s) + i] = t[i]
    BY <1>1
  <2>2. QED
    BY <2>1 DEF ToSet
<1> DEFINE st == s \o t
<1> HIDE DEF st
<1>5. QED
  BY <1>2, <1>3, <1>4 DEF ToSet

(* A flattened list has what one of its lists has.                         *)
LEMMA FlattenElements ==
  ASSUME NEW S, NEW seqs \in Seq(Seq(S))
  PROVE  \A x : x \in ToSet(FlattenSeq(seqs)) <=> \E i \in 1..Len(seqs) : x \in ToSet(seqs[i])
<1>1. CASE seqs = <<>>
  <2>1. FlattenSeq(seqs) = <<>> /\ Len(seqs) = 0
    BY <1>1 DEF FlattenSeq
  <2>2. ToSet(<<>>) = {}
    BY DEF ToSet
  <2>3. QED
    BY <2>1, <2>2
<1>2. CASE seqs # <<>>
  <2>1. PICK f \in [1..Len(seqs) -> Seq(S)] :
           /\ f[1] = seqs[1] /\ \A i \in 2..Len(seqs) : f[i] = f[i - 1] \o seqs[i]
           /\ FlattenSeq(seqs) = f[Len(seqs)]
    BY <1>2, FlattenSteps
  <2> DEFINE n == Len(seqs)
             T == {m \in Nat : m \in 1..n =>
                     \A x : x \in ToSet(f[m]) <=> \E i \in 1..m : x \in ToSet(seqs[i])}
  <2>2. n \in Nat \ {0} /\ \A i \in 1..n : seqs[i] \in Seq(S) /\ f[i] \in Seq(S)
    BY <1>2, <2>1
  <2>3. 0 \in T
    OBVIOUS
  <2>4. ASSUME NEW m \in Nat, m \in T PROVE m + 1 \in T
    <3>1. SUFFICES ASSUME m + 1 \in 1..n
                   PROVE  \A x : x \in ToSet(f[m + 1]) <=> \E i \in 1..(m + 1) : x \in ToSet(seqs[i])
      OBVIOUS
    <3>2. CASE m = 0
      <4>1. f[m + 1] = seqs[1] /\ \A i \in 1..(m + 1) : i = 1
        BY <2>1, <3>2
      <4>2. 1 \in 1..(m + 1)
        BY <3>2
      <4>3. QED
        BY <4>1, <4>2
    <3>3. CASE m # 0
      <4>1. m \in 1..n /\ m + 1 \in 2..n /\ (m + 1) - 1 = m
        BY <2>2, <3>1, <3>3
      <4>2. f[m + 1] = f[m] \o seqs[m + 1]
        BY <2>1, <4>1
      <4>3. ToSet(f[m + 1]) = ToSet(f[m]) \union ToSet(seqs[m + 1])
        BY <2>2, <3>1, <4>1, <4>2, ConcatElements
      <4>4. \A x : x \in ToSet(f[m]) <=> \E i \in 1..m : x \in ToSet(seqs[i])
        BY <2>4, <4>1
      <4>5. \A i : i \in 1..(m + 1) <=> i \in 1..m \/ i = m + 1
        OBVIOUS
      <4>6. QED
        BY <4>3, <4>4, <4>5
    <3>4. QED
      BY <3>2, <3>3
  <2> HIDE DEF T
  <2>5. n \in T
    BY <2>2, <2>3, <2>4, Induction
  <2>6. n \in 1..n
    BY <2>2
  <2>7. QED
    BY <2>1, <2>5, <2>6 DEF T
<1>3. QED
  BY <1>1, <1>2

(* Empty lists behind the first two do not count.                          *)
LEMMA FlattenFront ==
  ASSUME NEW S, NEW seqs \in Seq(Seq(S)), Len(seqs) >= 2, \A i \in 3..Len(seqs) : seqs[i] = <<>>
  PROVE  FlattenSeq(seqs) = seqs[1] \o seqs[2]
<1>1. seqs # <<>> /\ Len(seqs) \in Nat
  OBVIOUS
<1>2. PICK f \in [1..Len(seqs) -> Seq(S)] :
        /\ f[1] = seqs[1] /\ \A i \in 2..Len(seqs) : f[i] = f[i - 1] \o seqs[i]
        /\ FlattenSeq(seqs) = f[Len(seqs)]
  BY <1>1, FlattenSteps
<1> DEFINE n == Len(seqs)
           front == seqs[1] \o seqs[2]
           T == {m \in Nat : m \in 2..n => f[m] = front}
<1> HIDE DEF front
<1>3. 0 \in T
  OBVIOUS
<1>4. ASSUME NEW m \in Nat, m \in T PROVE m + 1 \in T
  <2>1. SUFFICES ASSUME m + 1 \in 2..n PROVE f[m + 1] = front
    OBVIOUS
  <2>2. f[m + 1] = f[m] \o seqs[m + 1]
    <3>1. (m + 1) - 1 = m
      OBVIOUS
    <3>2. QED
      BY <1>2, <2>1, <3>1
  <2>3. CASE m = 1
    <3>1. m + 1 = 2
      BY <2>3
    <3>2. f[m + 1] = f[1] \o seqs[2]
      BY <2>2, <2>3, <3>1
    <3>3. QED
      BY <1>2, <3>2 DEF front
  <2>4. CASE m # 1
    <3>1. m \in 2..n /\ m + 1 \in 3..n /\ m \in 1..n
      BY <1>1, <2>1, <2>4
    <3>2. f[m] = front /\ seqs[m + 1] = <<>> /\ f[m] \in Seq(S)
      BY <1>2, <1>4, <3>1
    <3>3. f[m] \o <<>> = f[m]
      BY <3>2
    <3>4. QED
      BY <2>2, <3>2, <3>3
  <2>5. QED
    BY <2>3, <2>4
<1> HIDE DEF T
<1>5. n \in T
  BY <1>1, <1>3, <1>4, Induction
<1>6. n \in 2..n
  BY <1>1
<1>7. QED
  BY <1>2, <1>5, <1>6 DEF T, front

(* One list, flattened.                                                    *)
LEMMA FlattenOne ==
  ASSUME NEW s
  PROVE  FlattenSeq(<<s>>) = s
<1>1. Len(<<s>>) = 1 /\ <<s>>[1] = s
  OBVIOUS
<1>2. PICK S : S = {s[i] : i \in DOMAIN s}
  OBVIOUS
<1>3. PICK f : f = [i \in 1..1 |-> s]
  OBVIOUS
<1>4. Flattening(<<s>>, f)
  BY <1>1, <1>3 DEF Flattening
<1> DEFINE g == CHOOSE g : Flattening(<<s>>, g)
<1>5. Flattening(<<s>>, g)
  BY <1>4
<1>6. FlattenSeq(<<s>>) = g[1]
  BY <1>1, FlattenByDef
<1> HIDE DEF g
<1>7. g[1] = s
  <2>1. g = [i \in 1..1 |-> IF i = 1 THEN <<s>>[i] ELSE g[i - 1] \o <<s>>[i]]
    BY <1>1, <1>5 DEF Flattening
  <2>2. 1 \in 1..1
    OBVIOUS
  <2>3. g[1] = <<s>>[1]
    BY <2>1, <2>2, Zenon
  <2>4. QED
    BY <1>1, <2>3
<1>8. QED
  BY <1>6, <1>7

LEMMA NoElements ==
  ASSUME NEW S, NEW s \in Seq(S)
  PROVE  ToSet(s) = {} <=> s = <<>>
<1>1. Len(s) \in Nat /\ DOMAIN s = 1..Len(s)
  OBVIOUS
<1>2. CASE s = <<>>
  BY <1>2 DEF ToSet
<1>3. CASE s # <<>>
  <2>1. 1 \in DOMAIN s
    BY <1>1, <1>3
  <2>2. s[1] \in ToSet(s)
    BY <2>1 DEF ToSet
  <2>3. QED
    BY <1>3, <2>2
<1>4. QED
  BY <1>2, <1>3

(* Nothing but empty lists, flattened.                                     *)
LEMMA FlattenNothing ==
  ASSUME NEW S, NEW seqs \in Seq(Seq(S)), \A i \in 1..Len(seqs) : seqs[i] = <<>>
  PROVE  FlattenSeq(seqs) = <<>>
<1>1. FlattenSeq(seqs) \in Seq(S)
  BY FlattenType
<1>2. ToSet(<<>>) = {}
  BY DEF ToSet
<1>3. ToSet(FlattenSeq(seqs)) = {}
  BY <1>2, FlattenElements
<1>4. QED
  BY <1>1, <1>3, NoElements

(***************************************************************************)
(* What a list has of a set.                                               *)
(***************************************************************************)
Taken(list, set) == [i \in DOMAIN list |-> IF list[i] \in set THEN <<list[i]>> ELSE <<>>]

LEMMA TakenType ==
  ASSUME NEW X, NEW list \in Seq(X), NEW set
  PROVE  /\ Taken(list, set) \in Seq(Seq(X)) /\ Len(Taken(list, set)) = Len(list)
         /\ Len(list) \in Nat /\ DOMAIN list = 1..Len(list)
         /\ \A i \in 1..Len(list) : /\ Taken(list, set)[i] = IF list[i] \in set THEN <<list[i]>> ELSE <<>>
                                    /\ list[i] \in X
         /\ Only(list, set) = FlattenSeq(Taken(list, set))
<1>1. Len(list) \in Nat /\ DOMAIN list = 1..Len(list) /\ \A i \in 1..Len(list) : list[i] \in X
  OBVIOUS
<1>2. \A i \in 1..Len(list) : (IF list[i] \in set THEN <<list[i]>> ELSE <<>>) \in Seq(X)
  BY <1>1
<1>3. Taken(list, set) = [i \in 1..Len(list) |-> IF list[i] \in set THEN <<list[i]>> ELSE <<>>]
  BY <1>1 DEF Taken
<1>4. Taken(list, set) \in Seq(Seq(X)) /\ Len(Taken(list, set)) = Len(list)
  BY <1>1, <1>2, <1>3
<1>5. Only(list, set) = FlattenSeq(Taken(list, set))
  BY DEF Only, Taken
<1>6. QED
  BY <1>1, <1>3, <1>4, <1>5

(* What is taken of a list is a list of what the list has of the set.      *)
LEMMA OnlyElements ==
  ASSUME NEW X, NEW list \in Seq(X), NEW set
  PROVE  Only(list, set) \in Seq(X) /\ ToSet(Only(list, set)) = ToSet(list) \intersect set
<1>1. Only(list, set) \in Seq(X)
  BY TakenType, FlattenType
<1>2. ASSUME NEW x PROVE x \in ToSet(Only(list, set)) <=> x \in ToSet(list) /\ x \in set
  <2>1. x \in ToSet(Only(list, set)) <=> \E i \in 1..Len(list) : x \in ToSet(Taken(list, set)[i])
    BY TakenType, FlattenElements
  <2>2. ASSUME NEW y PROVE x \in ToSet(<<y>>) <=> x = y
    BY DEF ToSet
  <2>3. x \notin ToSet(<<>>)
    BY DEF ToSet
  <2>4. ASSUME NEW i \in 1..Len(list)
        PROVE  x \in ToSet(Taken(list, set)[i]) <=> x = list[i] /\ list[i] \in set
    <3>1. Taken(list, set)[i] = IF list[i] \in set THEN <<list[i]>> ELSE <<>>
      BY TakenType
    <3>2. CASE list[i] \in set
      <4>1. Taken(list, set)[i] = <<list[i]>>
        BY <3>1, <3>2
      <4>2. QED
        BY <2>2, <3>2, <4>1
    <3>3. CASE list[i] \notin set
      <4>1. Taken(list, set)[i] = <<>>
        BY <3>1, <3>3
      <4>2. QED
        BY <2>3, <3>3, <4>1
    <3>4. QED
      BY <3>2, <3>3
  <2>5. x \in ToSet(list) <=> \E i \in 1..Len(list) : x = list[i]
    BY TakenType DEF ToSet
  <2>6. QED
    BY <2>1, <2>4, <2>5
<1>3. QED
  BY <1>1, <1>2

(* What the first m elements of a list give of its positions k+1 to l.     *)
Count(k, l, m) == IF m <= k THEN 0 ELSE IF m <= l THEN m - k ELSE l - k
Part(g, list, k, l, m) ==
  Len(g) = Count(k, l, m) /\ \A j \in 1..Count(k, l, m) : g[j] = list[k + j]

(* One element further.                                                    *)
LEMMA PartStep ==
  ASSUME NEW X, NEW list \in Seq(X), NEW set, NEW k \in Nat, NEW l \in Nat, k <= l, l <= Len(list),
         \A i \in 1..Len(list) : list[i] \in set <=> k < i /\ i <= l,
         NEW m \in Nat, m + 1 <= Len(list), NEW g \in Seq(X), Part(g, list, k, l, m)
  PROVE  Part(g \o Taken(list, set)[m + 1], list, k, l, m + 1)
<1>1. /\ m + 1 \in 1..Len(list) /\ list[m + 1] \in X
      /\ Taken(list, set)[m + 1] = IF list[m + 1] \in set THEN <<list[m + 1]>> ELSE <<>>
  <2>1. m + 1 \in 1..Len(list)
    BY TakenType
  <2>2. QED
    BY <2>1, TakenType
<1>2. CASE k < m + 1 /\ m + 1 <= l
  <2>1. Taken(list, set)[m + 1] = <<list[m + 1]>>
    BY <1>1, <1>2
  <2>2. Count(k, l, m) = m - k /\ Count(k, l, m + 1) = m + 1 - k /\ m - k \in Nat
    BY <1>2 DEF Count
  <2> DEFINE h == g \o <<list[m + 1]>>
  <2>3. Len(g) = m - k /\ \A j \in 1..(m - k) : g[j] = list[k + j]
    BY <2>2 DEF Part
  <2>4. /\ Len(h) = Len(g) + 1 /\ \A j \in 1..Len(g) : h[j] = g[j]
        /\ h[Len(g) + 1] = list[m + 1]
    BY <1>1
  <2> HIDE DEF h
  <2>5. ASSUME NEW j \in 1..(m + 1 - k) PROVE h[j] = list[k + j]
    <3>1. CASE j \in 1..(m - k)
      BY <2>3, <2>4, <3>1
    <3>2. CASE j \notin 1..(m - k)
      <4>1. j = Len(g) + 1 /\ k + j = m + 1
        BY <2>2, <2>3, <3>2
      <4>2. QED
        BY <2>4, <4>1
    <3>3. QED
      BY <3>1, <3>2
  <2>6. Len(h) = m + 1 - k
    BY <2>2, <2>3, <2>4
  <2>7. Part(h, list, k, l, m + 1)
    BY <2>2, <2>5, <2>6 DEF Part
  <2>8. QED
    BY <2>1, <2>7 DEF h
<1>3. CASE ~(k < m + 1 /\ m + 1 <= l)
  <2>1. Taken(list, set)[m + 1] = <<>>
    BY <1>1, <1>3
  <2>2. Count(k, l, m) = Count(k, l, m + 1)
    BY <1>3 DEF Count
  <2>3. g \o <<>> = g
    OBVIOUS
  <2>4. QED
    BY <2>1, <2>2, <2>3 DEF Part
<1>4. QED
  BY <1>2, <1>3

(* If a set has the positions k+1 to l of a list, that is what it takes.   *)
LEMMA OnlyPart ==
  ASSUME NEW X, NEW list \in Seq(X), NEW set, NEW k \in Nat, NEW l \in Nat, k <= l, l <= Len(list),
         \A i \in 1..Len(list) : list[i] \in set <=> k < i /\ i <= l
  PROVE  Len(Only(list, set)) = l - k /\ \A j \in 1..(l - k) : Only(list, set)[j] = list[k + j]
<1> DEFINE n == Len(list)
           seqs == Taken(list, set)
<1>1. n \in Nat /\ seqs \in Seq(Seq(X)) /\ Len(seqs) = n /\ Only(list, set) = FlattenSeq(seqs)
  BY TakenType
<1> HIDE DEF seqs
<1>2. CASE n = 0
  <2>1. seqs = <<>> /\ l = 0 /\ k = 0
    BY <1>1, <1>2
  <2>2. Only(list, set) = <<>>
    BY <1>1, <2>1 DEF FlattenSeq
  <2>3. QED
    BY <2>1, <2>2
<1>3. CASE n # 0
  <2>1. seqs # <<>>
    BY <1>1, <1>3
  <2>2. seqs \in Seq(Seq(X)) /\ seqs # <<>>
    BY <1>1, <2>1
  <2>3. PICK f \in [1..Len(seqs) -> Seq(X)] :
          /\ f[1] = seqs[1] /\ \A i \in 2..Len(seqs) : f[i] = f[i - 1] \o seqs[i]
          /\ FlattenSeq(seqs) = f[Len(seqs)]
    BY ONLY <2>2, FlattenSteps
  <2>4. /\ f \in [1..n -> Seq(X)] /\ f[1] = seqs[1]
        /\ \A i \in 2..n : f[i] = f[i - 1] \o seqs[i]
        /\ Only(list, set) = f[n]
    BY <1>1, <2>3
  <2> DEFINE T == {m \in Nat : m \in 1..n => Part(f[m], list, k, l, m)}
  <2>5. 0 \in T
    OBVIOUS
  <2>6. ASSUME NEW m \in Nat, m \in T PROVE m + 1 \in T
    <3>1. SUFFICES ASSUME m + 1 \in 1..n PROVE Part(f[m + 1], list, k, l, m + 1)
      OBVIOUS
    <3>2. m + 1 <= n
      BY <1>1, <3>1
    <3>3. CASE m = 0
      <4>1. Part(<<>>, list, k, l, 0)
        BY DEF Part, Count
      <4>2. <<>> \in Seq(X) /\ 0 \in Nat /\ 0 + 1 <= Len(list)
        BY <3>2, <3>3
      <4>3. Part(<<>> \o seqs[0 + 1], list, k, l, 0 + 1)
        BY <4>1, <4>2, PartStep DEF seqs
      <4>4. Part(<<>> \o seqs[1], list, k, l, 1)
        BY <4>3
      <4>5. seqs[1] \in Seq(X)
        BY <1>1, <1>3
      <4>6. <<>> \o seqs[1] = f[1]
        BY <2>4, <4>5
      <4>7. QED
        BY <3>3, <4>4, <4>6
    <3>4. CASE m # 0
      <4>1. m \in 1..n /\ m + 1 \in 2..n /\ (m + 1) - 1 = m
        BY <1>1, <3>1, <3>4
      <4>2. f[m] \in Seq(X) /\ Part(f[m], list, k, l, m) /\ f[m + 1] = f[m] \o seqs[m + 1]
        BY <2>4, <2>6, <4>1
      <4>3. QED
        BY <3>2, <4>2, PartStep DEF seqs
    <3>5. QED
      BY <3>3, <3>4
  <2> HIDE DEF T
  <2>7. n \in T
    BY <1>1, <2>5, <2>6, Induction
  <2>8. n \in 1..n
    BY <1>1, <1>3
  <2>9. Part(f[n], list, k, l, n)
    BY <2>7, <2>8 DEF T
  <2>10. Count(k, l, n) = l - k
    BY <1>1 DEF Count
  <2>11. QED
    BY <2>4, <2>9, <2>10 DEF Part
<1>4. QED
  BY <1>2, <1>3

LEMMA SameList ==
  ASSUME NEW X, NEW s \in Seq(X), NEW t \in Seq(X), Len(s) = Len(t), \A i \in 1..Len(s) : s[i] = t[i]
  PROVE  s = t
OBVIOUS

(* All of a list, and none of it.                                          *)
LEMMA OnlyAll ==
  ASSUME NEW X, NEW list \in Seq(X), NEW set, ToSet(list) \subseteq set
  PROVE  Only(list, set) = list
<1>1. Len(list) \in Nat /\ DOMAIN list = 1..Len(list)
  OBVIOUS
<1>2. \A i \in 1..Len(list) : list[i] \in set <=> 0 < i /\ i <= Len(list)
  BY <1>1 DEF ToSet
<1>3. /\ Len(Only(list, set)) = Len(list) - 0
      /\ \A j \in 1..(Len(list) - 0) : Only(list, set)[j] = list[0 + j]
  <2>1. 0 \in Nat /\ Len(list) \in Nat /\ 0 <= Len(list) /\ Len(list) <= Len(list)
    BY <1>1
  <2>2. QED
    BY <1>2, <2>1, OnlyPart
<1>4. QED
  BY <1>1, <1>3, OnlyElements, SameList

LEMMA OnlyNone ==
  ASSUME NEW X, NEW list \in Seq(X), NEW set, ToSet(list) \intersect set = {}
  PROVE  Only(list, set) = <<>>
<1>1. ToSet(Only(list, set)) = {} /\ Only(list, set) \in Seq(X)
  BY OnlyElements
<1>2. QED
  BY <1>1, NoElements

(* Of two lists behind one another, those of one of them.                  *)
LEMMA OnlyFirst ==
  ASSUME NEW X, NEW s \in Seq(X), NEW t \in Seq(X), NEW set,
         ToSet(s) \subseteq set, ToSet(t) \intersect set = {}
  PROVE  Only(s \o t, set) = s
<1> DEFINE list == s \o t
<1>1. /\ Len(s) \in Nat /\ Len(t) \in Nat /\ list \in Seq(X) /\ Len(list) = Len(s) + Len(t)
      /\ DOMAIN s = 1..Len(s) /\ DOMAIN t = 1..Len(t)
      /\ \A i \in 1..Len(s) : list[i] = s[i]
      /\ \A i \in (Len(s) + 1)..(Len(s) + Len(t)) : list[i] = t[i - Len(s)]
  OBVIOUS
<1> HIDE DEF list
<1>2. ASSUME NEW i \in 1..Len(list) PROVE list[i] \in set <=> 0 < i /\ i <= Len(s)
  <2>1. CASE i <= Len(s)
    <3>1. i \in DOMAIN s /\ list[i] = s[i]
      BY <1>1, <2>1
    <3>2. s[i] \in set
      BY <3>1 DEF ToSet
    <3>3. QED
      BY <1>1, <2>1, <3>1, <3>2
  <2>2. CASE ~(i <= Len(s))
    <3>1. i - Len(s) \in DOMAIN t /\ list[i] = t[i - Len(s)]
      BY <1>1, <2>2
    <3>2. t[i - Len(s)] \notin set
      BY <3>1 DEF ToSet
    <3>3. QED
      BY <2>2, <3>1, <3>2
  <2>3. QED
    BY <2>1, <2>2
<1>3. /\ Len(Only(list, set)) = Len(s) - 0
      /\ \A j \in 1..(Len(s) - 0) : Only(list, set)[j] = list[0 + j]
  <2>1. 0 \in Nat /\ Len(s) \in Nat /\ 0 <= Len(s) /\ Len(s) <= Len(list)
    BY <1>1
  <2>2. list \in Seq(X) /\ \A i \in 1..Len(list) : list[i] \in set <=> 0 < i /\ i <= Len(s)
    BY <1>1, <1>2
  <2>3. QED
    BY ONLY <2>1, <2>2, OnlyPart
<1>4. Only(list, set) = s
  BY <1>1, <1>3, OnlyElements, SameList
<1>5. QED
  BY <1>4 DEF list

LEMMA OnlySecond ==
  ASSUME NEW X, NEW s \in Seq(X), NEW t \in Seq(X), NEW set,
         ToSet(s) \intersect set = {}, ToSet(t) \subseteq set
  PROVE  Only(s \o t, set) = t
<1> DEFINE list == s \o t
<1>1. /\ Len(s) \in Nat /\ Len(t) \in Nat /\ list \in Seq(X) /\ Len(list) = Len(s) + Len(t)
      /\ DOMAIN s = 1..Len(s) /\ DOMAIN t = 1..Len(t)
      /\ \A i \in 1..Len(s) : list[i] = s[i]
      /\ \A i \in (Len(s) + 1)..(Len(s) + Len(t)) : list[i] = t[i - Len(s)]
      /\ \A i \in 1..Len(t) : list[Len(s) + i] = t[i]
  OBVIOUS
<1> HIDE DEF list
<1>2. ASSUME NEW i \in 1..Len(list) PROVE list[i] \in set <=> Len(s) < i /\ i <= Len(list)
  <2>1. CASE i <= Len(s)
    <3>1. i \in DOMAIN s /\ list[i] = s[i]
      BY <1>1, <2>1
    <3>2. s[i] \notin set
      BY <3>1 DEF ToSet
    <3>3. QED
      BY <1>1, <2>1, <3>1, <3>2
  <2>2. CASE ~(i <= Len(s))
    <3>1. i - Len(s) \in DOMAIN t /\ list[i] = t[i - Len(s)]
      BY <1>1, <2>2
    <3>2. t[i - Len(s)] \in set
      BY <3>1 DEF ToSet
    <3>3. QED
      BY <1>1, <2>2, <3>1, <3>2
  <2>3. QED
    BY <2>1, <2>2
<1>3. /\ Len(Only(list, set)) = Len(list) - Len(s)
      /\ \A j \in 1..(Len(list) - Len(s)) : Only(list, set)[j] = list[Len(s) + j]
  <2>1. PICK k, l : k = Len(s) /\ l = Len(list)
    OBVIOUS
  <2>2. l \in Nat /\ k \in Nat /\ k <= l /\ l <= Len(list)
    BY <1>1, <2>1
  <2>3. list \in Seq(X) /\ \A i \in 1..Len(list) : list[i] \in set <=> k < i /\ i <= l
    BY <1>1, <1>2, <2>1
  <2>4. Len(Only(list, set)) = l - k /\ \A j \in 1..(l - k) : Only(list, set)[j] = list[k + j]
    BY ONLY <2>2, <2>3, OnlyPart
  <2>5. QED
    BY <2>1, <2>4
<1>4. Only(list, set) = t
  <2>1. Len(Only(list, set)) = Len(t) /\ \A j \in 1..Len(t) : Only(list, set)[j] = t[j]
    BY <1>1, <1>3
  <2>2. QED
    BY <1>1, <2>1, OnlyElements, SameList
<1>5. QED
  BY <1>4 DEF list

(***************************************************************************)
(* The levels of an archive.                                               *)
(***************************************************************************)
Below(level) == FlattenSeq([i \in DOMAIN level |-> Nested(level[i])])

Levelling(root, f) == f = [d \in 0..MaxDepth + 1 |-> IF d = 0 THEN root ELSE Below(f[d - 1])]

(* Levels is a CHOOSE of such a function, and there is one.                *)
LEMMA LevelsByDef ==
  ASSUME NEW root
  PROVE  Levels(root) = CHOOSE f : Levelling(root, f)
BY DEF Levels, Levelling, Below

LEMMA LevellingExists ==
  ASSUME NEW root
  PROVE  \E f : Levelling(root, f)
<1> DEFINE Step(f, n) == f = [d \in 0..n |-> IF d = 0 THEN root ELSE Below(f[d - 1])]
           T == {n \in Nat : \E f : Step(f, n)}
<1>1. 0 \in T
  <2>1. Step([d \in 0..0 |-> root], 0)
    OBVIOUS
  <2>2. QED
    BY <2>1
<1>2. ASSUME NEW n \in Nat, n \in T PROVE n + 1 \in T
  <2>1. PICK f : Step(f, n)
    BY <1>2
  <2> DEFINE g == [d \in 0..(n + 1) |-> IF d = 0 THEN root ELSE Below(f[d - 1])]
  <2>2. \A d \in 0..n : g[d] = f[d]
    <3>1. \A d \in 0..n : f[d] = IF d = 0 THEN root ELSE Below(f[d - 1])
      BY <2>1, Zenon
    <3>2. \A d \in 0..n : d \in 0..(n + 1)
      OBVIOUS
    <3>3. QED
      BY <3>1, <3>2
  <2>3. Step(g, n + 1)
    <3>1. \A d \in 0..(n + 1) : d # 0 => d - 1 \in 0..n
      OBVIOUS
    <3>2. QED
      BY <2>2, <3>1
  <2> HIDE DEF g, Step
  <2>4. \E h : Step(h, n + 1)
    BY <2>3
  <2>5. QED
    BY <2>4
<1> HIDE DEF T
<1>3. MaxDepth + 1 \in T
  <2>1. MaxDepth + 1 \in Nat
    BY ArchivesAssumption
  <2>2. QED
    BY <1>1, <1>2, <2>1, Induction
<1>4. QED
  BY <1>3 DEF T, Levelling

LEMMA LevelsSteps ==
  ASSUME NEW root
  PROVE  /\ Levels(root)[0] = root
         /\ \A d \in 1..MaxDepth + 1 : Levels(root)[d] = Below(Levels(root)[d - 1])
<1> DEFINE f == Levels(root)
<1>1. Levelling(root, f)
  BY LevelsByDef, LevellingExists
<1> HIDE DEF f
<1>2. \A d \in 0..MaxDepth + 1 : f[d] = IF d = 0 THEN root ELSE Below(f[d - 1])
  BY <1>1, Zenon DEF Levelling
<1>3. 0 \in 0..MaxDepth + 1 /\ \A d \in 1..MaxDepth + 1 : d \in 0..MaxDepth + 1 /\ d # 0
  BY ArchivesAssumption
<1>4. QED
  BY <1>2, <1>3 DEF f

(* Lists.                                                                  *)
LEMMA ListType ==
  ASSUME NEW X, NEW s \in Seq(X)
  PROVE  IsList(s) /\ ToSet(s) \subseteq X
<1>1. DOMAIN s = 1..Len(s) /\ Len(s) \in Nat /\ \A i \in DOMAIN s : s[i] \in X
  OBVIOUS
<1>2. \A i \in DOMAIN s : s[i] \in ToSet(s)
  BY DEF ToSet
<1>3. ToSet(s) \subseteq X
  BY <1>1 DEF ToSet
<1>4. s = [i \in 1..Len(s) |-> s[i]]
  BY <1>1
<1>5. s \in Seq(ToSet(s))
  BY <1>1, <1>2, <1>4
<1>6. QED
  BY <1>3, <1>5 DEF IsList

LEMMA ListIn ==
  ASSUME NEW s, IsList(s), NEW X, ToSet(s) \subseteq X
  PROVE  s \in Seq(X)
<1>1. s \in Seq(ToSet(s))
  BY DEF IsList
<1> DEFINE S == ToSet(s)
<1> HIDE DEF S
<1>2. s \in Seq(S) /\ S \subseteq X
  BY <1>1 DEF S
<1>3. QED
  BY <1>2

LEMMA ListElements ==
  ASSUME NEW s, IsList(s)
  PROVE  /\ Len(s) \in Nat /\ DOMAIN s = 1..Len(s)
         /\ \A x : x \in ToSet(s) <=> \E i \in 1..Len(s) : x = s[i]
<1> DEFINE S == ToSet(s)
<1>1. s \in Seq(S)
  BY DEF IsList
<1> HIDE DEF S
<1>2. Len(s) \in Nat /\ DOMAIN s = 1..Len(s)
  BY <1>1
<1>3. QED
  BY <1>2 DEF ToSet

(* What is below a level is a list, of what its indexes name.              *)
LEMMA BelowType ==
  ASSUME NEW level, IsList(level), \A x \in ToSet(level) : IsList(Nested(x))
  PROVE  /\ IsList(Below(level))
         /\ \A y : y \in ToSet(Below(level)) <=> \E x \in ToSet(level) : y \in ToSet(Nested(x))
<1> DEFINE X == UNION {ToSet(Nested(x)) : x \in ToSet(level)}
           seqs == [i \in DOMAIN level |-> Nested(level[i])]
<1>1. /\ Len(level) \in Nat /\ DOMAIN level = 1..Len(level)
      /\ \A x : x \in ToSet(level) <=> \E i \in 1..Len(level) : x = level[i]
  BY ListElements
<1>2. \A i \in 1..Len(level) : Nested(level[i]) \in Seq(X)
  <2> TAKE i \in 1..Len(level)
  <2>1. IsList(Nested(level[i])) /\ ToSet(Nested(level[i])) \subseteq X
    BY <1>1
  <2> HIDE DEF X
  <2>2. QED
    BY <2>1, ListIn
<1>3. seqs = [i \in 1..Len(level) |-> Nested(level[i])]
  BY <1>1
<1> HIDE DEF X
<1>4. seqs \in Seq(Seq(X)) /\ Len(seqs) = Len(level)
  BY <1>1, <1>2, <1>3
<1>5. \A i \in 1..Len(level) : seqs[i] = Nested(level[i])
  BY <1>3
<1>6. Below(level) = FlattenSeq(seqs)
  BY DEF Below
<1> HIDE DEF seqs
<1>7. IsList(Below(level))
  BY <1>4, <1>6, FlattenType, ListType
<1>8. \A y : y \in ToSet(Below(level)) <=> \E i \in 1..Len(level) : y \in ToSet(Nested(level[i]))
  BY <1>4, <1>5, <1>6, FlattenElements
<1>9. QED
  BY <1>1, <1>7, <1>8

(* All levels of an archive whose indexes name lists are lists, and so is  *)
(* the walk through them.                                                  *)
LEMMA LevelsAreLists ==
  ASSUME NEW root, Listed(root)
  PROVE  \A d \in 0..MaxDepth + 1 : IsList(Levels(root)[d])
<1> DEFINE T == {d \in Nat : d \in 0..MaxDepth + 1 => IsList(Levels(root)[d])}
<1>1. 0 \in T
  BY LevelsSteps DEF Listed
<1>2. ASSUME NEW d \in Nat, d \in T PROVE d + 1 \in T
  <2>1. SUFFICES ASSUME d + 1 \in 0..MaxDepth + 1 PROVE IsList(Levels(root)[d + 1])
    OBVIOUS
  <2>2. d \in 0..MaxDepth /\ d \in 0..MaxDepth + 1 /\ d + 1 \in 1..MaxDepth + 1 /\ (d + 1) - 1 = d
    BY <2>1, ArchivesAssumption
  <2>3. Levels(root)[d + 1] = Below(Levels(root)[d])
    BY <2>2, LevelsSteps
  <2>4. IsList(Levels(root)[d]) /\ \A x \in ToSet(Levels(root)[d]) : IsList(Nested(x))
    BY <1>2, <2>2 DEF Listed
  <2>5. QED
    BY <2>3, <2>4, BelowType
<1> HIDE DEF T
<1>3. Nat \subseteq T
  BY <1>1, <1>2, Induction
<1>4. \A d \in 0..MaxDepth + 1 : d \in Nat
  BY ArchivesAssumption
<1>5. QED
  BY <1>3, <1>4 DEF T

LEMMA WalkIsList ==
  ASSUME NEW root, Listed(root)
  PROVE  IsList(Walk(root))
<1> DEFINE X == UNION {ToSet(Levels(root)[d]) : d \in 0..MaxDepth}
           seqs == [d \in 1..MaxDepth + 1 |-> Levels(root)[d - 1]]
<1>1. ASSUME NEW d \in 1..MaxDepth + 1 PROVE Levels(root)[d - 1] \in Seq(X)
  <2>1. d - 1 \in 0..MaxDepth /\ d - 1 \in 0..MaxDepth + 1
    BY ArchivesAssumption
  <2>2. IsList(Levels(root)[d - 1]) /\ ToSet(Levels(root)[d - 1]) \subseteq X
    BY <2>1, LevelsAreLists
  <2> HIDE DEF X
  <2>3. QED
    BY <2>2, ListIn
<1> HIDE DEF X
<1>2. seqs \in Seq(Seq(X))
  BY <1>1, ArchivesAssumption
<1>3. Walk(root) = FlattenSeq(seqs)
  BY DEF Walk
<1> HIDE DEF seqs
<1>4. QED
  BY <1>2, <1>3, FlattenType, ListType

(***************************************************************************)
(* An archive with one index over a list of manifests, as the code writes. *)
(***************************************************************************)
Manifests(list) == \A x \in ToSet(list) : x.content.kind = "manifest"

(* Manifests have nothing below them.                                      *)
LEMMA BelowManifests ==
  ASSUME NEW level, IsList(level), Manifests(level)
  PROVE  Below(level) = <<>>
<1> DEFINE seqs == [i \in DOMAIN level |-> Nested(level[i])]
<1>1. /\ Len(level) \in Nat /\ DOMAIN level = 1..Len(level)
      /\ \A x : x \in ToSet(level) <=> \E i \in 1..Len(level) : x = level[i]
  BY ListElements
<1>2. \A i \in 1..Len(level) : Nested(level[i]) = <<>>
  BY <1>1 DEF Manifests, Nested
<1>3. seqs = [i \in 1..Len(level) |-> <<>>]
  BY <1>1, <1>2
<1>4. /\ seqs \in Seq(Seq({})) /\ Len(seqs) = Len(level)
      /\ \A i \in 1..Len(seqs) : seqs[i] = <<>>
  <2>1. PICK n, e : n = Len(level) /\ e = <<>>
    OBVIOUS
  <2>2. e \in Seq({})
    BY <2>1
  <2>3. seqs = [i \in 1..n |-> e] /\ n \in Nat
    BY <1>1, <1>3, <2>1
  <2> HIDE DEF seqs
  <2>4. seqs \in Seq(Seq({})) /\ Len(seqs) = n /\ \A i \in 1..Len(seqs) : seqs[i] = e
    BY ONLY <2>2, <2>3
  <2>5. QED
    BY <2>1, <2>4
<1>5. Below(level) = FlattenSeq(seqs)
  BY DEF Below
<1> HIDE DEF seqs
<1>6. QED
  BY <1>4, <1>5, FlattenNothing

LEMMA NestedIndexFacts ==
  ASSUME NEW list
  PROVE  /\ NestedIndex(list) = <<NestedIndex(list)[1]>> /\ Len(NestedIndex(list)) = 1
         /\ NestedIndex(list)[1].content = Index(list)
         /\ NestedIndex(list)[1].content.kind = "index"
         /\ NestedIndex(list)[1].content.manifests = list
         /\ NestedIndex(list)[1].annotated = FALSE
         /\ Nested(NestedIndex(list)[1]) = list
         /\ ToSet(NestedIndex(list)) = {NestedIndex(list)[1]}
         /\ NestedIndex(list) # <<>>
<1>1. /\ NestedIndex(list)[1].content = Index(list) /\ NestedIndex(list)[1].annotated = FALSE
      /\ NestedIndex(list) = <<NestedIndex(list)[1]>>
  BY DEF NestedIndex, Descriptor
<1>2. Index(list).kind = "index" /\ Index(list).manifests = list
  BY DEF Index
<1> DEFINE x == NestedIndex(list)[1]
<1> HIDE DEF x
<1>3. Len(<<x>>) = 1 /\ <<x>> # <<>>
  OBVIOUS
<1>4. ToSet(<<x>>) = {x}
  BY DEF ToSet
<1>5. QED
  BY <1>1, <1>2, <1>3, <1>4 DEF x, Nested

(* One index, the list below it, and nothing below that.                   *)
LEMMA NestedLevels ==
  ASSUME NEW list, IsList(list), Manifests(list)
  PROVE  /\ Levels(NestedIndex(list))[0] = NestedIndex(list)
         /\ Levels(NestedIndex(list))[1] = list
         /\ \A d \in 2..MaxDepth + 1 : Levels(NestedIndex(list))[d] = <<>>
<1> DEFINE root == NestedIndex(list)
<1>1. root = <<root[1]>> /\ Nested(root[1]) = list
  BY NestedIndexFacts
<1>2. Levels(root)[0] = root /\ \A d \in 1..MaxDepth + 1 : Levels(root)[d] = Below(Levels(root)[d - 1])
  BY LevelsSteps
<1> HIDE DEF root
<1>3. Levels(root)[1] = list
  <2>1. Levels(root)[1] = Below(root)
    <3>1. 1 \in 1..MaxDepth + 1 /\ 1 - 1 = 0
      BY ArchivesAssumption
    <3>2. QED
      BY <1>2, <3>1
  <2>2. [i \in DOMAIN root |-> Nested(root[i])] = <<list>>
    <3>1. PICK x : x = root[1]
      OBVIOUS
    <3>2. root = <<x>> /\ Nested(x) = list
      BY <1>1, <3>1
    <3>3. [i \in DOMAIN <<x>> |-> Nested(<<x>>[i])] = <<Nested(x)>>
      OBVIOUS
    <3>4. QED
      BY <3>2, <3>3
  <2>3. QED
    BY <2>1, <2>2, FlattenOne DEF Below
<1> DEFINE T == {d \in Nat : d \in 2..MaxDepth + 1 => Levels(root)[d] = <<>>}
<1>4. 0 \in T
  OBVIOUS
<1>5. ASSUME NEW d \in Nat, d \in T PROVE d + 1 \in T
  <2>1. SUFFICES ASSUME d + 1 \in 2..MaxDepth + 1 PROVE Levels(root)[d + 1] = <<>>
    OBVIOUS
  <2>2. Levels(root)[d + 1] = Below(Levels(root)[d])
    <3>1. d + 1 \in 1..MaxDepth + 1 /\ (d + 1) - 1 = d
      BY <2>1, ArchivesAssumption
    <3>2. QED
      BY <1>2, <3>1
  <2>3. CASE d = 1
    BY <1>3, <2>2, <2>3, BelowManifests
  <2>4. CASE d # 1
    <3>1. d \in 2..MaxDepth + 1
      BY <2>1, <2>4, ArchivesAssumption
    <3>2. Levels(root)[d] = <<>>
      BY <1>5, <3>1
    <3>3. IsList(<<>>) /\ Manifests(<<>>)
      BY DEF IsList, Manifests, ToSet
    <3>4. QED
      BY <2>2, <3>2, <3>3, BelowManifests
  <2>5. QED
    BY <2>3, <2>4
<1> HIDE DEF T
<1>6. Nat \subseteq T
  BY <1>4, <1>5, Induction
<1>7. \A d \in 2..MaxDepth + 1 : d \in Nat
  BY ArchivesAssumption
<1>8. QED
  BY <1>2, <1>3, <1>6, <1>7 DEF T, root

LEMMA NestedWalk ==
  ASSUME NEW list, IsList(list), Manifests(list)
  PROVE  /\ Levels(NestedIndex(list))[MaxDepth + 1] = <<>>
         /\ Walk(NestedIndex(list)) = NestedIndex(list) \o list
         /\ ToSet(Walk(NestedIndex(list))) = {NestedIndex(list)[1]} \union ToSet(list)
<1> DEFINE root == NestedIndex(list)
           seqs == [d \in 1..MaxDepth + 1 |-> Levels(root)[d - 1]]
           X == {root[1]} \union ToSet(list)
<1>1. MaxDepth + 1 \in 2..MaxDepth + 1 /\ MaxDepth \in Nat /\ MaxDepth + 1 >= 2
  BY ArchivesAssumption
<1>2. /\ Levels(root)[0] = root /\ Levels(root)[1] = list
      /\ \A d \in 2..MaxDepth + 1 : Levels(root)[d] = <<>>
  BY NestedLevels
<1>3. root = <<root[1]>> /\ ToSet(root) = {root[1]}
  BY NestedIndexFacts
<1>4. Walk(root) = FlattenSeq(seqs)
  BY DEF Walk
<1> HIDE DEF root
<1>5. root \in Seq(X) /\ list \in Seq(X) /\ <<>> \in Seq(X)
  <2>1. list \in Seq(X)
    <3>1. ToSet(list) \subseteq X
      OBVIOUS
    <3> HIDE DEF X
    <3>2. QED
      BY <3>1, ListIn
  <2>2. root[1] \in X
    OBVIOUS
  <2> HIDE DEF X
  <2>3. PICK x : x = root[1]
    OBVIOUS
  <2>4. <<x>> \in Seq(X) /\ <<>> \in Seq(X)
    BY <2>2, <2>3
  <2>5. QED
    BY <1>3, <2>1, <2>3, <2>4
<1> HIDE DEF X
<1>6. ASSUME NEW d \in 1..MaxDepth + 1
      PROVE  Levels(root)[d - 1] = IF d = 1 THEN root ELSE IF d = 2 THEN list ELSE <<>>
  <2>1. d # 1 /\ d # 2 => d - 1 \in 2..MaxDepth + 1
    BY <1>1
  <2>2. QED
    BY <1>1, <1>2, <2>1
<1>7. PICK n, e : n = MaxDepth + 1 /\ e = <<>>
  OBVIOUS
<1>8. /\ seqs \in Seq(Seq(X)) /\ Len(seqs) = n
      /\ seqs[1] = root /\ seqs[2] = list /\ \A d \in 3..n : seqs[d] = e
  <2>1. seqs = [d \in 1..n |-> IF d = 1 THEN root ELSE IF d = 2 THEN list ELSE e]
    BY <1>6, <1>7
  <2> HIDE DEF seqs
  <2>2. n \in Nat /\ n >= 2 /\ root \in Seq(X) /\ list \in Seq(X) /\ e \in Seq(X)
    BY <1>1, <1>5, <1>7
  <2>3. QED
    BY ONLY <2>1, <2>2
<1> HIDE DEF seqs
<1>9. Walk(root) = root \o list
  <2>1. seqs \in Seq(Seq(X)) /\ Len(seqs) >= 2 /\ \A i \in 3..Len(seqs) : seqs[i] = <<>>
    BY <1>1, <1>7, <1>8
  <2>2. FlattenSeq(seqs) = seqs[1] \o seqs[2]
    BY ONLY <2>1, FlattenFront
  <2>3. QED
    BY <1>4, <1>8, <2>2
<1>10. ToSet(root \o list) = ToSet(root) \union ToSet(list)
  BY <1>5, ConcatElements
<1>11. QED
  BY <1>1, <1>2, <1>3, <1>9, <1>10 DEF root

LEMMA NestedLeaves ==
  ASSUME NEW list, IsList(list), Manifests(list), NEW archive, archive.root = NestedIndex(list)
  PROVE  Leaves(archive) = list
<1> DEFINE root == NestedIndex(list)
           X == {root[1]} \union ToSet(list)
<1>1. Walk(root) = root \o list /\ ToSet(Walk(root)) = X
  BY NestedWalk
<1> DEFINE set == {x \in ToSet(Walk(root)) : x.content.kind = "manifest"}
<1>2. root[1].content.kind # "manifest" /\ ToSet(root) = {root[1]} /\ root = <<root[1]>>
  BY NestedIndexFacts
<1>3. Leaves(archive) = Only(Walk(root), set)
  BY DEF Leaves, ManifestsIn
<1>4. ToSet(list) \subseteq set /\ ToSet(root) \intersect set = {}
  BY <1>1, <1>2 DEF Manifests
<1> HIDE DEF root, set
<1>5. root \in Seq(X) /\ list \in Seq(X)
  <2>1. ToSet(list) \subseteq X /\ root[1] \in X
    OBVIOUS
  <2> HIDE DEF X
  <2>2. PICK x : x = root[1]
    OBVIOUS
  <2>3. <<x>> \in Seq(X)
    BY <2>1, <2>2
  <2>4. QED
    BY <1>2, <2>1, <2>2, <2>3, ListIn
<1> HIDE DEF X
<1>6. Only(root \o list, set) = list
  BY ONLY <1>4, <1>5, OnlySecond
<1>7. QED
  BY <1>1, <1>3, <1>6

(***************************************************************************)
(* The leaves of an archive, and what two archives with one index.json     *)
(* have in common.                                                         *)
(***************************************************************************)
(* The leaves are the manifests of the walk, some of them of images.       *)
LEMMA LeavesFacts ==
  ASSUME NEW archive, Listed(archive.root)
  PROVE  /\ IsList(Leaves(archive)) /\ IsList(Images(archive)) /\ IsList(Attestations(archive))
         /\ ToSet(Leaves(archive)) =
              {x \in ToSet(Walk(archive.root)) : x.content.kind = "manifest"}
         /\ ToSet(Images(archive)) = {leaf \in ToSet(Leaves(archive)) : ~IsAttestation(leaf)}
         /\ ToSet(Attestations(archive)) = {leaf \in ToSet(Leaves(archive)) : IsAttestation(leaf)}
<1>1. ASSUME NEW list, IsList(list), NEW set, set \subseteq ToSet(list)
      PROVE  IsList(Only(list, set)) /\ ToSet(Only(list, set)) = set
  <2>1. list \in Seq(ToSet(list))
    BY <1>1 DEF IsList
  <2>2. Only(list, set) \in Seq(ToSet(list)) /\ ToSet(Only(list, set)) = ToSet(list) \intersect set
    BY ONLY <2>1, OnlyElements
  <2>3. QED
    BY <1>1, <2>2, ListType
<1>2. IsList(Walk(archive.root))
  BY WalkIsList
<1> DEFINE leaves == {x \in ToSet(Walk(archive.root)) : x.content.kind = "manifest"}
<1>3. Leaves(archive) = Only(Walk(archive.root), leaves) /\ leaves \subseteq ToSet(Walk(archive.root))
  BY DEF Leaves, ManifestsIn
<1> HIDE DEF leaves
<1>4. IsList(Leaves(archive)) /\ ToSet(Leaves(archive)) = leaves
  BY <1>1, <1>2, <1>3
<1> DEFINE images == {leaf \in ToSet(Leaves(archive)) : ~IsAttestation(leaf)}
           others == {leaf \in ToSet(Leaves(archive)) : IsAttestation(leaf)}
<1>5. /\ Images(archive) = Only(Leaves(archive), images) /\ images \subseteq ToSet(Leaves(archive))
      /\ Attestations(archive) = Only(Leaves(archive), others) /\ others \subseteq ToSet(Leaves(archive))
  BY DEF Images, Attestations, ImagesIn, AttestationsIn
<1> HIDE DEF images, others
<1>6. /\ IsList(Images(archive)) /\ ToSet(Images(archive)) = images
      /\ IsList(Attestations(archive)) /\ ToSet(Attestations(archive)) = others
  BY <1>1, <1>4, <1>5
<1>7. QED
  BY <1>4, <1>6 DEF leaves, images, others

(* What is read of the index.json alone is the same for both.              *)
LEMMA SameRoot ==
  ASSUME NEW archive, NEW other, archive.root = other.root
  PROVE  /\ Leaves(archive) = Leaves(other) /\ Images(archive) = Images(other)
         /\ Attestations(archive) = Attestations(other) /\ Metadata(archive) = Metadata(other)
         /\ HasProvenance(archive) <=> HasProvenance(other)
         /\ DistinctLeaves(archive) <=> DistinctLeaves(other)
         /\ CompleteGraph(archive) <=> CompleteGraph(other)
<1>1. Leaves(archive) = Leaves(other)
  BY DEF Leaves
<1>2. Images(archive) = Images(other) /\ Attestations(archive) = Attestations(other)
  BY <1>1 DEF Images, Attestations
<1>3. /\ Metadata(archive) = Metadata(other)
      /\ HasProvenance(archive) <=> HasProvenance(other)
      /\ DistinctLeaves(archive) <=> DistinctLeaves(other)
      /\ CompleteGraph(archive) <=> CompleteGraph(other)
  BY <1>1, <1>2 DEF Metadata, HasProvenance, DistinctLeaves, CompleteGraph
<1>4. QED
  BY <1>1, <1>2, <1>3

LEMMA PlatformFacts ==
  /\ ToSet(Platforms) = {Platforms[1], Platforms[2]} /\ Platforms[1] # Platforms[2]
  /\ Platforms = <<Platforms[1], Platforms[2]>>
  /\ Platforms[1] # "unknown" /\ Platforms[2] # "unknown"
<1>1. /\ Platforms[1] = "linux/amd64" /\ Platforms[2] = "linux/arm64"
      /\ DOMAIN Platforms = {1, 2} /\ Platforms = <<Platforms[1], Platforms[2]>>
  BY DEF Platforms
<1>2. QED
  BY <1>1 DEF ToSet

(***************************************************************************)
(* Two native inputs.                                                      *)
(***************************************************************************)
Inputs(inputs) ==
  \A p \in ToSet(Platforms) :
    Listed(inputs[p].root) /\ NativeInput(inputs[p], p, Newest, Revision)

InputImage(inputs, p) == Images(inputs[p])[1]

(* A native input has one image, and all its attestations are about it.    *)
LEMMA InputFacts ==
  ASSUME NEW inputs, Inputs(inputs), NEW p \in ToSet(Platforms)
  PROVE  /\ Images(inputs[p]) = <<InputImage(inputs, p)>>
         /\ ToSet(Images(inputs[p])) = {InputImage(inputs, p)}
         /\ InputImage(inputs, p) \in ToSet(Leaves(inputs[p])) /\ ~IsAttestation(InputImage(inputs, p))
         /\ RunnableImage(inputs[p], InputImage(inputs, p), p, Newest, Revision)
         /\ IsList(Attestations(inputs[p]))
         /\ \A leaf \in ToSet(Leaves(inputs[p])) :
              /\ leaf \in ToSet(Walk(inputs[p].root))
              /\ leaf.content \in inputs[p].blobs /\ leaf.content.kind = "manifest"
         /\ \A leaf \in ToSet(Attestations(inputs[p])) :
              /\ leaf \in ToSet(Leaves(inputs[p])) /\ IsAttestation(leaf)
              /\ Attestation(inputs[p], leaf) /\ Subject(leaf) = InputImage(inputs, p).content
<1> DEFINE archive == inputs[p]
<1>1. Listed(archive.root) /\ NativeInput(archive, p, Newest, Revision)
  BY DEF Inputs
<1>2. InputImage(inputs, p) = Images(archive)[1]
  BY DEF InputImage
<1> HIDE DEF archive
<1>3. /\ IsList(Leaves(archive)) /\ IsList(Images(archive)) /\ IsList(Attestations(archive))
      /\ ToSet(Leaves(archive)) =
           {x \in ToSet(Walk(archive.root)) : x.content.kind = "manifest"}
      /\ ToSet(Images(archive)) = {leaf \in ToSet(Leaves(archive)) : ~IsAttestation(leaf)}
      /\ ToSet(Attestations(archive)) = {leaf \in ToSet(Leaves(archive)) : IsAttestation(leaf)}
  BY <1>1, LeavesFacts
<1>4. /\ \A leaf \in ToSet(Leaves(archive)) :
           IF IsAttestation(leaf) THEN Attestation(archive, leaf)
                                  ELSE RunnableImage(archive, leaf, p, Newest, Revision)
      /\ Len(Images(archive)) = 1
      /\ \A leaf \in ToSet(Attestations(archive)) : Subject(leaf) = Images(archive)[1].content
      /\ \A x \in ToSet(Walk(archive.root)) : x.content \in archive.blobs
  BY <1>1 DEF NativeInput, CompleteGraph, Walkable
<1>5. Images(archive) = <<Images(archive)[1]>> /\ ToSet(Images(archive)) = {Images(archive)[1]}
  <2>1. PICK s, X : s = Images(archive) /\ X = ToSet(s)
    OBVIOUS
  <2>2. s \in Seq(X) /\ Len(s) = 1
    BY <1>3, <1>4, <2>1 DEF IsList
  <2>3. s = <<s[1]>>
    BY ONLY <2>2
  <2>4. PICK x : x = s[1]
    OBVIOUS
  <2>5. ToSet(<<x>>) = {x}
    BY DEF ToSet
  <2>6. QED
    BY <2>1, <2>3, <2>4, <2>5
<1>6. Images(archive)[1] \in ToSet(Leaves(archive)) /\ ~IsAttestation(Images(archive)[1])
  BY <1>3, <1>5
<1>7. QED
  BY <1>2, <1>3, <1>4, <1>5, <1>6 DEF archive

(* The two images in the order of the platforms, and the attestations.     *)
LEMMA BothFacts ==
  ASSUME NEW inputs, Inputs(inputs)
  PROVE  /\ BothImages(inputs) = <<InputImage(inputs, Platforms[1]), InputImage(inputs, Platforms[2])>>
         /\ IsList(BothImages(inputs)) /\ IsList(BothAttestations(inputs))
         /\ DOMAIN BothImages(inputs) = 1..2
         /\ \A n \in 1..2 : /\ BothImages(inputs)[n] = InputImage(inputs, Platforms[n])
                            /\ Platforms[n] \in ToSet(Platforms)
         /\ \A x : x \in ToSet(BothImages(inputs)) <=> \E p \in ToSet(Platforms) : x = InputImage(inputs, p)
         /\ \A x : x \in ToSet(BothAttestations(inputs)) <=>
                     \E p \in ToSet(Platforms) : x \in ToSet(Attestations(inputs[p]))
<1>1. PICK p, q : p = Platforms[1] /\ q = Platforms[2]
  OBVIOUS
<1>2. p \in ToSet(Platforms) /\ q \in ToSet(Platforms) /\ ToSet(Platforms) = {p, q}
  BY <1>1, PlatformFacts
<1>3. PICK x, y : x = InputImage(inputs, p) /\ y = InputImage(inputs, q)
  OBVIOUS
<1>4. Images(inputs[p]) = <<x>> /\ Images(inputs[q]) = <<y>>
  BY <1>2, <1>3, InputFacts
<1>5. BothImages(inputs) = <<x, y>>
  <2>1. <<x>> \o <<y>> = <<x, y>>
    <3>1. PICK s, t, X : s = <<x>> /\ t = <<y>> /\ X = {x, y}
      OBVIOUS
    <3>2. s \in Seq(X) /\ t \in Seq(X) /\ Len(s) = 1 /\ Len(t) = 1 /\ s[1] = x /\ t[1] = y
      BY <3>1
    <3>3. s \o t \in Seq(X) /\ Len(s \o t) = 2 /\ (s \o t)[1] = x /\ (s \o t)[2] = y
      <4>1. /\ s \o t \in Seq(X) /\ Len(s \o t) = Len(s) + Len(t)
            /\ \A i \in 1..Len(s) : (s \o t)[i] = s[i]
            /\ \A i \in (Len(s) + 1)..(Len(s) + Len(t)) : (s \o t)[i] = t[i - Len(s)]
        <5>1. s \in Seq(X) /\ t \in Seq(X)
          BY <3>2
        <5>2. QED
          BY ONLY <5>1
      <4>2. 1 \in 1..Len(s) /\ 2 \in (Len(s) + 1)..(Len(s) + Len(t)) /\ 2 - Len(s) = 1
        BY <3>2
      <4>3. QED
        BY <3>2, <4>1, <4>2
    <3>4. <<x, y>> \in Seq(X) /\ Len(<<x, y>>) = 2 /\ <<x, y>>[1] = x /\ <<x, y>>[2] = y
      BY <3>1
    <3>5. \A i \in 1..2 : i = 1 \/ i = 2
      OBVIOUS
    <3>6. s \o t = <<x, y>>
      BY <3>3, <3>4, <3>5, SameList
    <3>7. QED
      BY <3>1, <3>6
  <2>2. QED
    BY <1>1, <1>4, <2>1 DEF BothImages
<1>6. /\ IsList(<<x, y>>) /\ ToSet(<<x, y>>) = {x, y}
      /\ DOMAIN <<x, y>> = 1..2 /\ <<x, y>>[1] = x /\ <<x, y>>[2] = y
  <2>1. ToSet(<<x, y>>) = {x, y}
    BY DEF ToSet
  <2>2. <<x, y>> \in Seq({x, y})
    OBVIOUS
  <2>3. QED
    BY <2>1, <2>2 DEF IsList
<1>7. PICK s, t : s = Attestations(inputs[p]) /\ t = Attestations(inputs[q])
  OBVIOUS
<1>8. IsList(s) /\ IsList(t) /\ BothAttestations(inputs) = s \o t
  BY <1>1, <1>2, <1>7, InputFacts DEF BothAttestations
<1>9. IsList(s \o t) /\ ToSet(s \o t) = ToSet(s) \union ToSet(t)
  <2>1. PICK X : X = ToSet(s) \union ToSet(t)
    OBVIOUS
  <2>2. ToSet(s) \subseteq X /\ ToSet(t) \subseteq X
    BY <2>1
  <2>3. s \in Seq(X) /\ t \in Seq(X)
    BY <1>8, <2>2, ListIn
  <2>4. s \o t \in Seq(X)
    BY ONLY <2>3
  <2>5. ToSet(s \o t) = ToSet(s) \union ToSet(t)
    BY ONLY <2>3, ConcatElements
  <2>6. IsList(s \o t)
    BY ONLY <2>4, ListType
  <2>7. QED
    BY <2>5, <2>6
<1>10. \A n \in 1..2 : n = 1 \/ n = 2
  OBVIOUS
<1>11. QED
  BY <1>1, <1>2, <1>3, <1>5, <1>6, <1>7, <1>8, <1>9, <1>10

(***************************************************************************)
(* What the two assemblies write.                                          *)
(***************************************************************************)
Written(inputs) == BothImages(inputs) \o BothAttestations(inputs)

(* The images of both inputs and behind them their attestations: the order *)
(* tells them apart, and so does the platform.                             *)
LEMMA WrittenFacts ==
  ASSUME NEW inputs, Inputs(inputs)
  PROVE  /\ IsList(Written(inputs)) /\ Manifests(Written(inputs)) /\ Written(inputs) # <<>>
         /\ ToSet(Written(inputs)) = ToSet(BothImages(inputs)) \union ToSet(BothAttestations(inputs))
         /\ Manifests(BothImages(inputs)) /\ BothImages(inputs) # <<>>
         /\ \A leaf \in ToSet(BothImages(inputs)) : ~IsAttestation(leaf) /\ leaf.platform # "unknown"
         /\ \A leaf \in ToSet(BothAttestations(inputs)) : IsAttestation(leaf) /\ leaf.platform = "unknown"
<1> DEFINE s == BothImages(inputs)
           t == BothAttestations(inputs)
<1>1. /\ IsList(s) /\ IsList(t) /\ DOMAIN s = 1..2
      /\ \A x : x \in ToSet(s) <=> \E p \in ToSet(Platforms) : x = InputImage(inputs, p)
      /\ \A x : x \in ToSet(t) <=> \E p \in ToSet(Platforms) : x \in ToSet(Attestations(inputs[p]))
  BY BothFacts
<1>2. /\ Manifests(s) /\ Manifests(t)
      /\ \A leaf \in ToSet(s) : ~IsAttestation(leaf) /\ leaf.platform # "unknown"
      /\ \A leaf \in ToSet(t) : IsAttestation(leaf) /\ leaf.platform = "unknown"
  <2>1. ASSUME NEW leaf \in ToSet(s)
        PROVE  ~IsAttestation(leaf) /\ leaf.platform # "unknown" /\ leaf.content.kind = "manifest"
    <3>1. PICK p \in ToSet(Platforms) : leaf = InputImage(inputs, p)
      BY <1>1
    <3>2. /\ ~IsAttestation(leaf) /\ RunnableImage(inputs[p], leaf, p, Newest, Revision)
          /\ leaf.content.kind = "manifest"
      BY <3>1, InputFacts
    <3>3. leaf.platform = p /\ p # "unknown"
      BY <3>2, PlatformFacts DEF RunnableImage
    <3>4. QED
      BY <3>2, <3>3
  <2>2. ASSUME NEW leaf \in ToSet(t)
        PROVE  IsAttestation(leaf) /\ leaf.platform = "unknown" /\ leaf.content.kind = "manifest"
    <3>1. PICK p \in ToSet(Platforms) : leaf \in ToSet(Attestations(inputs[p]))
      BY <1>1
    <3>2. IsAttestation(leaf) /\ Attestation(inputs[p], leaf) /\ leaf.content.kind = "manifest"
      BY <3>1, InputFacts
    <3>3. QED
      BY <3>2 DEF Attestation
  <2>3. QED
    BY <2>1, <2>2 DEF Manifests
<1>3. s # <<>> /\ 1 \in DOMAIN s
  BY <1>1
<1> HIDE DEF s, t
<1>4. /\ IsList(s \o t) /\ ToSet(s \o t) = ToSet(s) \union ToSet(t)
      /\ s \o t # <<>>
  <2>1. PICK X : X = ToSet(s) \union ToSet(t)
    OBVIOUS
  <2>2. ToSet(s) \subseteq X /\ ToSet(t) \subseteq X
    BY <2>1
  <2>3. s \in Seq(X) /\ t \in Seq(X)
    BY <1>1, <2>2, ListIn
  <2>4. s \o t \in Seq(X)
    BY ONLY <2>3
  <2>5. ToSet(s \o t) = ToSet(s) \union ToSet(t)
    BY ONLY <2>3, ConcatElements
  <2>6. IsList(s \o t)
    BY ONLY <2>4, ListType
  <2>7. s[1] \in ToSet(s \o t)
    BY <1>3, <2>5 DEF ToSet
  <2>8. s \o t # <<>>
    <3>1. ToSet(<<>>) = {}
      BY DEF ToSet
    <3>2. QED
      BY <2>7, <3>1
  <2>9. QED
    BY <2>5, <2>6, <2>8
<1>5. Manifests(s \o t)
  BY <1>2, <1>4 DEF Manifests
<1>6. QED
  BY <1>2, <1>3, <1>4, <1>5 DEF Written, s, t

(* What the walk finds again in a merged archive, and in a runnable one.   *)
LEMMA MergeFacts ==
  ASSUME NEW inputs, Inputs(inputs), NEW archive, archive.root = NestedIndex(Written(inputs))
  PROVE  /\ Leaves(archive) = Written(inputs)
         /\ Images(archive) = BothImages(inputs) /\ Attestations(archive) = BothAttestations(inputs)
<1> DEFINE s == BothImages(inputs)
           t == BothAttestations(inputs)
           images == {leaf \in ToSet(Written(inputs)) : ~IsAttestation(leaf)}
           others == {leaf \in ToSet(Written(inputs)) : IsAttestation(leaf)}
<1>1. Leaves(archive) = Written(inputs)
  BY WrittenFacts, NestedLeaves
<1>2. /\ Written(inputs) = s \o t
      /\ ToSet(s) \subseteq images /\ ToSet(t) \intersect images = {}
      /\ ToSet(s) \intersect others = {} /\ ToSet(t) \subseteq others
  BY WrittenFacts DEF Written
<1>3. Images(archive) = Only(Written(inputs), images) /\ Attestations(archive) = Only(Written(inputs), others)
  BY <1>1 DEF Images, Attestations, ImagesIn, AttestationsIn
<1>4. IsList(s) /\ IsList(t)
  BY BothFacts
<1> HIDE DEF s, t, images, others
<1>5. PICK X : X = ToSet(s) \union ToSet(t)
  OBVIOUS
<1>6. ToSet(s) \subseteq X /\ ToSet(t) \subseteq X
  BY <1>5
<1>7. s \in Seq(X) /\ t \in Seq(X)
  BY <1>4, <1>6, ListIn
<1>8. Only(s \o t, images) = s
  BY ONLY <1>2, <1>7, OnlyFirst
<1>9. Only(s \o t, others) = t
  BY ONLY <1>2, <1>7, OnlySecond
<1>10. QED
  BY <1>1, <1>2, <1>3, <1>8, <1>9 DEF s, t

LEMMA RuntimeFacts ==
  ASSUME NEW inputs, Inputs(inputs), NEW archive, archive.root = NestedIndex(BothImages(inputs))
  PROVE  /\ Leaves(archive) = BothImages(inputs)
         /\ Images(archive) = BothImages(inputs) /\ Attestations(archive) = <<>>
<1> DEFINE s == BothImages(inputs)
           images == {leaf \in ToSet(s) : ~IsAttestation(leaf)}
           others == {leaf \in ToSet(s) : IsAttestation(leaf)}
<1>1. IsList(s)
  BY BothFacts
<1>2. Leaves(archive) = s
  BY <1>1, WrittenFacts, NestedLeaves
<1>3. ToSet(s) \subseteq images /\ ToSet(s) \intersect others = {}
  BY WrittenFacts
<1>4. Images(archive) = Only(s, images) /\ Attestations(archive) = Only(s, others)
  BY <1>2 DEF Images, Attestations, ImagesIn, AttestationsIn
<1> HIDE DEF s, images, others
<1>5. s \in Seq(ToSet(s))
  BY <1>1 DEF IsList
<1>6. Only(s, images) = s
  BY ONLY <1>3, <1>5, OnlyAll
<1>7. Only(s, others) = <<>>
  BY ONLY <1>3, <1>5, OnlyNone
<1>8. QED
  BY <1>2, <1>4, <1>6, <1>7 DEF s

(* Both are walked to the end, when they are within the limit.             *)
LEMMA WrittenWalkable ==
  ASSUME NEW list, IsList(list), Manifests(list), list # <<>>,
         NEW archive, archive.root = NestedIndex(list),
         Len(Walk(archive.root)) <= MaxVisited,
         archive.root[1].content \in archive.blobs,
         \A leaf \in ToSet(list) : leaf.content \in archive.blobs
  PROVE  /\ Walkable(archive)
         /\ \A x \in ToSet(Walk(archive.root)) : x.content.kind = "index" => ~x.annotated
<1>1. /\ archive.root # <<>> /\ archive.root[1].content.kind = "index"
      /\ archive.root[1].content.manifests = list /\ archive.root[1].annotated = FALSE
  BY NestedIndexFacts
<1>2. /\ Levels(archive.root)[MaxDepth + 1] = <<>>
      /\ ToSet(Walk(archive.root)) = {archive.root[1]} \union ToSet(list)
  BY NestedWalk
<1>3. \A leaf \in ToSet(list) : leaf.content.kind = "manifest"
  BY DEF Manifests
<1>4. QED
  BY <1>1, <1>2, <1>3 DEF Walkable

(***************************************************************************)
(* An archive under the same index.json that has every blob the checks     *)
(* read is accepted as well: the original input is restored from its       *)
(* metadata and from the layers of the runnable archive.                   *)
(***************************************************************************)
LEMMA Restored ==
  ASSUME NEW inputs, Inputs(inputs), NEW p \in ToSet(Platforms),
         NEW other, other.root = inputs[p].root,
         Metadata(inputs[p]) \subseteq other.blobs,
         ToSet(InputImage(inputs, p).content.layers) \subseteq other.blobs
  PROVE  NativeInput(other, p, Newest, Revision)
<1> DEFINE archive == inputs[p]
           image == InputImage(inputs, p)
<1>1. Listed(archive.root) /\ NativeInput(archive, p, Newest, Revision)
  BY DEF Inputs
<1>2. /\ Leaves(other) = Leaves(archive) /\ Attestations(other) = Attestations(archive)
      /\ DistinctLeaves(other) /\ CompleteGraph(other)
  <2>1. DistinctLeaves(archive) /\ CompleteGraph(archive)
    BY <1>1 DEF NativeInput
  <2>2. QED
    BY <2>1, SameRoot
<1>3. /\ \A x \in ToSet(Walk(archive.root)) : x.content \in other.blobs
      /\ \A leaf \in ToSet(Leaves(archive)) : leaf.content.config \in other.blobs
      /\ \A leaf \in ToSet(Attestations(archive)) : ToSet(leaf.content.layers) \subseteq other.blobs
  BY DEF Metadata
<1>4. Walkable(other)
  BY <1>1, <1>3 DEF NativeInput, Walkable
<1>5. /\ ToSet(Images(archive)) = {image} /\ image \in ToSet(Leaves(archive))
      /\ \A leaf \in ToSet(Attestations(archive)) : Subject(leaf) = image.content
      /\ \A leaf \in ToSet(Leaves(archive)) : leaf \in ToSet(Walk(archive.root))
  BY InputFacts
<1>6. /\ ToSet(Images(archive)) = {leaf \in ToSet(Leaves(archive)) : ~IsAttestation(leaf)}
      /\ ToSet(Attestations(archive)) = {leaf \in ToSet(Leaves(archive)) : IsAttestation(leaf)}
  BY <1>1, LeavesFacts
<1> HIDE DEF archive, image
<1>7. ASSUME NEW leaf \in ToSet(Leaves(archive))
      PROVE  IF IsAttestation(leaf) THEN Attestation(other, leaf)
                                    ELSE RunnableImage(other, leaf, p, Newest, Revision)
  <2>1. IF IsAttestation(leaf) THEN Attestation(archive, leaf)
                               ELSE RunnableImage(archive, leaf, p, Newest, Revision)
    BY <1>1 DEF NativeInput
  <2>2. leaf.content.config \in other.blobs
    BY <1>3
  <2>3. CASE IsAttestation(leaf)
    <3>1. Attestation(archive, leaf) /\ leaf \in ToSet(Attestations(archive))
      BY <1>6, <2>1, <2>3
    <3>2. ToSet(leaf.content.layers) \subseteq other.blobs
      BY <1>3, <3>1
    <3>3. Subject(leaf) \in other.blobs
      BY <1>3, <1>5, <3>1
    <3>4. ArtifactForm(archive, leaf) => ArtifactForm(other, leaf)
      BY <2>2, <3>3 DEF ArtifactForm, Subject
    <3>5. LegacyForm(archive, leaf) => LegacyForm(other, leaf)
      BY <2>2, <3>3 DEF LegacyForm, UnknownConfig, Subject
    <3>6. Attestation(other, leaf)
      BY <3>1, <3>2, <3>4, <3>5 DEF Attestation
    <3>7. QED
      BY <2>3, <3>6
  <2>4. CASE ~IsAttestation(leaf)
    <3>1. leaf = image /\ RunnableImage(archive, leaf, p, Newest, Revision)
      BY <1>5, <1>6, <2>1, <2>4
    <3>2. ToSet(leaf.content.layers) \subseteq other.blobs
      BY <3>1 DEF image
    <3>3. RunnableImage(other, leaf, p, Newest, Revision)
      BY <2>2, <3>1, <3>2 DEF RunnableImage
    <3>4. QED
      BY <2>4, <3>3
  <2>5. QED
    BY <2>3, <2>4
<1>8. QED
  BY <1>2, <1>4, <1>7 DEF NativeInput

(***************************************************************************)
(* The contract of a published archive.                                    *)
(***************************************************************************)
(* Of the images, wherever their config and layers are.                    *)
LEMMA ImageMetadata ==
  ASSUME NEW inputs, Inputs(inputs), NEW archive,
         \A p \in ToSet(Platforms) : /\ InputImage(inputs, p).content.config \in archive.blobs
                                     /\ ToSet(InputImage(inputs, p).content.layers) \subseteq archive.blobs
  PROVE  \A leaf \in ToSet(BothImages(inputs)) : MetadataRunnable(archive, leaf, Newest)
<1> TAKE leaf \in ToSet(BothImages(inputs))
<1>1. PICK p \in ToSet(Platforms) : leaf = InputImage(inputs, p)
  BY BothFacts
<1>2. RunnableImage(inputs[p], leaf, p, Newest, Revision) /\ p # "unknown"
  BY <1>1, InputFacts, PlatformFacts
<1>3. QED
  BY <1>1, <1>2 DEF RunnableImage, Labels, MetadataRunnable

(* Of the merged archive, of the runnable one, and the pair of the latter  *)
(* with its sidecar.                                                       *)
LEMMA MergeVerifies ==
  ASSUME NEW inputs, Inputs(inputs), Len(Walk(Merge(inputs).root)) <= MaxVisited
  PROVE  OciMetadata(Merge(inputs), Newest)
<1> DEFINE archive == Merge(inputs)
<1>1. archive.root = NestedIndex(Written(inputs)) /\ archive.root[1].content \in archive.blobs
      /\ \A p \in ToSet(Platforms) : inputs[p].blobs \subseteq archive.blobs
  BY DEF Merge, Written, Archive
<1> HIDE DEF archive
<1>2. /\ Images(archive) = BothImages(inputs) /\ Attestations(archive) = BothAttestations(inputs)
  BY <1>1, MergeFacts
<1>3. \A leaf \in ToSet(Written(inputs)) : leaf.content \in archive.blobs
  <2> TAKE leaf \in ToSet(Written(inputs))
  <2>1. PICK p \in ToSet(Platforms) : leaf = InputImage(inputs, p) \/ leaf \in ToSet(Attestations(inputs[p]))
    BY WrittenFacts, BothFacts
  <2>2. leaf \in ToSet(Leaves(inputs[p]))
    BY <2>1, InputFacts
  <2>3. QED
    BY <1>1, <2>2, InputFacts
<1>4. Walkable(archive) /\ \A x \in ToSet(Walk(archive.root)) : x.content.kind = "index" => ~x.annotated
  <2>1. Len(Walk(archive.root)) <= MaxVisited
    BY DEF archive
  <2>2. IsList(Written(inputs)) /\ Manifests(Written(inputs)) /\ Written(inputs) # <<>>
    BY WrittenFacts
  <2>3. QED
    BY <1>1, <1>3, <2>1, <2>2, WrittenWalkable
<1>5. \A leaf \in ToSet(Images(archive)) : MetadataRunnable(archive, leaf, Newest)
  <2>1. ASSUME NEW p \in ToSet(Platforms)
        PROVE  /\ InputImage(inputs, p).content.config \in archive.blobs
               /\ ToSet(InputImage(inputs, p).content.layers) \subseteq archive.blobs
    <3>1. RunnableImage(inputs[p], InputImage(inputs, p), p, Newest, Revision)
      BY InputFacts
    <3>2. inputs[p].blobs \subseteq archive.blobs
      BY <1>1
    <3>3. QED
      BY <3>1, <3>2 DEF RunnableImage
  <2>2. QED
    BY <1>2, <2>1, ImageMetadata
<1>6. ASSUME NEW leaf \in ToSet(Attestations(archive))
      PROVE  /\ MetadataAttestation(archive, leaf)
             /\ Subject(leaf) \in {image.content : image \in ToSet(Images(archive))}
  <2>1. PICK p \in ToSet(Platforms) : leaf \in ToSet(Attestations(inputs[p]))
    BY <1>2, BothFacts
  <2>2. Attestation(inputs[p], leaf) /\ Subject(leaf) = InputImage(inputs, p).content
    BY <2>1, InputFacts
  <2>3. InputImage(inputs, p) \in ToSet(Images(archive))
    BY <1>2, BothFacts
  <2>4. inputs[p].blobs \subseteq archive.blobs
    BY <1>1
  <2>5. ArtifactForm(inputs[p], leaf) => ArtifactForm(archive, leaf)
    BY <2>4 DEF ArtifactForm
  <2>6. LegacyForm(inputs[p], leaf) => ~leaf.content.artifact /\ UnknownConfig(archive, leaf.content.config)
    BY <2>4 DEF LegacyForm, UnknownConfig
  <2>7. MetadataAttestation(archive, leaf)
    BY <2>2, <2>4, <2>5, <2>6 DEF MetadataAttestation, Attestation
  <2>8. QED
    BY <2>2, <2>3, <2>7
<1>7. Images(archive) # <<>>
  BY <1>2, WrittenFacts
<1>8. OciMetadata(archive, Newest)
  BY <1>4, <1>5, <1>6, <1>7 DEF OciMetadata
<1>9. QED
  BY <1>8 DEF archive

LEMMA RuntimeBlobFacts ==
  ASSUME NEW inputs, Inputs(inputs), NEW archive, archive = RuntimeArchive(inputs)
  PROVE  /\ archive.root = NestedIndex(BothImages(inputs)) /\ archive.root[1].content \in archive.blobs
         /\ archive.blobs = {archive.root[1].content}
              \union UNION {RuntimeBlobs(leaf) : leaf \in ToSet(BothImages(inputs))}
         /\ \A p \in ToSet(Platforms) :
              /\ InputImage(inputs, p).content \in archive.blobs
              /\ InputImage(inputs, p).content.config \in archive.blobs
              /\ ToSet(InputImage(inputs, p).content.layers) \subseteq archive.blobs
<1>1. /\ archive.root = NestedIndex(BothImages(inputs))
      /\ archive.blobs = {archive.root[1].content}
           \union UNION {RuntimeBlobs(leaf) : leaf \in ToSet(BothImages(inputs))}
  BY DEF RuntimeArchive, Archive
<1>2. ASSUME NEW p \in ToSet(Platforms)
      PROVE  /\ InputImage(inputs, p).content \in archive.blobs
             /\ InputImage(inputs, p).content.config \in archive.blobs
             /\ ToSet(InputImage(inputs, p).content.layers) \subseteq archive.blobs
  <2>1. InputImage(inputs, p) \in ToSet(BothImages(inputs))
    BY BothFacts
  <2>2. RuntimeBlobs(InputImage(inputs, p)) \subseteq archive.blobs
    BY <1>1, <2>1
  <2>3. QED
    BY <2>2 DEF RuntimeBlobs
<1>3. QED
  BY <1>1, <1>2

LEMMA RuntimeVerifies ==
  ASSUME NEW inputs, Inputs(inputs), Len(Walk(RuntimeArchive(inputs).root)) <= MaxVisited
  PROVE  OciMetadata(RuntimeArchive(inputs), Newest) /\ Runnable(RuntimeArchive(inputs), Newest, Revision)
<1> DEFINE archive == RuntimeArchive(inputs)
<1>1. /\ archive.root = NestedIndex(BothImages(inputs)) /\ archive.root[1].content \in archive.blobs
      /\ archive.blobs = {archive.root[1].content}
           \union UNION {RuntimeBlobs(leaf) : leaf \in ToSet(BothImages(inputs))}
      /\ \A p \in ToSet(Platforms) :
           /\ InputImage(inputs, p).content \in archive.blobs
           /\ InputImage(inputs, p).content.config \in archive.blobs
           /\ ToSet(InputImage(inputs, p).content.layers) \subseteq archive.blobs
  BY RuntimeBlobFacts
<1>2. Len(Walk(archive.root)) <= MaxVisited
  OBVIOUS
<1> HIDE DEF archive
<1>3. Images(archive) = BothImages(inputs) /\ Attestations(archive) = <<>>
  BY <1>1, RuntimeFacts
<1>4. Walkable(archive) /\ \A x \in ToSet(Walk(archive.root)) : x.content.kind = "index" => ~x.annotated
  <2>1. IsList(BothImages(inputs)) /\ Manifests(BothImages(inputs)) /\ BothImages(inputs) # <<>>
    BY BothFacts, WrittenFacts
  <2>2. \A leaf \in ToSet(BothImages(inputs)) : leaf.content \in archive.blobs
    BY <1>1, BothFacts
  <2>3. QED
    BY <1>1, <1>2, <2>1, <2>2, WrittenWalkable
<1>5. \A leaf \in ToSet(Images(archive)) : MetadataRunnable(archive, leaf, Newest)
  BY <1>1, <1>3, ImageMetadata
<1>6. ToSet(Attestations(archive)) = {}
  BY <1>3 DEF ToSet
<1>7. Images(archive) # <<>>
  BY <1>3, WrittenFacts
<1>8. OciMetadata(archive, Newest)
  BY <1>4, <1>5, <1>6, <1>7 DEF OciMetadata
<1>9. \A leaf \in ToSet(Images(archive)) : RunnableImage(archive, leaf, leaf.platform, Newest, Revision)
  <2> TAKE leaf \in ToSet(Images(archive))
  <2>1. PICK p \in ToSet(Platforms) : leaf = InputImage(inputs, p)
    BY <1>3, BothFacts
  <2>2. RunnableImage(inputs[p], leaf, p, Newest, Revision)
    BY <2>1, InputFacts
  <2>3. QED
    BY <1>1, <2>1, <2>2 DEF RunnableImage
<1>10. [i \in DOMAIN Images(archive) |-> Images(archive)[i].platform] = Platforms
  <2>1. DOMAIN Images(archive) = 1..2 /\ \A n \in 1..2 : Images(archive)[n].platform = Platforms[n]
    <3>1. \A n \in 1..2 : BothImages(inputs)[n] = InputImage(inputs, Platforms[n]) /\ Platforms[n] \in ToSet(Platforms)
      BY BothFacts
    <3>2. ASSUME NEW p \in ToSet(Platforms) PROVE InputImage(inputs, p).platform = p
      <4>1. RunnableImage(inputs[p], InputImage(inputs, p), p, Newest, Revision)
        BY InputFacts
      <4>2. QED
        BY <4>1 DEF RunnableImage
    <3>3. DOMAIN BothImages(inputs) = 1..2
      BY BothFacts
    <3>4. QED
      BY <1>3, <3>1, <3>2, <3>3
  <2>2. Platforms = [n \in 1..2 |-> Platforms[n]]
    BY DEF Platforms
  <2>3. QED
    BY <2>1, <2>2
<1>11. Runnable(archive, Newest, Revision)
  BY <1>1, <1>3, <1>4, <1>9, <1>10 DEF Runnable
<1>12. QED
  BY <1>8, <1>11 DEF archive

LEMMA PairVerifies ==
  ASSUME NEW inputs, Inputs(inputs), Len(Walk(RuntimeArchive(inputs).root)) <= MaxVisited,
         \A p \in ToSet(Platforms) : HasProvenance(inputs[p])
  PROVE  VerifiedPair(RuntimeArchive(inputs), Sidecar(inputs, Revision), Newest, Revision)
<1> DEFINE archive == RuntimeArchive(inputs)
           sidecar == Sidecar(inputs, Revision)
<1>1. Runnable(archive, Newest, Revision)
  BY RuntimeVerifies
<1>2. /\ sidecar.revision = Revision /\ sidecar.image = archive
      /\ \A p \in ToSet(Platforms) : sidecar.inputs[p] = inputs[p].root
      /\ sidecar.blobs = UNION {Metadata(inputs[p]) : p \in ToSet(Platforms)}
  BY DEF Sidecar
<1>3. sidecar # NoSidecar
  <2>1. "image" \in DOMAIN sidecar
    BY DEF Sidecar
  <2>2. "image" \notin DOMAIN NoSidecar
    BY DEF NoSidecar
  <2> HIDE DEF sidecar
  <2>3. QED
    BY <2>1, <2>2
<1>4. \A p \in ToSet(Platforms) : ToSet(InputImage(inputs, p).content.layers) \subseteq archive.blobs
  BY RuntimeBlobFacts
<1>5. Images(archive) = BothImages(inputs)
  BY RuntimeBlobFacts, RuntimeFacts
<1> HIDE DEF archive, sidecar
<1>6. ASSUME NEW p \in ToSet(Platforms)
      PROVE  /\ NativeInput(Original(archive, sidecar, p), p, Newest, Revision)
             /\ Images(Original(archive, sidecar, p))[1] \in ToSet(Images(archive))
             /\ HasProvenance(Original(archive, sidecar, p))
             /\ Metadata(Original(archive, sidecar, p)) = Metadata(inputs[p])
  <2> DEFINE original == Original(archive, sidecar, p)
  <2>1. original.root = inputs[p].root /\ original.blobs = archive.blobs \union sidecar.blobs
    BY <1>2 DEF Original, Archive
  <2> HIDE DEF original
  <2>2. /\ Images(original) = Images(inputs[p]) /\ HasProvenance(original)
        /\ Metadata(original) = Metadata(inputs[p])
    BY <2>1, SameRoot
  <2>3. Images(original)[1] \in ToSet(Images(archive))
    <3>1. InputImage(inputs, p) \in ToSet(BothImages(inputs))
      BY BothFacts
    <3>2. QED
      BY <1>5, <2>2, <3>1 DEF InputImage
  <2>4. Metadata(inputs[p]) \subseteq original.blobs
    BY <1>2, <2>1
  <2>5. ToSet(InputImage(inputs, p).content.layers) \subseteq original.blobs
    BY <1>4, <2>1
  <2>6. NativeInput(original, p, Newest, Revision)
    BY <2>1, <2>4, <2>5, Restored
  <2>7. QED
    BY <2>2, <2>3, <2>6 DEF original
<1>7. UNION {Metadata(inputs[p]) : p \in ToSet(Platforms)} \subseteq
        UNION {Metadata(Original(archive, sidecar, p)) : p \in ToSet(Platforms)}
  BY <1>6
<1>8. VerifiedPair(archive, sidecar, Newest, Revision)
  BY <1>1, <1>2, <1>3, <1>6, <1>7 DEF VerifiedPair
<1>9. QED
  BY <1>8 DEF archive, sidecar

(***************************************************************************)
(* The assemblies.                                                         *)
(***************************************************************************)
InputsOf(name) == ArchivesOf(Offers[name[1]])

(* What an assembly has written, and of which inputs.                      *)
LEMMA AssemblyFacts ==
  ASSUME NEW a \in Assemblies
  PROVE  /\ a.name[1] \in DOMAIN Offers /\ Assemblable(Offers[a.name[1]])
         /\ a.name[2] \in BOOLEAN
         /\ a = AssemblyOf(a.name, InputsOf(a.name))
         /\ a.name[2] => /\ a.image = RuntimeArchive(InputsOf(a.name))
                         /\ a.sidecar = Sidecar(InputsOf(a.name), Revision)
         /\ ~a.name[2] => a.image = Merge(InputsOf(a.name)) /\ a.sidecar = NoSidecar
         /\ Inputs(InputsOf(a.name))
         /\ \A p \in ToSet(Platforms) : InputsOf(a.name)[p] = Offers[a.name[1]][p].archive
<1>1. PICK name \in {b \in DOMAIN Offers : Assemblable(Offers[b])} \X BOOLEAN :
        a = AssemblyOf(name, ArchivesOf(Offers[name[1]]))
  BY DEF Assemblies
<1>2. name[1] \in DOMAIN Offers /\ Assemblable(Offers[name[1]]) /\ name[2] \in BOOLEAN
  BY <1>1
<1>3. a = AssemblyOf(name, InputsOf(name))
  BY <1>1 DEF InputsOf
<1>4. a.name = name
  BY <1>3 DEF AssemblyOf
<1>5. /\ name[2] => a.image = RuntimeArchive(InputsOf(name)) /\ a.sidecar = Sidecar(InputsOf(name), Revision)
      /\ ~name[2] => a.image = Merge(InputsOf(name)) /\ a.sidecar = NoSidecar
  BY <1>3 DEF AssemblyOf
<1>6. \A p \in ToSet(Platforms) : InputsOf(name)[p] = Offers[name[1]][p].archive
  BY DEF InputsOf, ArchivesOf
<1>7. Inputs(InputsOf(name))
  <2>1. ASSUME NEW p \in ToSet(Platforms) PROVE NativeInput(InputsOf(name)[p], p, Newest, Revision)
    BY <1>2 DEF Assemblable, Mergeable, InputsOf
  <2>2. ASSUME NEW p \in ToSet(Platforms) PROVE Listed(InputsOf(name)[p].root)
    BY <1>2, <1>6, OffersAssumption
  <2>3. QED
    BY <2>1, <2>2 DEF Inputs
<1>8. QED
  BY <1>2, <1>3, <1>4, <1>5, <1>6, <1>7

(* What an assembly accepted of its inputs.                                *)
LEMMA AssembledInputs ==
  ASSUME NEW a \in Assemblies, NEW p \in ToSet(Platforms)
  PROVE  /\ HasProvenance(InputsOf(a.name)[p])
         /\ InputImage(InputsOf(a.name), p).content.config = Offers[a.name[1]][p].build.config
<1>1. AssembledInput(Offers[a.name[1]][p]) /\ InputsOf(a.name)[p] = Offers[a.name[1]][p].archive
  BY AssemblyFacts DEF Assemblable
<1>2. QED
  BY <1>1 DEF AssembledInput, InputImage

(* The checks of the release accept what an assembly within the limit has  *)
(* written.                                                                *)
LEMMA AssembliesVerify ==
  ASSUME NEW a \in Assemblies, Len(Walk(a.image.root)) <= MaxVisited
  PROVE  Releasable(a, a)
<1> DEFINE inputs == InputsOf(a.name)
<1>1. /\ a.name[2] => a.image = RuntimeArchive(inputs) /\ a.sidecar = Sidecar(inputs, Revision)
      /\ ~a.name[2] => a.image = Merge(inputs)
      /\ Inputs(inputs)
  BY AssemblyFacts
<1>2. \A p \in ToSet(Platforms) : HasProvenance(inputs[p])
  BY AssembledInputs
<1> HIDE DEF inputs
<1>3. CASE a.name[2]
  <2>1. OciMetadata(a.image, Newest)
    BY <1>1, <1>3, RuntimeVerifies
  <2>2. VerifiedPair(a.image, a.sidecar, Newest, Revision)
    BY <1>1, <1>2, <1>3, PairVerifies
  <2>3. QED
    BY <1>3, <2>1, <2>2 DEF Releasable
<1>4. CASE ~a.name[2]
  <2>1. OciMetadata(a.image, Newest)
    BY <1>1, <1>4, MergeVerifies
  <2>2. QED
    BY <1>4, <2>1 DEF Releasable
<1>5. QED
  BY <1>3, <1>4

(* Whatever is within the limit may be released as it was assembled.       *)
LEMMA WithinLimitVerifies ==
  ASSUME NEW name \in WithinLimit
  PROVE  <<name, name>> \in Pairs
<1>1. PICK a \in Assemblies : name = a.name /\ Len(Walk(a.image.root)) <= MaxVisited
  BY DEF WithinLimit
<1>2. Releasable(a, a)
  BY <1>1, AssembliesVerify
<1>3. PICK q : q = <<a, a>>
  OBVIOUS
<1>4. q \in Assemblies \X Assemblies /\ q[1] = a /\ q[2] = a
  BY <1>3
<1>5. q \in {r \in Assemblies \X Assemblies : Releasable(r[1], r[2])}
  BY <1>2, <1>4
<1>6. <<q[1].name, q[2].name>> \in Pairs
  BY <1>5 DEF Pairs
<1>7. QED
  BY <1>1, <1>4, <1>6

(***************************************************************************)
(* What a release lets pass.                                               *)
(***************************************************************************)
(* Whatever an assembly has written holds the images that were tested, and *)
(* statements about them only.                                             *)
LEMMA LeavesAsBuilt ==
  ASSUME NEW a \in Assemblies
  PROVE  AsBuilt(Leaves(a.image), Offers[a.name[1]])
<1> DEFINE inputs == InputsOf(a.name)
           leaves == Leaves(a.image)
           both == BothImages(inputs)
           set == {leaf \in ToSet(leaves) : leaf.platform # "unknown"}
           runnable == Only(leaves, set)
<1>1. Inputs(inputs)
  BY AssemblyFacts
<1>2. IsList(both) /\ IsList(BothAttestations(inputs))
  BY <1>1, BothFacts
<1>3. /\ \A leaf \in ToSet(both) : leaf.platform # "unknown"
      /\ \A leaf \in ToSet(BothAttestations(inputs)) : leaf.platform = "unknown"
      /\ ToSet(Written(inputs)) = ToSet(both) \union ToSet(BothAttestations(inputs))
  BY <1>1, WrittenFacts
<1>4. /\ runnable = both
      /\ \A leaf \in ToSet(leaves) : leaf.platform = "unknown" => leaf \in ToSet(BothAttestations(inputs))
  <2>1. CASE a.name[2]
    <3>1. leaves = both
      BY <1>1, <2>1, AssemblyFacts, RuntimeBlobFacts, RuntimeFacts
    <3>2. ToSet(both) \subseteq set
      BY <1>3, <3>1
    <3>3. PICK X : X = ToSet(both)
      OBVIOUS
    <3>4. both \in Seq(X)
      BY <1>2, <3>3 DEF IsList
    <3> HIDE DEF both, set, leaves
    <3>5. Only(both, set) = both
      BY ONLY <3>2, <3>4, OnlyAll
    <3>6. QED
      BY <1>3, <3>1, <3>5
  <2>2. CASE ~a.name[2]
    <3>1. leaves = Written(inputs)
      <4>1. a.image = Merge(inputs)
        BY <2>2, AssemblyFacts
      <4>2. a.image.root = NestedIndex(Written(inputs))
        BY <4>1 DEF Merge, Written, Archive
      <4>3. QED
        BY <1>1, <4>2, MergeFacts
    <3> DEFINE others == BothAttestations(inputs)
    <3>2. ToSet(both) \subseteq set /\ ToSet(others) \intersect set = {} /\ leaves = both \o others
      BY <1>3, <3>1 DEF Written
    <3>3. PICK X : X = ToSet(both) \union ToSet(others)
      OBVIOUS
    <3> HIDE DEF both, set, leaves, others
    <3>4. both \in Seq(X) /\ others \in Seq(X)
      <4>1. ToSet(both) \subseteq X /\ ToSet(others) \subseteq X
        BY <3>3
      <4>2. QED
        BY <1>2, <4>1, ListIn DEF others
    <3>5. Only(both \o others, set) = both
      BY ONLY <3>2, <3>4, OnlyFirst
    <3>6. runnable = both
      BY <3>2, <3>5
    <3>7. ToSet(leaves) = ToSet(both) \union ToSet(others)
      BY <1>3, <3>1 DEF others
    <3>8. QED
      BY <1>3, <3>6, <3>7 DEF others
  <2>3. QED
    BY <2>1, <2>2
<1>5. /\ DOMAIN both = 1..2
      /\ \A n \in 1..2 : both[n] = InputImage(inputs, Platforms[n]) /\ Platforms[n] \in ToSet(Platforms)
      /\ \A p \in ToSet(Platforms) : InputImage(inputs, p) \in ToSet(both)
      /\ \A x : x \in ToSet(BothAttestations(inputs)) <=>
                  \E p \in ToSet(Platforms) : x \in ToSet(Attestations(inputs[p]))
  BY <1>1, BothFacts
<1>6. ASSUME NEW p \in ToSet(Platforms)
      PROVE  /\ InputImage(inputs, p).platform = p
             /\ InputImage(inputs, p).content.config.platform = p
             /\ InputImage(inputs, p).content.config.version = Newest
             /\ InputImage(inputs, p).content.config.revision = Revision
             /\ InputImage(inputs, p).content.config = Offers[a.name[1]][p].build.config
  <2>1. RunnableImage(inputs[p], InputImage(inputs, p), p, Newest, Revision)
    BY <1>1, InputFacts
  <2>2. InputImage(inputs, p).content.config = Offers[a.name[1]][p].build.config
    BY AssembledInputs
  <2>3. QED
    BY <2>1, <2>2 DEF RunnableImage, Labels
<1>7. ASSUME NEW leaf \in ToSet(leaves), leaf.platform = "unknown",
             NEW statement \in ToSet(leaf.content.layers)
      PROVE  statement.subject \in {both[n].content : n \in DOMAIN both}
  <2>1. PICK p \in ToSet(Platforms) : leaf \in ToSet(Attestations(inputs[p]))
    BY <1>4, <1>5, <1>7
  <2>2. Attestation(inputs[p], leaf) /\ Subject(leaf) = InputImage(inputs, p).content
    BY <1>1, <2>1, InputFacts
  <2>3. statement.subject = InputImage(inputs, p).content
    BY <1>7, <2>2 DEF Attestation
  <2>4. PICK n \in DOMAIN both : InputImage(inputs, p) = both[n]
    BY <1>5 DEF ToSet
  <2>5. QED
    BY <2>3, <2>4
<1> HIDE DEF inputs, leaves, both
<1>8. [n \in DOMAIN both |-> both[n].platform] = Platforms
  <2>1. \A n \in 1..2 : both[n].platform = Platforms[n]
    BY <1>5, <1>6
  <2>2. Platforms = [n \in 1..2 |-> Platforms[n]]
    BY DEF Platforms
  <2>3. QED
    BY <1>5, <2>1, <2>2
<1>9. \A n \in DOMAIN both :
        /\ both[n].content.config = Offers[a.name[1]][Platforms[n]].build.config
        /\ both[n].content.config.platform = Platforms[n]
        /\ both[n].content.config.version = Newest
        /\ both[n].content.config.revision = Revision
  BY <1>5, <1>6
<1>10. QED
  <2> DEFINE Good(r) ==
        /\ [n \in DOMAIN r |-> r[n].platform] = Platforms
        /\ \A n \in DOMAIN r :
             LET config == r[n].content.config
             IN  /\ config = Offers[a.name[1]][Platforms[n]].build.config
                 /\ config.platform = Platforms[n]
                 /\ config.version = Newest
                 /\ config.revision = Revision
        /\ \A leaf \in ToSet(leaves) : leaf.platform = "unknown" =>
             \A statement \in ToSet(leaf.content.layers) :
               statement.subject \in {r[n].content : n \in DOMAIN r}
  <2>1. AsBuilt(leaves, Offers[a.name[1]])
    <3>1. Good(both)
      BY <1>7, <1>8, <1>9
    <3>2. AsBuilt(leaves, Offers[a.name[1]]) <=> Good(runnable)
      BY Zenon DEF AsBuilt
    <3> HIDE DEF Good, runnable
    <3>3. QED
      BY <1>4, <3>1, <3>2
  <2>2. QED
    BY <2>1 DEF leaves

(* The sidecar of a pair that passes is about the images of the archive.   *)
LEMMA PairSpeaks ==
  ASSUME NEW a \in Assemblies, NEW e \in Assemblies, a.name[2], Releasable(a, e)
  PROVE  e.name[2] /\ SpeaksOf(e.sidecar, a.image)
<1>1. VerifiedPair(a.image, e.sidecar, Newest, Revision)
  BY DEF Releasable
<1>2. e.name[2]
  BY <1>1, AssemblyFacts DEF VerifiedPair
<1>3. PICK image, sidecar : image = a.image /\ sidecar = e.sidecar
  OBVIOUS
<1>4. ASSUME NEW p \in ToSet(Platforms), NEW leaf \in ToSet(Leaves(Archive({}, sidecar.inputs[p]))),
             leaf.platform = "unknown", NEW statement \in ToSet(leaf.content.layers)
      PROVE  \E runnable \in ToSet(Images(image)) : runnable.platform = p /\ statement.subject = runnable.content
  <2>1. PICK original : original = Original(image, sidecar, p)
    OBVIOUS
  <2>2. /\ NativeInput(original, p, Newest, Revision)
        /\ Images(original)[1] \in ToSet(Images(image))
    BY <1>1, <1>3, <2>1 DEF VerifiedPair
  <2>3. original.root = sidecar.inputs[p]
    BY <2>1 DEF Original, Archive
  <2>4. Listed(original.root)
    <3>1. sidecar.inputs[p] = InputsOf(e.name)[p].root
      <4>1. sidecar = Sidecar(InputsOf(e.name), Revision)
        BY <1>2, <1>3, AssemblyFacts
      <4>2. QED
        BY <4>1 DEF Sidecar
    <3>2. QED
      BY <2>3, <3>1, AssemblyFacts DEF Inputs
  <2>5. Leaves(Archive({}, sidecar.inputs[p])) = Leaves(original)
    <3>1. Archive({}, sidecar.inputs[p]).root = original.root
      BY <2>3 DEF Archive
    <3>2. QED
      BY <3>1, SameRoot
  <2>6. /\ ToSet(Images(original)) = {x \in ToSet(Leaves(original)) : ~IsAttestation(x)}
        /\ ToSet(Attestations(original)) = {x \in ToSet(Leaves(original)) : IsAttestation(x)}
        /\ IsList(Images(original))
    BY <2>4, LeavesFacts
  <2>7. /\ \A x \in ToSet(Leaves(original)) :
             IF IsAttestation(x) THEN Attestation(original, x)
                                 ELSE RunnableImage(original, x, p, Newest, Revision)
        /\ Len(Images(original)) = 1
        /\ \A x \in ToSet(Attestations(original)) : Subject(x) = Images(original)[1].content
    BY <2>2 DEF NativeInput, CompleteGraph
  <2>8. IsAttestation(leaf)
    <3>1. SUFFICES ASSUME ~IsAttestation(leaf) PROVE FALSE
      OBVIOUS
    <3>2. RunnableImage(original, leaf, p, Newest, Revision)
      BY <2>5, <2>7, <3>1
    <3>3. leaf.platform = p /\ p # "unknown"
      BY <3>2, PlatformFacts DEF RunnableImage
    <3>4. QED
      BY <1>4, <3>3
  <2>9. statement.subject = Images(original)[1].content
    <3>1. Attestation(original, leaf) /\ Subject(leaf) = Images(original)[1].content
      BY <2>5, <2>6, <2>7, <2>8
    <3>2. QED
      BY <3>1 DEF Attestation
  <2>10. Images(original)[1].platform = p
    <3>1. Images(original)[1] \in ToSet(Images(original))
      <4>1. 1 \in 1..Len(Images(original))
        BY <2>7
      <4>2. QED
        BY <2>6, <4>1, ListElements
    <3>2. RunnableImage(original, Images(original)[1], p, Newest, Revision)
      BY <2>6, <2>7, <3>1
    <3>3. QED
      BY <3>2 DEF RunnableImage
  <2>11. QED
    BY <2>2, <2>9, <2>10
<1>5. SpeaksOf(sidecar, image)
  BY <1>4 DEF SpeaksOf
<1>6. QED
  BY <1>2, <1>3, <1>5

LEMMA PairsAreBuilt == Pairs \subseteq PairsAsBuilt
<1> SUFFICES ASSUME NEW pair \in Pairs PROVE pair \in PairsAsBuilt
  OBVIOUS
<1>1. PICK q \in Assemblies \X Assemblies : Releasable(q[1], q[2]) /\ pair = <<q[1].name, q[2].name>>
  BY DEF Pairs
<1>2. q[1] \in Assemblies /\ q[2] \in Assemblies
  BY <1>1
<1>3. AsBuilt(Leaves(q[1].image), Offers[q[1].name[1]])
  BY <1>2, LeavesAsBuilt
<1>4. q[1].name[2] => q[2].name[2] /\ SpeaksOf(q[2].sidecar, q[1].image)
  BY <1>1, <1>2, PairSpeaks
<1>5. q \in {r \in Assemblies \X Assemblies :
               /\ AsBuilt(Leaves(r[1].image), Offers[r[1].name[1]])
               /\ r[1].name[2] => r[2].name[2] /\ SpeaksOf(r[2].sidecar, r[1].image)}
  BY <1>3, <1>4
<1>6. <<q[1].name, q[2].name>> \in PairsAsBuilt
  BY <1>5, Zenon DEF PairsAsBuilt
<1>7. QED
  BY <1>1, <1>6

(* AssembledVerifies: what merge_archives or detach has written and stays  *)
(* within the limit on descriptors passes _OciMetadata and verify_pair of  *)
(* its release, so that no image is found unfit after its builds are spent *)
(* (merge_oci_archives.py:550, release_provenance.py:346,                  *)
(* version_plan.py:1577).                                                  *)
THEOREM AssembliesAreReleasable == Spec => []AssembledVerifies
<1>1. AssembledVerifies
  BY WithinLimitVerifies DEF AssembledVerifies
<1>2. QED
  BY <1>1, PTL

(* ReleasableAsBuilt: every archive that passes the checks of a release    *)
(* holds, for each platform, the image its smoke test ran, of the version  *)
(* and the commit, and all statements about it, in the archive or in the   *)
(* sidecar of whichever assembly it is paired with, are about those images *)
(* (assemble_native_container.py:223, release_provenance.py:222).          *)
THEOREM ReleasesAreAsBuilt == Spec => []ReleasableAsBuilt
<1>1. ReleasableAsBuilt
  BY PairsAreBuilt DEF ReleasableAsBuilt
<1>2. QED
  BY <1>1, PTL
================================================================================

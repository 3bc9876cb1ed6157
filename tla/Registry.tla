------------------------------- MODULE Registry -------------------------------
(***************************************************************************)
(* Container images (services/registry): the OCI distribution server       *)
(* (ocidistribution) and the control planes of aws_ecr,                    *)
(* gcp_artifactregistry and azure_acr over the backends inmem,             *)
(* distribution, aws_ecr, gcp and azure_acr.  The last three serve images  *)
(* by handing the data plane to a distribution client, with a token they   *)
(* fetch first, which changes nothing and is left out.                     *)
(*                                                                         *)
(* A manifest is its digest; the bytes of a blob are the sequence of the   *)
(* chunks they were sent in, and its digest is that sequence.              *)
(***************************************************************************)
EXTENDS Shim, Sequences

CONSTANTS
    Repos,
    Digests,        \* of manifests
    ImageTags,
    Chunks,
    MaxUploads,     \* bound: upload sessions ever opened
    MaxChunks       \* bound: chunks of a session

VARIABLES
    repo,       \* per repository, its manifests, tags and blobs, or None
    upload      \* the sessions opened so far, None for one that was completed

registryVars == <<repo, upload>>

EmptyRepo == [manifests |-> {}, tags |-> [t \in ImageTags |-> None], blobs |-> {}]
References == ImageTags \cup Digests

RegistryInit ==
    /\ repo = [r \in Repos |-> None]
    /\ upload = <<>>

-----------------------------------------------------------------------------
(* What a repository holds *)

\* repoOrCreate: a push to a repository that is not there makes it.  ECR and
\* Artifact Registry refuse it.
MadeOnPush == backend \in {"inmem", "distribution", "azure"}
OrCreated(r) == IF repo[r] = None /\ MadeOnPush THEN EmptyRepo ELSE repo[r]

Tagged(h, ref, d) ==
    [h EXCEPT !.manifests = @ \cup {d}, !.tags = IF ref \in ImageTags THEN [@ EXCEPT ![ref] = d] ELSE @]
\* resolve: what a reference names, or None.
Resolve(h, ref) ==
    IF ref \in ImageTags THEN h.tags[ref] ELSE IF ref \in h.manifests THEN ref ELSE None
\* A manifest goes with every tag that points at it.
\* Mutation: the tags stay.
ManifestOnly(h, d) == [h EXCEPT !.manifests = @ \ {d}]
WithoutManifest(h, d) ==
    [h EXCEPT !.manifests = @ \ {d}, !.tags = [t \in ImageTags |-> IF @[t] = d THEN None ELSE @[t]]]
TagsIn(h) == {t \in ImageTags : h.tags[t] # None}

-----------------------------------------------------------------------------
(* Requests *)

Same == UNCHANGED registryVars
Refused(c) == Fails(c) /\ Same
Done(c) == Ends(c, None)
Deleted(c) == Ends(c, req[c].repo)
Holds(c, h) == repo' = [repo EXCEPT ![req[c].repo] = h] /\ UNCHANGED upload
AsksFor(c, r) == Begin(c, r) /\ Same
GoesOn(c, r) == Goes(c, r) /\ Same

RepoReq(op, r, force) ==
    [op |-> op, at |-> "first", repo |-> r, force |-> force, left |-> {}, digests |-> {}]
ImageReq(at, r, refs) ==
    [op |-> "deleteImages", at |-> at, repo |-> r, left |-> refs, digest |-> None]

EcrCreateRepository(c) == \E r \in Repos : AsksFor(c, RepoReq("createRepo", r, FALSE))
ArCreateRepo(c) == \E r \in Repos : AsksFor(c, RepoReq("createRepo", r, FALSE))
\* ECR describes the repository for the answer first, and ignores a failure of that.
EcrDeleteRepository(c) ==
    \E r \in Repos, force \in BOOLEAN : AsksFor(c, RepoReq("deleteRepo", r, force))
ArDeleteRepo(c) == \E r \in Repos : AsksFor(c, RepoReq("deleteRepo", r, TRUE))
BatchDeleteImage(c) == \E r \in Repos, refs \in SUBSET References :
    refs # {} /\ Cardinality(refs) <= 2 /\ AsksFor(c, ImageReq("first", r, refs))
\* OCI: the deletion of one manifest (on aws by the registry's own protocol, not
\* by BatchDeleteImage), a push, and the steps of an upload.
OciDeleteManifest(c) == \E r \in Repos, ref \in References :
    AsksFor(c, ImageReq(IF backend = "aws" THEN "head" ELSE "first", r, {ref}))
OciPutManifest(c) == \E r \in Repos, ref \in References, d \in Digests :
    AsksFor(c, [op |-> "putManifest", at |-> "first", repo |-> r, ref |-> ref, digest |-> d])
\* A POST that names a digest carries the bytes: the session is completed at once.
OciStartUpload(c) == \E r \in Repos, whole \in BOOLEAN :
    AsksFor(c, [op |-> "startUpload", at |-> "first", repo |-> r, whole |-> whole])
OciPatchUpload(c) == \E r \in Repos, u \in 1..Len(upload), b \in Chunks :
    AsksFor(c, [op |-> "chunk", at |-> "first", repo |-> r, id |-> u, chunk |-> b])
CompleteReq(r, u, rest, d) ==
    [op |-> "complete", at |-> "first", repo |-> r, id |-> u, rest |-> rest, digest |-> d]
Claims == [1..1 -> Chunks] \cup [1..2 -> Chunks]
OciPutUpload(c) == \E r \in Repos, u \in 1..Len(upload), rest \in {<<>>} \cup [1..1 -> Chunks], d \in Claims :
    AsksFor(c, CompleteReq(r, u, rest, d))

RegistryRequests(c) ==
    /\ req[c] = Idle
    /\ \/ EcrCreateRepository(c) \/ ArCreateRepo(c) \/ EcrDeleteRepository(c) \/ ArDeleteRepo(c)
       \/ BatchDeleteImage(c) \/ OciDeleteManifest(c) \/ OciPutManifest(c)
       \/ OciStartUpload(c) \/ OciPatchUpload(c) \/ OciPutUpload(c)

\* The next reference of a batch; one that failed is reported and passed over.
NextImage(c, ref) ==
    IF req[c].left = {ref} THEN Done(c)
    ELSE Goes(c, [req[c] EXCEPT !.left = @ \ {ref}, !.at = "first", !.digest = None])
PassesOver(c, ref) == NextImage(c, ref) /\ Same

-----------------------------------------------------------------------------
(* A push: manifests, and blobs in sessions *)

PutsManifest(c, h) == Holds(c, Tagged(h, req[c].ref, req[c].digest)) /\ Done(c)
\* inmem goes by the bytes, whatever digest the path names.
InmemPutManifest(c) ==
    Is(c, "putManifest", "first", "inmem") /\ PutsManifest(c, OrCreated(req[c].repo))
DistributionPutManifest(c) ==
    /\ backend # "inmem" /\ req[c].op = "putManifest"
    /\ LET h == OrCreated(req[c].repo) IN
       IF h = None \/ (req[c].ref \in Digests /\ req[c].ref # req[c].digest)
       THEN Refused(c) ELSE PutsManifest(c, h)

\* The session is opened; with the bytes at hand it is completed next.
OpensUpload(c) ==
    /\ Len(upload) < MaxUploads
    /\ repo' = [repo EXCEPT ![req[c].repo] = OrCreated(req[c].repo)]
    /\ upload' = Append(upload, [repo |-> req[c].repo, got |-> <<>>])
    /\ IF req[c].whole
       THEN \E b \in Chunks : Goes(c, CompleteReq(req[c].repo, Len(upload) + 1, <<b>>, <<b>>))
       ELSE Done(c)
InmemStartBlobUpload(c) == Is(c, "startUpload", "first", "inmem") /\ OpensUpload(c)
DistributionStartBlobUpload(c) ==
    /\ backend # "inmem" /\ req[c].op = "startUpload"
    /\ IF OrCreated(req[c].repo) = None THEN Refused(c) ELSE OpensUpload(c)

Session(c) == upload[req[c].id]
\* inmem keeps the repository with the session; the handle distribution gave
\* names it, and the repository in the path is not looked at.
ForeignSession(c) == Session(c) # None => Session(c).repo # req[c].repo
AppendsChunk(c) ==
    /\ Len(Session(c).got) < MaxChunks
    /\ upload' = [upload EXCEPT ![req[c].id].got = Append(@, req[c].chunk)]
    /\ UNCHANGED repo
    /\ Done(c)
InmemUploadChunk(c) ==
    /\ Is(c, "chunk", "first", "inmem")
    /\ IF ForeignSession(c) THEN Refused(c) ELSE AppendsChunk(c)
DistributionUploadChunk(c) ==
    /\ backend # "inmem" /\ req[c].op = "chunk"
    /\ IF Session(c) = None THEN Refused(c) ELSE AppendsChunk(c)
\* The bytes are stored if they are what was claimed, and the session is over.
Completes(c, r) ==
    IF OrCreated(r) = None \/ Session(c).got \o req[c].rest # req[c].digest THEN Refused(c)
    ELSE /\ repo' = [repo EXCEPT ![r] = [OrCreated(r) EXCEPT !.blobs = @ \cup {req[c].digest}]]
         /\ upload' = [upload EXCEPT ![req[c].id] = None]
         /\ Done(c)
InmemCompleteBlobUpload(c) ==
    /\ Is(c, "complete", "first", "inmem")
    /\ IF ForeignSession(c) THEN Refused(c) ELSE Completes(c, req[c].repo)
DistributionCompleteBlobUpload(c) ==
    /\ backend # "inmem" /\ req[c].op = "complete"
    /\ IF Session(c) = None THEN Refused(c) ELSE Completes(c, Session(c).repo)

-----------------------------------------------------------------------------
(* inmem *)

InmemCreateRepository(c) ==
    /\ Is(c, "createRepo", "first", "inmem")
    /\ IF repo[req[c].repo] # None THEN Refused(c) ELSE Holds(c, EmptyRepo) /\ Done(c)
\* The repository goes with what is in it; its upload sessions stay open.
Removes(c) == Holds(c, None) /\ Deleted(c)
InmemDeleteRepository(c) ==
    /\ Is(c, "deleteRepo", "first", "inmem")
    /\ LET h == repo[req[c].repo] IN
       IF h = None THEN Refused(c)
       ELSE IF ~req[c].force /\ h.manifests # {} THEN Refused(c) ELSE Removes(c)
InmemDeleteImage(c) ==
    /\ Is(c, "deleteImages", "first", "inmem")
    /\ \E ref \in req[c].left :
         LET h == repo[req[c].repo] IN
         IF h = None THEN PassesOver(c, ref)
         ELSE IF Resolve(h, ref) = None THEN PassesOver(c, ref)
         ELSE Holds(c, WithoutManifest(h, Resolve(h, ref))) /\ NextImage(c, ref)

-----------------------------------------------------------------------------
(* distribution, also behind the cloud registries *)

\* A tag is resolved by a call of its own before its manifest is deleted.
DataPlane == {"distribution", "azure", "gcp"}
HeadManifest(c) ==
    /\ req[c].op = "deleteImages"
    /\ \/ backend \in DataPlane /\ req[c].at = "first"
       \/ backend = "aws" /\ req[c].at = "head"
    /\ \E ref \in req[c].left :
         LET h == repo[req[c].repo] IN
         IF ref \in Digests THEN GoesOn(c, [req[c] EXCEPT !.at = "delete", !.digest = <<ref, ref>>])
         ELSE IF h = None THEN PassesOver(c, ref)
         ELSE IF h.tags[ref] = None THEN PassesOver(c, ref)
         ELSE GoesOn(c, [req[c] EXCEPT !.at = "delete", !.digest = <<ref, h.tags[ref]>>])
DistributionDeleteManifest(c) ==
    /\ backend \in DataPlane \cup {"aws"} /\ req[c].op = "deleteImages" /\ req[c].at = "delete"
    /\ LET h == repo[req[c].repo]  ref == req[c].digest[1]  d == req[c].digest[2] IN
       IF h = None THEN PassesOver(c, ref)
       ELSE IF d \notin h.manifests THEN PassesOver(c, ref)
       ELSE Holds(c, WithoutManifest(h, d)) /\ NextImage(c, ref)

DistributionCreateRepository(c) == Is(c, "createRepo", "first", "distribution") /\ Refused(c)
\* The tags are listed, each is resolved, and the manifests found are deleted
\* one by one; manifests without a tag are not found, the repository stays.
DistributionListTags(c) ==
    /\ backend = "distribution" /\ req[c].op = "deleteRepo" /\ req[c].at = "first"
    /\ IF repo[req[c].repo] = None THEN Refused(c)
       ELSE GoesOn(c, [req[c] EXCEPT !.at = "heads", !.left = TagsIn(repo[req[c].repo])])
DistributionHeads(c) ==
    /\ backend = "distribution" /\ req[c].op = "deleteRepo" /\ req[c].at = "heads"
    /\ IF req[c].left = {}
       THEN IF req[c].digests # {} /\ ~req[c].force THEN Refused(c)
            ELSE GoesOn(c, [req[c] EXCEPT !.at = "deletes"])
       ELSE \E t \in req[c].left :
              IF repo[req[c].repo] = None THEN Refused(c)
              ELSE IF repo[req[c].repo].tags[t] = None THEN Refused(c)
              ELSE GoesOn(c, [req[c] EXCEPT !.left = @ \ {t},
                                            !.digests = @ \cup {repo[req[c].repo].tags[t]}])
\* Mutation: the first deletion is the last.
NoneToDelete(c) == FALSE
MoreToDelete(c) == Cardinality(req[c].digests) > 1
DistributionDeleteRepository(c) ==
    /\ backend = "distribution" /\ req[c].op = "deleteRepo" /\ req[c].at = "deletes"
    /\ LET h == repo[req[c].repo] IN
       IF req[c].digests = {}
       THEN Deleted(c) /\ Same
       ELSE \E d \in req[c].digests :
              IF h = None THEN Refused(c)
              ELSE IF d \notin h.manifests THEN Refused(c)
              ELSE /\ Holds(c, WithoutManifest(h, d))
                   /\ IF MoreToDelete(c) THEN Goes(c, [req[c] EXCEPT !.digests = @ \ {d}])
                      ELSE Deleted(c)

-----------------------------------------------------------------------------
(* The control planes of the clouds *)

EcrBackendCreate(c) ==
    /\ Is(c, "createRepo", "first", "aws")
    /\ IF repo[req[c].repo] # None THEN Refused(c) ELSE Holds(c, EmptyRepo) /\ Done(c)
EcrBackendDelete(c) ==
    /\ Is(c, "deleteRepo", "first", "aws")
    /\ LET h == repo[req[c].repo] IN
       IF h = None THEN Refused(c)
       ELSE IF ~req[c].force /\ h.manifests # {} THEN Refused(c) ELSE Removes(c)
\* ECR takes a tag away and its image with the last of its tags.
Untagged(h, t) ==
    LET u == [h EXCEPT !.tags[t] = None] IN
    IF \E s \in ImageTags : u.tags[s] = h.tags[t] THEN u ELSE WithoutManifest(h, h.tags[t])
EcrBackendDeleteImage(c) ==
    /\ Is(c, "deleteImages", "first", "aws")
    /\ \E ref \in req[c].left :
         LET h == repo[req[c].repo] IN
         IF h = None THEN PassesOver(c, ref)
         ELSE IF Resolve(h, ref) = None THEN PassesOver(c, ref)
         ELSE /\ Holds(c, IF ref \in ImageTags THEN Untagged(h, ref) ELSE WithoutManifest(h, ref))
              /\ NextImage(c, ref)

AcrCreateRepository(c) == Is(c, "createRepo", "first", "azure") /\ Refused(c)
ArBackendCreate(c) ==
    /\ Is(c, "createRepo", "first", "gcp")
    /\ IF repo[req[c].repo] # None THEN Refused(c)
       ELSE Holds(c, EmptyRepo) /\ Goes(c, [req[c] EXCEPT !.at = "wait"])
\* An operation of Artifact Registry is waited for, and a new repository described.
ArWait(c) == Is(c, "createRepo", "wait", "gcp") /\ Done(c) /\ Same
\* Unless forced, ACR and Artifact Registry look for images before they delete.
LooksFirst(c) ==
    /\ req[c].op = "deleteRepo" /\ req[c].at = "first"
    /\ LET h == repo[req[c].repo] IN
       IF req[c].force THEN GoesOn(c, [req[c] EXCEPT !.at = "delete"])
       ELSE IF h = None THEN Refused(c)
       ELSE IF h.manifests # {} THEN Refused(c) ELSE GoesOn(c, [req[c] EXCEPT !.at = "delete"])
DeletesAfter(c) ==
    IF repo[req[c].repo] = None THEN Refused(c) ELSE Removes(c)
AcrListImages(c) == backend = "azure" /\ LooksFirst(c)
AcrDeleteRepository(c) == Is(c, "deleteRepo", "delete", "azure") /\ DeletesAfter(c)
ArListImages(c) == backend = "gcp" /\ LooksFirst(c)
ArBackendDelete(c) == Is(c, "deleteRepo", "delete", "gcp") /\ DeletesAfter(c)

-----------------------------------------------------------------------------
RegistrySteps(c) ==
    \/ InmemPutManifest(c) \/ InmemStartBlobUpload(c)
    \/ InmemUploadChunk(c) \/ InmemCompleteBlobUpload(c)
    \/ DistributionPutManifest(c) \/ DistributionStartBlobUpload(c)
    \/ DistributionUploadChunk(c) \/ DistributionCompleteBlobUpload(c)
    \/ InmemCreateRepository(c) \/ InmemDeleteRepository(c) \/ InmemDeleteImage(c)
    \/ HeadManifest(c) \/ DistributionDeleteManifest(c) \/ DistributionCreateRepository(c)
    \/ DistributionListTags(c) \/ DistributionHeads(c) \/ DistributionDeleteRepository(c)
    \/ EcrBackendCreate(c) \/ EcrBackendDelete(c) \/ EcrBackendDeleteImage(c)
    \/ AcrCreateRepository(c) \/ AcrListImages(c) \/ AcrDeleteRepository(c)
    \/ ArBackendCreate(c) \/ ArWait(c) \/ ArListImages(c) \/ ArBackendDelete(c)
RegistryNext ==
    /\ service = "registry"
    /\ \E c \in Clients : RegistryRequests(c) \/ RegistrySteps(c) \/ (Dies(c) /\ Same)

RegistrySpec == ShimInit /\ RegistryInit /\ [][RegistryNext]_<<shimVars, registryVars>>

-----------------------------------------------------------------------------
(* Properties *)

\* Every tag points at a manifest that is there, whatever tags share it and
\* whatever is pushed or deleted in between: lookupManifest takes a tag's
\* digest for one it holds and would answer with an empty manifest.
TagsResolve == \A r \in Repos :
    repo[r] # None => \A t \in TagsIn(repo[r]) : repo[r].tags[t] \in repo[r].manifests

\* A deletion of a repository that was answered with success, and that no
\* other request overlapped, leaves no tag of it to pull, on every backend:
\* also where distribution deletes manifest after manifest, some of them
\* under several tags.
DeletedIsGone ==
    (service = "registry" /\ answer # None)
      => (repo[answer] # None => TagsIn(repo[answer]) = {})
=============================================================================

---------------------------- MODULE StorageProofs ----------------------------
(***************************************************************************)
(* Theorems about object storage: the listings page by page, and what an   *)
(* abort of a multipart upload leaves.                                     *)
(***************************************************************************)
EXTENDS Storage, Listing, FiniteSetTheorems, WellFoundedInduction, TLAPS

-----------------------------------------------------------------------------
(***************************************************************************)
(* A listing whose token is the last name of the page misses no item that  *)
(* was there all along and gives none twice, for any number of names, any  *)
(* page size, and any items added and removed between two pages.           *)
(***************************************************************************)

-----------------------------------------------------------------------------
(* Facts about finite sets of names *)

\* Sets of names are finite, and so are their parts.
LEMMA NamesFinite ==
    ASSUME NEW R \in SUBSET Names
    PROVE  IsFiniteSet(R) /\ Cardinality(R) \in Nat
<1>1. IsFiniteSet(Names)
  BY FS_Interval, MaxNameAssumption DEF Names
<1>2. IsFiniteSet(R)
  BY <1>1, FS_Subset
<1> QED
  BY <1>2, FS_CardinalityType

\* A set of naturals that is not empty has a least element.
LEMMA LeastExists ==
    ASSUME NEW R \in SUBSET Nat, R # {}
    PROVE  \E m \in R : \A n \in R : m <= n
<1>1. PICK m \in R : \A n \in R : ~(<<n, m>> \in OpToRel(<, Nat))
  BY WFMin, NatLessThanWellFounded, Zenon
<1>2. \A n \in R : ~(n < m)
  BY <1>1, Zenon DEF OpToRel
<1> QED
  BY <1>2

\* A set of names that is not empty has a greatest element, and Max is it.
LEMMA MaxOfNames ==
    ASSUME NEW R \in SUBSET Names, R # {}
    PROVE  Max(R) \in R /\ \A n \in R : n <= Max(R)
<1> DEFINE D == {MaxName - n : n \in R}
<1>1. D \in SUBSET Nat
  BY MaxNameAssumption DEF Names
<1>1a. D # {}
  OBVIOUS
<1>2. PICK d \in D : \A e \in D : d <= e
  BY <1>1, <1>1a, LeastExists
<1>3. PICK m \in R : d = MaxName - m
  BY <1>2
<1>4. \A n \in R : m >= n
  BY <1>2, <1>3, MaxNameAssumption DEF Names
<1> QED
  BY <1>3, <1>4, MaxNameAssumption DEF Max, Names

\* The first names of a set are the beginning of it, and all of it unless
\* there are MaxResults of them.
LEMMA FirstOfIsBeginning ==
    ASSUME NEW R \in SUBSET Names
    PROVE  /\ FirstOf(R) \subseteq R
           /\ \A n \in FirstOf(R), o \in R : o <= n => o \in FirstOf(R)
           /\ Cardinality(FirstOf(R)) < MaxResults => FirstOf(R) = R
           /\ Cardinality(R) <= MaxResults => FirstOf(R) = R
           /\ R # {} => FirstOf(R) # {}
<1> DEFINE Before(n) == {o \in R : o < n}
<1>n. \A n \in R : n \in Nat
  BY MaxNameAssumption DEF Names
<1>0. \A n \in R : Index(n, R) = Cardinality(Before(n)) /\ Before(n) \in SUBSET R
  BY DEF Index
<1>1. FirstOf(R) \subseteq R
  BY DEF FirstOf
<1>2. ASSUME NEW n \in FirstOf(R), NEW o \in R, o <= n PROVE o \in FirstOf(R)
  <2>n. n \in R
    BY <1>1
  <2>1. \A x \in R : x < o => x < n
    BY <1>n, <2>n, <1>2
  <2>2. Cardinality(Before(o)) <= Cardinality(Before(n))
    BY <2>1, NamesFinite, FS_Subset
  <2>3. Cardinality(Before(o)) \in Nat /\ Cardinality(Before(n)) \in Nat
    BY NamesFinite
  <2>4. Cardinality(Before(n)) < MaxResults
    BY <1>0, <1>1 DEF FirstOf
  <2>5. Cardinality(Before(o)) < MaxResults
    BY <2>2, <2>3, <2>4, MaxResultsAssumption
  <2> QED
    BY <2>5, <1>0 DEF FirstOf
<1>3. ASSUME Cardinality(FirstOf(R)) < MaxResults, FirstOf(R) # R PROVE FALSE
  <2>1. PICK m \in R \ FirstOf(R) : \A n \in R \ FirstOf(R) : m <= n
    <3>1. R \ FirstOf(R) \in SUBSET Nat
      BY <1>n
    <3>2. R \ FirstOf(R) # {}
      BY <1>1, <1>3
    <3> QED
      BY <3>1, <3>2, LeastExists
  <2>2. Before(m) \in SUBSET FirstOf(R)
    <3>1. ASSUME NEW x \in R, x < m PROVE x \in FirstOf(R)
      BY <3>1, <2>1, <1>n
    <3> QED
      BY <3>1
  <2>3. Cardinality(Before(m)) <= Cardinality(FirstOf(R))
    BY <2>2, <1>1, NamesFinite, FS_Subset
  <2>4. Cardinality(Before(m)) \in Nat /\ Cardinality(FirstOf(R)) \in Nat
    BY <1>1, NamesFinite
  <2>5. Cardinality(Before(m)) < MaxResults
    BY <2>3, <2>4, <1>3, MaxResultsAssumption
  <2> QED
    BY <2>1, <2>5, <1>0 DEF FirstOf
<1>4. ASSUME Cardinality(R) <= MaxResults, NEW n \in R PROVE n \in FirstOf(R)
  <2>1. Before(n) # R
    BY MaxNameAssumption DEF Names
  <2>2. Cardinality(Before(n)) <= Cardinality(R) /\ Cardinality(Before(n)) # Cardinality(R)
    BY <2>1, <1>0, NamesFinite, FS_Subset
  <2>3. Cardinality(Before(n)) \in Nat /\ Cardinality(R) \in Nat
    BY NamesFinite
  <2>4. Cardinality(Before(n)) < MaxResults
    BY <2>2, <2>3, <1>4, MaxResultsAssumption
  <2> QED
    BY <2>4, <1>0 DEF FirstOf
<1>5. ASSUME R # {} PROVE FirstOf(R) # {}
  <2>1. CASE FirstOf(R) = {}
    <3>1. Cardinality(FirstOf(R)) < MaxResults
      BY <2>1, FS_EmptySet, MaxResultsAssumption
    <3> QED
      BY <3>1, <1>3, <1>5, <2>1
  <2> QED
    BY <2>1
<1> QED
  BY <1>1, <1>2, <1>3, <1>4, <1>5

-----------------------------------------------------------------------------
(* Pages *)

\* What a page of a key-token listing that goes on after t is: the names
\* after t up to the new token, or all of them if there is no new token.
GoodPage(p, t) ==
    /\ p.refused = FALSE
    /\ p.names \subseteq After(t)
    /\ p.token \in 0..MaxName
    /\ p.token = NoToken => p.names = After(t)
    /\ p.token # NoToken => p.token > t /\ \A n \in After(t) : n <= p.token <=> n \in p.names

\* Every key-token listing answers with such a page.
LEMMA PagesAreGood ==
    ASSUME items \subseteq Names, NEW t \in 0..MaxName, lister \in KeyTokens
    PROVE  GoodPage(Page(t), t)
<1> DEFINE R == After(t)
           F == FirstOf(R)
<1>1. R \in SUBSET Names
  BY DEF After
<1>2. /\ F \subseteq R
      /\ \A n \in F, o \in R : o <= n => o \in F
      /\ Cardinality(F) < MaxResults => F = R
      /\ Cardinality(R) <= MaxResults => F = R
      /\ R # {} => F # {}
  BY <1>1, FirstOfIsBeginning
<1>3. Cardinality(R) \in Nat /\ Cardinality(F) \in Nat
  BY <1>1, <1>2, NamesFinite
<1>4. Cardinality({}) = 0
  BY FS_EmptySet
<1>5. GoodPage(Answer(R, NoToken), t)
  BY MaxNameAssumption DEF GoodPage, Answer, NoToken
<1>6. ASSUME F # {} PROVE GoodPage(Answer(F, Max(F)), t)
  <2>1. Max(F) \in F /\ \A n \in F : n <= Max(F)
    BY <1>1, <1>2, <1>6, MaxOfNames
  <2>2. Max(F) \in Names
    BY <1>1, <1>2, <2>1
  <2>3. Max(F) \in 0..MaxName /\ Max(F) # NoToken
    BY <2>2, MaxNameAssumption DEF Names, NoToken
  <2>4. \A n \in R : n <= Max(F) <=> n \in F
    BY <2>1, <1>2
  <2>5. Max(F) > t
    BY <2>1, <1>2 DEF After
  <2> QED
    BY <2>3, <2>4, <2>5, <1>2 DEF GoodPage, Answer
<1>7. CASE lister = "inmem buckets"
  <2>1. Page(t) = InmemBucketsPage(t)
    BY <1>7 DEF Page
  <2>2. CASE Cardinality(R) > MaxResults
    <3>1. F # {}
      BY <2>2, <1>2, <1>4, MaxResultsAssumption
    <3> QED
      BY <2>1, <2>2, <3>1, <1>6 DEF InmemBucketsPage
  <2>3. CASE ~(Cardinality(R) > MaxResults)
    BY <2>1, <2>3, <1>5 DEF InmemBucketsPage
  <2> QED
    BY <2>2, <2>3
<1>8. InmemObjectsPage(t) = IF Cardinality(F) >= MaxResults /\ Cardinality(R) > MaxResults
                            THEN Answer(F, Max(F)) ELSE Answer(F, NoToken)
  BY DEF InmemObjectsPage
<1>9. GoodPage(InmemObjectsPage(t), t)
  <2>1. CASE Cardinality(F) >= MaxResults /\ Cardinality(R) > MaxResults
    <3>1. F # {}
      BY <2>1, <1>4, MaxResultsAssumption
    <3> QED
      BY <2>1, <3>1, <1>6, <1>8
  <2>2. CASE ~(Cardinality(F) >= MaxResults /\ Cardinality(R) > MaxResults)
    <3>1. F = R
      BY <2>2, <1>2, <1>3, MaxResultsAssumption
    <3> QED
      BY <2>2, <3>1, <1>5, <1>8
  <2> QED
    BY <2>1, <2>2
<1>10. CASE lister \in {"inmem objects", "aws objects"}
  BY <1>10, <1>9 DEF Page, AwsObjectsPage
<1>11. CASE lister = "azure objects"
  <2>1. Page(t) = IF Cardinality(F) >= MaxResults THEN Answer(F, Max(F)) ELSE Answer(F, NoToken)
    BY <1>11 DEF Page, AzureObjectsPage
  <2>2. CASE Cardinality(F) >= MaxResults
    <3>1. F # {}
      BY <2>2, <1>4, MaxResultsAssumption
    <3> QED
      BY <2>1, <2>2, <3>1, <1>6
  <2>3. CASE ~(Cardinality(F) >= MaxResults)
    <3>1. F = R
      BY <2>3, <1>2, <1>3, MaxResultsAssumption
    <3> QED
      BY <2>1, <2>3, <3>1, <1>5
  <2> QED
    BY <2>2, <2>3
<1> QED
  BY <1>7, <1>10, <1>11 DEF KeyTokens

-----------------------------------------------------------------------------
(* The inductive invariant *)

\* The caller's record, for a key-token listing.
WalkType ==
    walk \in [state : {"idle", "walking", "done", "refused"}, token : 0..MaxName,
              seen : SUBSET Names, again : SUBSET Names, steady : SUBSET Names]

\* Between two pages the caller has been given exactly names up to its
\* token, and among them all that were there all along.  Completeness at
\* the end does not follow from itself: this is what the next page adds to.
WalkInv ==
    /\ walk.again = {}
    /\ walk.state = "walking" => \A n \in walk.seen : n <= walk.token
    /\ walk.state = "walking" => \A n \in walk.steady : n <= walk.token => n \in walk.seen
    /\ walk.state = "done" => walk.steady \subseteq walk.seen
    /\ walk.state = "walking" => walk.steady \subseteq items

ListingInv == items \subseteq Names /\ (lister \in KeyTokens => WalkType /\ WalkInv)

\* The invariant holds initially.
LEMMA ListingInvInit == ListingInit => ListingInv
  BY MaxNameAssumption DEF ListingInit, ListingInv, WalkType, WalkInv, Fresh, NoToken

\* The invariant is kept by every step of the caller and of the others.
LEMMA ListingInvStep == ListingInv /\ [ListingNext]_listingVars => ListingInv'
<1> SUFFICES ASSUME ListingInv, [ListingNext]_listingVars PROVE ListingInv'
  OBVIOUS
<1>1. ASSUME NEW n \in Names, Add(n) PROVE ListingInv'
  BY <1>1 DEF Add, ListingInv, WalkType, WalkInv
<1>2. ASSUME NEW n \in Names, ItemGone(n) PROVE ListingInv'
  <2>1. items' \subseteq Names /\ lister' = lister
    BY <1>2 DEF ItemGone, ListingInv
  <2>2. CASE lister \in KeyTokens
    <3>1. /\ walk'.again = walk.again /\ walk'.seen = walk.seen /\ walk'.state = walk.state
          /\ walk'.token = walk.token /\ walk'.steady = walk.steady \ {n} /\ WalkType'
      BY <1>2, <2>2 DEF ItemGone, ListingInv, WalkType
    <3> QED
      BY <1>2, <2>1, <2>2, <3>1 DEF ItemGone, ListingInv, WalkInv
  <2> QED
    BY <2>1, <2>2 DEF ListingInv
<1>3. CASE Start
  <2>1. /\ items' = items /\ lister' = lister /\ items \subseteq Names
        /\ walk' = [state |-> "walking", token |-> 0, seen |-> {}, again |-> {}, steady |-> items]
    BY <1>3 DEF Start, ListingInv, Fresh, NoToken
  <2>2. WalkType'
    BY <2>1, MaxNameAssumption DEF WalkType
  <2>3. \A n \in Names : ~(n <= 0)
    BY MaxNameAssumption DEF Names
  <2>4. WalkInv'
    BY <2>1, <2>3 DEF WalkInv
  <2> QED
    BY <2>1, <2>2, <2>4 DEF ListingInv
<1>4. CASE NextPage
  <2>1. items' = items /\ lister' = lister /\ items \subseteq Names
    BY <1>4 DEF NextPage, ListingInv
  <2>2. CASE lister \in KeyTokens
    <3> DEFINE p == Page(walk.token)
    <3>1. WalkType /\ WalkInv /\ walk.state = "walking" /\ walk.token \in 0..MaxName
      BY <2>2, <1>4 DEF ListingInv, NextPage, WalkType
    <3>2. GoodPage(p, walk.token)
      BY <2>1, <2>2, <3>1, PagesAreGood
    <3>3. walk' = [walk EXCEPT
              !.state = IF p.refused THEN "refused" ELSE IF p.token = NoToken THEN "done" ELSE @,
              !.token = p.token, !.seen = @ \cup p.names,
              !.again = @ \cup (walk.seen \cap p.names)]
      BY <1>4 DEF NextPage
    <3> HIDE DEF p
    <3>4. /\ walk'.token = p.token /\ walk'.seen = walk.seen \cup p.names
          /\ walk'.again = walk.again \cup (walk.seen \cap p.names)
          /\ walk'.steady = walk.steady
          /\ walk'.state = IF p.token = NoToken THEN "done" ELSE "walking"
      BY <3>1, <3>2, <3>3 DEF WalkType, GoodPage
    <3>5. p.names \subseteq Names /\ p.names \subseteq After(walk.token)
      BY <2>1, <3>2 DEF GoodPage, After
    <3>6. WalkType'
      BY <3>1, <3>2, <3>3, <3>5 DEF WalkType, GoodPage
    <3>7. walk.seen \cap p.names = {}
      BY <3>1, <3>5, MaxNameAssumption DEF WalkInv, WalkType, After, Names
    <3>8. \A n \in walk.steady : n <= walk.token \/ n \in After(walk.token)
      BY <2>1, <3>1, MaxNameAssumption DEF WalkInv, WalkType, After, Names
    <3>9. CASE p.token = NoToken
      BY <3>1, <3>2, <3>4, <3>6, <3>7, <3>8, <3>9, <2>1 DEF ListingInv, WalkInv, GoodPage
    <3>10. CASE p.token # NoToken
      <4>1. \A n \in After(walk.token) : n <= p.token <=> n \in p.names
        BY <3>2, <3>10 DEF GoodPage
      <4>2. \A n \in walk.seen : n <= p.token
        <5>1. p.token \in Nat /\ p.token > walk.token /\ walk.token \in Nat
          BY <3>1, <3>2, <3>10, MaxNameAssumption DEF GoodPage
        <5>2. \A n \in walk.seen : n \in Nat /\ n <= walk.token
          BY <3>1, MaxNameAssumption DEF WalkInv, WalkType, Names
        <5> QED
          BY <5>1, <5>2
      <4> QED
        BY <3>1, <3>2, <3>4, <3>5, <3>6, <3>7, <3>8, <3>10, <4>1, <4>2, <2>1
           DEF ListingInv, WalkInv
    <3> QED
      BY <3>9, <3>10
  <2> QED
    BY <2>1, <2>2 DEF ListingInv
<1>5. CASE UNCHANGED listingVars
  BY <1>5 DEF listingVars, ListingInv, WalkType, WalkInv
<1> QED
  BY <1>1, <1>2, <1>3, <1>4, <1>5 DEF ListingNext

\* KeyTokenListingComplete: a listing of inmem, azureblob or aws that is
\* followed to its end has every item that was there all along and none
\* twice, for every number of names and every page size.
THEOREM KeyTokenListingsComplete == ListingSpec => []KeyTokenListingComplete
<1>1. ListingInv => KeyTokenListingComplete
  BY DEF ListingInv, WalkInv, KeyTokenListingComplete, ListingComplete
<1> QED
  BY <1>1, ListingInvInit, ListingInvStep, PTL DEF ListingSpec


-----------------------------------------------------------------------------
(***************************************************************************)
(* QuietAbortCleans for every set of clients, keys and uploads and any     *)
(* number of parts.                                                        *)
(*                                                                         *)
(* A client that is alone stays so until another one begins (Sole), and    *)
(* what there is of the upload that it aborts is among what it has still   *)
(* to delete (Aborting), unless a delete has failed.                       *)
(***************************************************************************)

AbortNames ==
    {PartNamed(n) : n \in Parts} \cup {TmpNamed(i) : i \in 0..MaxPart} \cup {<<"marker", 0>>}
AbortReqs == [op : {"gcsAbort"}, upload : Uploads, todo : SUBSET AbortNames, failed : BOOLEAN]
CompleteRec(r) ==
    [op |-> r.op, upload |-> r.upload, list |-> r.list, type |-> r.type, batch |-> r.batch, next |-> r.next]
CommitRec(r) == [op |-> r.op, upload |-> r.upload, list |-> r.list, type |-> r.type]
Completes(r) ==
    /\ r = CompleteRec(r)
    /\ r.op \in {"gcsCompose", "gcsCopy", "gcsCleanup"}
    /\ r.upload \in Uploads
    /\ r.list \in Seq(Parts)
    /\ r.op = "gcsCleanup" => r.batch \in Seq(AbortNames)
Commits(r) == r = CommitRec(r) /\ r.op \in {"azCommit", "azDeleteMarker"} /\ r.upload \in Uploads
StorageReq(r) == r = Idle \/ r.op = "azCopy" \/ Completes(r) \/ Commits(r) \/ r \in AbortReqs

StoreShape ==
    /\ upload = [u \in Uploads |-> upload[u]]
    /\ part \in [Uploads -> SUBSET Parts]
    /\ scratch = [u \in Uploads |-> scratch[u]]
    /\ \A u \in Uploads : scratch[u] = [i \in 0..MaxPart |-> scratch[u][i]]
ReqShape == req = [c \in Clients |-> req[c]] /\ \A c \in Clients : StorageReq(req[c])
Sole == alone \in Clients => \A d \in Clients \ {alone} : req[d] = Idle
Aborting ==
    \A c \in Clients :
       alone = c /\ req[c].op = "gcsAbort" /\ ~req[c].failed => NamesOf(req[c].upload) \subseteq req[c].todo
AbortInv == StoreShape /\ ReqShape /\ Sole /\ Aborting

\* Requests of another kind than an abort.
LEMMA OpsApart ==
    ASSUME NEW r, StorageReq(r)
    PROVE  /\ Idle.op = "idle"
           /\ r.op = "gcsAbort" => r \in AbortReqs
           /\ r.op \in {"gcsCompose", "gcsCopy", "gcsCleanup"} => Completes(r)
           /\ r.op \in {"azCommit", "azDeleteMarker"} => Commits(r)
BY DEF StorageReq, Idle, Completes, Commits, AbortReqs

\* A request begins, or is done with its first and only call.
LEMMA OneBegins ==
    ASSUME AbortInv, NEW c \in Clients, Begins(c), NEW r, Goes(c, r), StorageReq(r), r.op # "gcsAbort",
           StoreShape'
    PROVE  AbortInv'
<1>1. req'[c] = r /\ \A d \in Clients : d # c => req'[d] = req[d]
  BY DEF AbortInv, ReqShape, Goes
<1>2. ReqShape'
  BY <1>1 DEF AbortInv, ReqShape, Goes
<1>3. alone' \in {c, NoUpload} /\ (alone' = c => \A d \in Clients \ {c} : req[d] = Idle)
  BY NoUploadIsNoClient DEF Begins
<1>4. Sole'
  BY <1>1, <1>3, NoUploadIsNoClient DEF Sole
<1>5. Aborting'
  BY <1>1, <1>3, NoUploadIsNoClient DEF Aborting
<1> QED
  BY <1>2, <1>4, <1>5 DEF AbortInv

LEMMA OneEndsAtOnce ==
    ASSUME AbortInv, NEW c \in Clients, Begins(c), Ends(c), StoreShape'
    PROVE  AbortInv'
<1>1. StorageReq(Idle) /\ Idle.op # "gcsAbort"
  BY DEF StorageReq, Idle
<1>2. Goes(c, Idle)
  BY DEF Ends, Goes
<1>3. PICK r : r = Idle
  OBVIOUS
<1> QED
  BY <1>1, <1>2, <1>3, OneBegins

\* A request goes on, and is no abort.
LEMMA OneGoesOn ==
    ASSUME AbortInv, NEW c \in Clients, req[c] # Idle, alone' = alone,
           NEW r, Goes(c, r), StorageReq(r), r.op # "gcsAbort", StoreShape'
    PROVE  AbortInv'
<1>1. req'[c] = r /\ \A d \in Clients : d # c => req'[d] = req[d]
  BY DEF AbortInv, ReqShape, Goes
<1>2. ReqShape'
  BY <1>1 DEF AbortInv, ReqShape, Goes
<1>3. alone \in Clients => alone = c
  BY DEF AbortInv, Sole
<1>4. Sole'
  BY <1>1, <1>3 DEF AbortInv, Sole
<1>5. Aborting'
  BY <1>1, <1>3 DEF Aborting
<1> QED
  BY <1>2, <1>4, <1>5 DEF AbortInv

LEMMA OneEnds ==
    ASSUME AbortInv, NEW c \in Clients, req[c] # Idle, alone' = alone, Ends(c), StoreShape'
    PROVE  AbortInv'
<1>1. StorageReq(Idle) /\ Idle.op # "gcsAbort"
  BY DEF StorageReq, Idle
<1>2. Goes(c, Idle)
  BY DEF Ends, Goes
<1>3. PICK r : r = Idle
  OBVIOUS
<1> QED
  BY <1>1, <1>2, <1>3, OneGoesOn

LEMMA StoreKept ==
    ASSUME StoreShape, UNCHANGED <<upload, part, scratch>>
    PROVE  StoreShape'
BY DEF StoreShape

\* A step that leaves the requests and what an abort deletes alone.
LEMMA RequestsKept ==
    ASSUME AbortInv, UNCHANGED <<upload, part, scratch, req, alone>>
    PROVE  ReqShape' /\ Sole' /\ Aborting'
<1>1. ReqShape' /\ Sole'
  BY DEF AbortInv, ReqShape, Sole
<1>2. \A u : NamesOf(u)' = NamesOf(u)
  BY DEF NamesOf
<1>3. Aborting'
  BY <1>2 DEF AbortInv, Aborting
<1> QED BY <1>1, <1>3

-----------------------------------------------------------------------------
(* Requests of one call *)

LEMMA PartsKept ==
    ASSUME StoreShape, NEW k
    PROVE  Staged(k) \in [Uploads -> SUBSET Parts]
BY DEF StoreShape, Staged

LEMMA WholeObjectSteps ==
    ASSUME AbortInv, NEW c \in Clients,
           \/ CreateBucket(c) \/ DeleteBucket(c)
           \/ \E k, l \in Keys : \E t : \/ PutObject(c, k, t) \/ DeleteObject(c, k)
                                        \/ CopyObject(c, k, l, t) \/ AzureStartCopy(c, k, l)
    PROVE  AbortInv'
<1>1. CASE CreateBucket(c)
  BY <1>1, OneEndsAtOnce, StoreKept DEF CreateBucket, AbortInv
<1>2. CASE DeleteBucket(c)
  <2>1. Begins(c) /\ Ends(c)
    BY <1>2 DEF DeleteBucket
  <2>2. StoreShape'
    <3>1. CASE backend = "inmem"
      BY <1>2, <3>1, StoreKept DEF DeleteBucket, AbortInv
    <3>2. CASE backend # "inmem"
      <4>1. /\ upload' = [u \in Uploads |-> None] /\ part' = [u \in Uploads |-> {}]
            /\ scratch' = [u \in Uploads |-> NoScratch]
        BY <1>2, <3>2 DEF DeleteBucket
      <4>2. NoScratch = [i \in 0..MaxPart |-> NoScratch[i]]
        BY DEF NoScratch
      <4>3. \A u \in Uploads : scratch'[u] = NoScratch
        BY <4>1
      <4> QED BY <4>1, <4>2, <4>3 DEF StoreShape
    <3> QED BY <3>1, <3>2
  <2> QED BY <2>1, <2>2, OneEndsAtOnce
<1>3. ASSUME NEW k \in Keys, NEW l \in Keys, NEW t,
             PutObject(c, k, t) \/ DeleteObject(c, k) \/ CopyObject(c, k, l, t) \/ AzureStartCopy(c, k, l)
      PROVE  AbortInv'
  <2>1. CASE PutObject(c, k, t)
    <3>1. StoreShape'
      BY <2>1, PartsKept DEF PutObject, AbortInv, StoreShape
    <3> QED BY <2>1, <3>1, OneEndsAtOnce DEF PutObject
  <2>2. CASE DeleteObject(c, k)
    BY <2>2, OneEndsAtOnce, StoreKept DEF DeleteObject, AbortInv
  <2>3. CASE CopyObject(c, k, l, t)
    BY <2>3, OneEndsAtOnce, StoreKept DEF CopyObject, AbortInv
  <2>4. CASE AzureStartCopy(c, k, l)
    <3>1. StoreShape'
      BY <2>4, PartsKept DEF AzureStartCopy, AbortInv, StoreShape
    <3>2. Begins(c) /\ (Ends(c) \/ Goes(c, [op |-> "azCopy", key |-> l]))
      BY <2>4 DEF AzureStartCopy
    <3>3. PICK r : r = [op |-> "azCopy", key |-> l]
      OBVIOUS
    <3>4. StorageReq(r) /\ r.op # "gcsAbort"
      BY <3>3 DEF StorageReq
    <3> QED BY <3>1, <3>2, <3>3, <3>4, OneBegins, OneEndsAtOnce
  <2> QED BY <1>3, <2>1, <2>2, <2>3, <2>4
<1> QED
  BY <1>1, <1>2, <1>3

LEMMA UploadSteps ==
    ASSUME AbortInv, NEW c \in Clients, NEW u \in Uploads,
           \/ \E k \in Keys : \E t : CreateMultipartUpload(c, u, k, t)
           \/ \E n \in Numbers(u) : UploadPart(c, u, n)
           \/ AbortMultipartUpload(c, u) \/ AzureAbort(c, u) \/ InmemComplete(c, u)
           \/ \E list : S3Complete(c, u, list)
    PROVE  AbortInv'
<1>1. ASSUME NEW k \in Keys, NEW t, CreateMultipartUpload(c, u, k, t) PROVE AbortInv'
  <2>1. StoreShape'
    BY <1>1 DEF CreateMultipartUpload, AbortInv, StoreShape
  <2> QED BY <1>1, <2>1, OneEndsAtOnce DEF CreateMultipartUpload
<1>2. ASSUME NEW n \in Numbers(u), UploadPart(c, u, n) PROVE AbortInv'
  <2>0. n \in Parts
    BY <1>2, PartsAreNumbered DEF Numbers, Range
  <2>1. StoreShape'
    BY <1>2, <2>0 DEF UploadPart, AbortInv, StoreShape
  <2> QED BY <1>2, <2>1, OneEndsAtOnce DEF UploadPart
<1>3. ASSUME AbortMultipartUpload(c, u) \/ AzureAbort(c, u) \/ InmemComplete(c, u) \/ (\E list : S3Complete(c, u, list))
      PROVE  AbortInv'
  <2>1. /\ Begins(c) /\ Ends(c) /\ UNCHANGED scratch
        /\ upload' = [upload EXCEPT ![u] = None]
        /\ part' = part \/ part' = [part EXCEPT ![u] = {}]
    BY <1>3 DEF AbortMultipartUpload, AzureAbort, InmemComplete, S3Complete
  <2>2. StoreShape'
    BY <2>1 DEF AbortInv, StoreShape
  <2> QED BY <2>1, <2>2, OneEndsAtOnce
<1> QED
  BY <1>1, <1>2, <1>3

-----------------------------------------------------------------------------
(* Requests of several calls *)

LEMMA CompleteBegins ==
    ASSUME AbortInv, NEW c \in Clients, NEW u \in Uploads, NEW list \in PartLists(u),
           GcsReadMarker(c, u, list) \/ AzureReadMarker(c, u, list)
    PROVE  AbortInv'
<1>1. Begins(c) /\ StoreShape'
  BY StoreKept DEF AbortInv, GcsReadMarker, AzureReadMarker, store
<1>2. CASE GcsReadMarker(c, u, list)
  <2>1. PICK r : /\ Goes(c, r)
                 /\ r = [op |-> IF Len(list) = 1 THEN "gcsCopy" ELSE "gcsCompose",
                         upload |-> u, list |-> list, type |-> upload[u].type,
                         batch |-> [i \in DOMAIN list |-> PartNamed(list[i])], next |-> <<>>]
    BY <1>2 DEF GcsReadMarker
  <2>2. list \in Seq(Parts)
    BY PartsAreNumbered
  <2>3. Completes(r) /\ r.op # "gcsAbort"
    BY <2>1, <2>2 DEF Completes, CompleteRec
  <2> QED BY <1>1, <2>1, <2>3, OneBegins DEF StorageReq
<1>3. CASE AzureReadMarker(c, u, list)
  <2>1. PICK r : /\ Goes(c, r)
                 /\ r = [op |-> "azCommit", upload |-> u, list |-> list,
                         type |-> IF bucket /\ upload[u] # None THEN upload[u].type ELSE None]
    BY <1>3 DEF AzureReadMarker
  <2>2. Commits(r) /\ r.op # "gcsAbort"
    BY <2>1 DEF Commits, CommitRec
  <2> QED BY <1>1, <2>1, <2>2, OneBegins DEF StorageReq
<1> QED BY <1>2, <1>3

\* A complete that goes on to its next call stays one.
LEMMA CompleteChanges ==
    ASSUME NEW r, Completes(r), r.op # "gcsCleanup", NEW b, NEW n
    PROVE  /\ Completes([r EXCEPT !.batch = b, !.next = n])
           /\ [r EXCEPT !.batch = b, !.next = n].op # "gcsAbort"
<1>1. r = CompleteRec(r) /\ r.op \in {"gcsCompose", "gcsCopy"} /\ r.upload \in Uploads /\ r.list \in Seq(Parts)
  BY DEF Completes
<1>2. [r EXCEPT !.batch = b, !.next = n] = [[r EXCEPT !.batch = b] EXCEPT !.next = n]
  OBVIOUS
<1>3. PICK s : s = [r EXCEPT !.batch = b]
  OBVIOUS
<1>4. s = [op |-> r.op, upload |-> r.upload, list |-> r.list, type |-> r.type, batch |-> b, next |-> r.next]
  BY <1>1, <1>3 DEF CompleteRec
<1>5. PICK t : t = [s EXCEPT !.next = n]
  OBVIOUS
<1>6. t = [op |-> r.op, upload |-> r.upload, list |-> r.list, type |-> r.type, batch |-> b, next |-> n]
  BY <1>4, <1>5
<1>7. Completes(t) /\ t.op # "gcsAbort"
  BY <1>1, <1>6 DEF Completes, CompleteRec
<1> QED
  BY <1>2, <1>3, <1>5, <1>7

\* A complete that begins to clean up, or goes on to.
LEMMA CleaningChanges ==
    ASSUME NEW r, Completes(r)
    PROVE  /\ Completes(CleaningUp(r)) /\ CleaningUp(r).op # "gcsAbort"
           /\ r.op = "gcsCleanup" /\ r.batch # <<>> =>
                 /\ Head(r.batch) \in AbortNames
                 /\ Completes([r EXCEPT !.batch = Tail(r.batch)])
                 /\ [r EXCEPT !.batch = Tail(r.batch)].op # "gcsAbort"
<1>1. r = CompleteRec(r) /\ r.upload \in Uploads /\ r.list \in Seq(Parts)
  BY DEF Completes
<1>2. PICK b : b = Append([i \in DOMAIN r.list |-> PartNamed(r.list[i])], <<"marker", 0>>)
  OBVIOUS
<1>3. b \in Seq(AbortNames)
  <2>1. [i \in DOMAIN r.list |-> PartNamed(r.list[i])] \in Seq(AbortNames)
    BY <1>1 DEF AbortNames
  <2>2. <<"marker", 0>> \in AbortNames
    BY DEF AbortNames
  <2> QED BY <1>2, <2>1, <2>2
<1>4. CleaningUp(r) = [[r EXCEPT !.op = "gcsCleanup"] EXCEPT !.batch = b]
  BY <1>2 DEF CleaningUp
<1>5. PICK s : s = [r EXCEPT !.op = "gcsCleanup"]
  OBVIOUS
<1>6. s = [op |-> "gcsCleanup", upload |-> r.upload, list |-> r.list, type |-> r.type, batch |-> r.batch,
           next |-> r.next]
  BY <1>1, <1>5 DEF CompleteRec
<1>7. PICK t : t = [s EXCEPT !.batch = b]
  OBVIOUS
<1>8. t = [op |-> "gcsCleanup", upload |-> r.upload, list |-> r.list, type |-> r.type, batch |-> b, next |-> r.next]
  BY <1>6, <1>7
<1>9. Completes(t) /\ t.op # "gcsAbort"
  BY <1>1, <1>3, <1>8 DEF Completes, CompleteRec
<1>10. CleaningUp(r) = t
  BY <1>4, <1>5, <1>7
<1>11. ASSUME r.op = "gcsCleanup", r.batch # <<>>
       PROVE  /\ Head(r.batch) \in AbortNames
              /\ Completes([r EXCEPT !.batch = Tail(r.batch)])
              /\ [r EXCEPT !.batch = Tail(r.batch)].op # "gcsAbort"
  <2>1. r.batch \in Seq(AbortNames)
    BY <1>11 DEF Completes
  <2>2. Head(r.batch) \in AbortNames /\ Tail(r.batch) \in Seq(AbortNames)
    BY <1>11, <2>1
  <2>3. PICK q : q = [r EXCEPT !.batch = Tail(r.batch)]
    OBVIOUS
  <2>4. q = [op |-> r.op, upload |-> r.upload, list |-> r.list, type |-> r.type, batch |-> Tail(r.batch),
             next |-> r.next]
    BY <1>1, <2>3 DEF CompleteRec
  <2>5. Completes(q) /\ q.op # "gcsAbort"
    BY <1>1, <1>11, <2>2, <2>4 DEF Completes, CompleteRec
  <2> QED BY <2>2, <2>3, <2>5
<1> QED
  BY <1>9, <1>10, <1>11

\* One object of an upload goes.
LEMMA DroppedOne ==
    ASSUME StoreShape, NEW u \in Uploads, NEW name \in AbortNames, Dropped(u, name)
    PROVE  StoreShape' /\ NamesOf(u)' = NamesOf(u) \ {name}
<1>1. CASE \E n \in Parts : name = PartNamed(n)
  <2>1. PICK n \in Parts : name = PartNamed(n)
    BY <1>1
  <2>2. name[1] = "part" /\ name[2] = n
    BY <2>1 DEF PartNamed
  <2>3. part' = [part EXCEPT ![u] = @ \ {n}] /\ upload' = upload /\ scratch' = scratch
    BY <2>2 DEF Dropped
  <2>4. StoreShape'
    BY <2>3 DEF StoreShape
  <2>5. part'[u] = part[u] \ {n}
    BY <2>3 DEF StoreShape
  <2>6. \A m : PartNamed(m) = name <=> m = n
    BY <2>1 DEF PartNamed
  <2>7. (\A i : TmpNamed(i) # name) /\ <<"marker", 0>> # name
    BY <2>1 DEF PartNamed, TmpNamed
  <2> QED BY <2>3, <2>4, <2>5, <2>6, <2>7 DEF NamesOf
<1>2. CASE \E i \in 0..MaxPart : name = TmpNamed(i)
  <2>1. PICK i \in 0..MaxPart : name = TmpNamed(i)
    BY <1>2
  <2>2. name[1] = "tmp" /\ name[2] = i
    BY <2>1 DEF TmpNamed
  <2>3. scratch' = [scratch EXCEPT ![u][i] = None] /\ upload' = upload /\ part' = part
    BY <2>2 DEF Dropped
  <2>4. scratch'[u] = [scratch[u] EXCEPT ![i] = None] /\ \A v \in Uploads : v # u => scratch'[v] = scratch[v]
    BY <2>3 DEF StoreShape
  <2>5. scratch'[u] = [j \in 0..MaxPart |-> IF j = i THEN None ELSE scratch[u][j]]
    BY <2>4 DEF StoreShape
  <2>6. \A v \in Uploads : scratch'[v] = [j \in 0..MaxPart |-> scratch'[v][j]]
    BY <2>4, <2>5 DEF StoreShape
  <2>7. StoreShape'
    BY <2>3, <2>6 DEF StoreShape
  <2>8. \A m : TmpNamed(m) = name <=> m = i
    BY <2>1 DEF TmpNamed
  <2>9. (\A n : PartNamed(n) # name) /\ <<"marker", 0>> # name
    BY <2>1 DEF PartNamed, TmpNamed
  <2>10. {j \in 0..MaxPart : scratch'[u][j] # None} = {j \in 0..MaxPart : scratch[u][j] # None} \ {i}
    BY <2>5
  <2> QED BY <2>3, <2>7, <2>8, <2>9, <2>10 DEF NamesOf
<1>3. CASE name = <<"marker", 0>>
  <2>1. name[1] = "marker"
    BY <1>3
  <2>2. upload' = [upload EXCEPT ![u] = None] /\ part' = part /\ scratch' = scratch
    BY <2>1 DEF Dropped
  <2>3. StoreShape' /\ upload'[u] = None
    BY <2>2 DEF StoreShape
  <2>4. (\A i : TmpNamed(i) # name) /\ (\A n : PartNamed(n) # name)
    BY <1>3 DEF PartNamed, TmpNamed
  <2> QED BY <1>3, <2>2, <2>3, <2>4 DEF NamesOf
<1> QED
  BY <1>1, <1>2, <1>3 DEF AbortNames

LEMMA NamesTyped ==
    ASSUME StoreShape, NEW u \in Uploads
    PROVE  NamesOf(u) \in SUBSET AbortNames
BY DEF StoreShape, NamesOf, AbortNames

LEMMA ComposeSteps ==
    ASSUME AbortInv, NEW c \in Clients, GcsCompose(c) \/ GcsCopyPart(c)
    PROVE  AbortInv'
<1>1. Completes(req[c]) /\ req[c] # Idle /\ req[c].op \in {"gcsCompose", "gcsCopy"}
  BY OpsApart DEF AbortInv, ReqShape, GcsCompose, GcsCopyPart
<1>2. alone' = alone /\ upload' = upload /\ part' = part
  BY DEF GcsCompose, GcsCopyPart
<1>3. scratch' = scratch \/ \E i, data : scratch' = [scratch EXCEPT ![req[c].upload][i] = data]
  <2>1. CASE GcsCopyPart(c)
    BY <2>1 DEF GcsCopyPart
  <2>2. CASE GcsCompose(c)
    BY <2>2 DEF GcsCompose
  <2> QED BY <2>1, <2>2
<1>4. StoreShape'
  <2>1. CASE scratch' = scratch
    BY <1>2, <2>1, StoreKept DEF AbortInv
  <2>2. ASSUME NEW i, NEW data, scratch' = [scratch EXCEPT ![req[c].upload][i] = data]
        PROVE  StoreShape'
    <3>1. req[c].upload \in Uploads
      BY <1>1 DEF Completes
    <3>2. /\ scratch'[req[c].upload] = [scratch[req[c].upload] EXCEPT ![i] = data]
          /\ \A v \in Uploads : v # req[c].upload => scratch'[v] = scratch[v]
      BY <2>2, <3>1 DEF AbortInv, StoreShape
    <3>3. \A v \in Uploads : scratch'[v] = [j \in 0..MaxPart |-> scratch'[v][j]]
      BY <3>1, <3>2 DEF AbortInv, StoreShape
    <3> QED BY <1>2, <2>2, <3>3 DEF AbortInv, StoreShape
  <2> QED BY <1>3, <2>1, <2>2
<1>5. Ends(c) \/ \E r : Goes(c, r) /\ Completes(r) /\ r.op # "gcsAbort"
  <2>1. \A b, n : /\ Completes([req[c] EXCEPT !.batch = b, !.next = n])
                  /\ [req[c] EXCEPT !.batch = b, !.next = n].op # "gcsAbort"
    BY <1>1, CompleteChanges
  <2>2. Completes(CleaningUp(req[c])) /\ CleaningUp(req[c]).op # "gcsAbort"
    BY <1>1, CleaningChanges
  <2>3. CASE GcsCopyPart(c)
    BY <2>2, <2>3 DEF GcsCopyPart
  <2>4. CASE GcsCompose(c)
    <3> DEFINE group == SubSeq(req[c].batch, 1, GroupSize(req[c].batch))
               rest == SubSeq(req[c].batch, Len(group) + 1, Len(req[c].batch))
               done == Append(req[c].next, Target(rest, req[c].next))
    <3>1. \/ Ends(c)
          \/ Goes(c, [req[c] EXCEPT !.batch = rest, !.next = done])
          \/ Goes(c, [req[c] EXCEPT !.batch = done, !.next = <<>>])
          \/ Goes(c, CleaningUp(req[c]))
      BY <2>4, Zenon DEF GcsCompose
    <3>2. PICK e, f : e = rest /\ f = done
      OBVIOUS
    <3>3. PICK n : n = <<>>
      OBVIOUS
    <3>4. \/ Ends(c)
          \/ Goes(c, [req[c] EXCEPT !.batch = e, !.next = f])
          \/ Goes(c, [req[c] EXCEPT !.batch = f, !.next = n])
          \/ Goes(c, CleaningUp(req[c]))
      BY <3>1, <3>2, <3>3, Zenon
    <3>5. PICK q, s, t : /\ q = [req[c] EXCEPT !.batch = e, !.next = f]
                         /\ s = [req[c] EXCEPT !.batch = f, !.next = n]
                         /\ t = CleaningUp(req[c])
      OBVIOUS
    <3>6. /\ Completes(q) /\ q.op # "gcsAbort" /\ Completes(s) /\ s.op # "gcsAbort"
          /\ Completes(t) /\ t.op # "gcsAbort"
      BY <2>1, <2>2, <3>5
    <3>7. Ends(c) \/ Goes(c, q) \/ Goes(c, s) \/ Goes(c, t)
      BY <3>4, <3>5
    <3> QED BY <3>6, <3>7
  <2> QED BY <2>3, <2>4
<1> QED
  BY <1>1, <1>2, <1>4, <1>5, OneEnds, OneGoesOn DEF StorageReq

\* A complete deletes its parts and its marker.
LEMMA CleanupSteps ==
    ASSUME AbortInv, NEW c \in Clients, GcsCleanup(c)
    PROVE  AbortInv'
<1>1. PICK r : r = req[c]
  OBVIOUS
<1>2. Completes(r) /\ req[c] # Idle /\ r.op = "gcsCleanup" /\ r.upload \in Uploads
  BY <1>1, OpsApart DEF AbortInv, ReqShape, GcsCleanup, Completes
<1>3. /\ alone' = alone
      /\ \/ /\ r.batch # <<>>
            /\ Dropped(r.upload, Head(r.batch)) \/ UNCHANGED <<upload, part, scratch>>
            /\ Goes(c, [r EXCEPT !.batch = Tail(r.batch)])
         \/ Ends(c) /\ UNCHANGED <<upload, part, scratch>>
  BY <1>1 DEF GcsCleanup
<1>4. CASE Ends(c) /\ UNCHANGED <<upload, part, scratch>>
  BY <1>2, <1>3, <1>4, OneEnds, StoreKept DEF AbortInv
<1>5. CASE /\ r.batch # <<>>
           /\ Dropped(r.upload, Head(r.batch)) \/ UNCHANGED <<upload, part, scratch>>
           /\ Goes(c, [r EXCEPT !.batch = Tail(r.batch)])
  <2>1. PICK q : q = [r EXCEPT !.batch = Tail(r.batch)]
    OBVIOUS
  <2>2. Head(r.batch) \in AbortNames /\ Completes(q) /\ q.op # "gcsAbort"
    BY <1>2, <1>5, <2>1, CleaningChanges
  <2>3. StoreShape'
    <3>1. CASE UNCHANGED <<upload, part, scratch>>
      BY <3>1, StoreKept DEF AbortInv
    <3>2. CASE Dropped(r.upload, Head(r.batch))
      <4>1. PICK u \in Uploads, name \in AbortNames : u = r.upload /\ name = Head(r.batch)
        BY <1>2, <2>2
      <4>2. Dropped(u, name)
        BY <3>2, <4>1
      <4> QED BY <4>2, DroppedOne DEF AbortInv
    <3> QED BY <1>5, <3>1, <3>2
  <2>4. Goes(c, q)
    BY <1>5, <2>1
  <2> QED BY <1>2, <1>3, <2>2, <2>3, <2>4, OneGoesOn DEF StorageReq
<1> QED
  BY <1>3, <1>4, <1>5

-----------------------------------------------------------------------------
(* Aborts *)

LEMMA AbortBegins ==
    ASSUME AbortInv, NEW c \in Clients, NEW u \in Uploads, GcsAbortList(c, u)
    PROVE  AbortInv'
<1>1. PICK r : /\ Goes(c, r)
               /\ r = [op |-> "gcsAbort", upload |-> u, todo |-> NamesOf(u), failed |-> FALSE]
  BY DEF GcsAbortList
<1>2. r \in AbortReqs /\ r.upload = u /\ r.todo = NamesOf(u)
  BY <1>1, NamesTyped DEF AbortReqs, AbortInv
<1>3. /\ Begins(c) /\ upload' = upload /\ part' = part /\ scratch' = scratch
      /\ StoreShape'
  BY StoreKept DEF GcsAbortList, AbortInv, store
<1>4. req'[c] = r /\ \A d \in Clients : d # c => req'[d] = req[d]
  BY <1>1 DEF AbortInv, ReqShape, Goes
<1>5. ReqShape'
  BY <1>1, <1>2, <1>4 DEF AbortInv, ReqShape, Goes, StorageReq
<1>6. alone' \in {c, NoUpload} /\ (alone' = c => \A d \in Clients \ {c} : req[d] = Idle)
  BY <1>3, NoUploadIsNoClient DEF Begins
<1>7. Sole'
  BY <1>4, <1>6, NoUploadIsNoClient DEF Sole
<1>8. NamesOf(u)' = NamesOf(u)
  BY <1>3 DEF NamesOf
<1>9. Aborting'
  <2>1. ASSUME NEW d \in Clients, alone' = d
        PROVE  NamesOf(req[d].upload)' \subseteq req'[d].todo
    BY <1>2, <1>4, <1>6, <1>8, <2>1, NoUploadIsNoClient
  <2> QED BY <2>1 DEF Aborting
<1> QED
  BY <1>3, <1>5, <1>7, <1>9 DEF AbortInv

\* The name that an abort takes next is one of those it has still to delete.
LEMMA NextName ==
    ASSUME NEW todo \in SUBSET AbortNames, todo # {}
    PROVE  (CHOOSE x \in todo : \A y \in todo : Rank(x) <= Rank(y)) \in todo
<1>1. \A x \in todo : Rank(x) \in Nat
  BY PartsAreNumbered DEF AbortNames, Rank, PartNamed, TmpNamed, Parts
<1>2. {Rank(x) : x \in todo} \in SUBSET Nat /\ {Rank(x) : x \in todo} # {}
  BY <1>1
<1>3. \E m \in {Rank(x) : x \in todo} : \A n \in {Rank(x) : x \in todo} : m <= n
  BY <1>2, LeastExists
<1>4. \E x \in todo : \A y \in todo : Rank(x) <= Rank(y)
  BY <1>3
<1> QED
  BY <1>4

LEMMA AbortSteps ==
    ASSUME AbortInv, NEW c \in Clients, GcsAbortDelete(c)
    PROVE  AbortInv'
<1>1. PICK r : r = req[c]
  OBVIOUS
<1>2. r.op = "gcsAbort" /\ r \in AbortReqs /\ req[c] # Idle /\ r.upload \in Uploads /\ r.todo \in SUBSET AbortNames
  BY <1>1, OpsApart DEF AbortInv, ReqShape, GcsAbortDelete, AbortReqs
<1>3. PICK name : name = CHOOSE x \in r.todo : \A y \in r.todo : Rank(x) <= Rank(y)
  OBVIOUS
<1>4. /\ alone' = alone
      /\ \/ /\ r.todo # {}
            /\ Dropped(r.upload, name)
            /\ Goes(c, [r EXCEPT !.todo = @ \ {name}])
         \/ /\ r.todo # {}
            /\ Goes(c, [r EXCEPT !.todo = @ \ {name}, !.failed = TRUE])
            /\ UNCHANGED <<upload, part, scratch>>
         \/ Ends(c) /\ UNCHANGED <<upload, part, scratch>>
  BY <1>1, <1>3 DEF GcsAbortDelete
<1>5. CASE Ends(c) /\ UNCHANGED <<upload, part, scratch>>
  BY <1>2, <1>4, <1>5, OneEnds, StoreKept DEF AbortInv
<1>6. ASSUME r.todo # {} PROVE name \in AbortNames
  BY <1>2, <1>3, <1>6, NextName
<1>7. ASSUME NEW q \in AbortReqs, Goes(c, q), q.upload = r.upload, StoreShape',
             alone = c /\ ~q.failed /\ NamesOf(r.upload) \subseteq r.todo => NamesOf(r.upload)' \subseteq q.todo,
             ~q.failed => ~r.failed
      PROVE  AbortInv'
  <2>1. req'[c] = q /\ \A d \in Clients : d # c => req'[d] = req[d]
    BY <1>7 DEF AbortInv, ReqShape, Goes
  <2>2. ReqShape'
    BY <1>7, <2>1 DEF AbortInv, ReqShape, Goes, StorageReq
  <2>3. alone \in Clients => alone = c
    BY <1>2 DEF AbortInv, Sole
  <2>4. Sole'
    BY <1>4, <2>1, <2>3 DEF AbortInv, Sole
  <2>5. alone = c /\ ~q.failed => NamesOf(r.upload)' \subseteq q.todo
    BY <1>1, <1>2, <1>7 DEF AbortInv, Aborting
  <2>6. ASSUME NEW d \in Clients, alone' = d, ~req'[d].failed
        PROVE  NamesOf(req[d].upload)' \subseteq req'[d].todo
    <3>1. d = c
      BY <1>4, <2>3, <2>6
    <3> QED BY <1>4, <1>7, <2>1, <2>5, <2>6, <3>1
  <2>7. Aborting'
    BY <2>6 DEF Aborting
  <2> QED BY <1>7, <2>2, <2>4, <2>7 DEF AbortInv
<1>8. CASE r.todo # {} /\ Dropped(r.upload, name) /\ Goes(c, [r EXCEPT !.todo = @ \ {name}])
  <2>1. PICK q : q = [r EXCEPT !.todo = @ \ {name}]
    OBVIOUS
  <2>2. q \in AbortReqs /\ q.upload = r.upload /\ q.todo = r.todo \ {name} /\ q.failed = r.failed
    BY <1>2, <2>1 DEF AbortReqs
  <2>3. PICK u \in Uploads, m \in AbortNames : u = r.upload /\ m = name
    BY <1>2, <1>6, <1>8
  <2>4. Dropped(u, m)
    BY <1>8, <2>3
  <2>5. StoreShape' /\ NamesOf(u)' = NamesOf(u) \ {m}
    BY <2>4, DroppedOne DEF AbortInv
  <2>6. NamesOf(r.upload)' = NamesOf(r.upload) \ {name}
    BY <2>3, <2>5
  <2>7. Goes(c, q)
    BY <1>8, <2>1
  <2> QED BY <1>7, <2>2, <2>5, <2>6, <2>7
<1>9. CASE /\ r.todo # {} /\ UNCHANGED <<upload, part, scratch>>
           /\ Goes(c, [r EXCEPT !.todo = @ \ {name}, !.failed = TRUE])
  <2>1. PICK s : s = [r EXCEPT !.todo = @ \ {name}]
    OBVIOUS
  <2>2. s \in AbortReqs /\ s.upload = r.upload
    BY <1>2, <2>1 DEF AbortReqs
  <2>3. PICK q : q = [s EXCEPT !.failed = TRUE]
    OBVIOUS
  <2>4. q \in AbortReqs /\ q.upload = r.upload /\ q.failed
    BY <2>2, <2>3 DEF AbortReqs
  <2>5. [r EXCEPT !.todo = @ \ {name}, !.failed = TRUE] = [[r EXCEPT !.todo = @ \ {name}] EXCEPT !.failed = TRUE]
    OBVIOUS
  <2>6. Goes(c, q)
    BY <1>9, <2>1, <2>3, <2>5
  <2>7. StoreShape'
    BY <1>9, StoreKept DEF AbortInv
  <2> QED BY <1>7, <2>4, <2>6, <2>7
<1> QED
  BY <1>4, <1>5, <1>8, <1>9

-----------------------------------------------------------------------------
(* azureblob, the shim, and the theorem *)

LEMMA AzureSteps ==
    ASSUME AbortInv, NEW c \in Clients, AzureCommit(c) \/ AzureDeleteMarker(c) \/ AzurePollCopy(c)
    PROVE  AbortInv'
<1>1. CASE AzurePollCopy(c)
  <2>1. req[c] # Idle
    BY <1>1 DEF AzurePollCopy, Idle
  <2> QED BY <1>1, <2>1, OneEnds, StoreKept DEF AzurePollCopy, AbortInv, store
<1>2. CASE AzureDeleteMarker(c)
  <2>1. req[c] # Idle
    BY <1>2 DEF AzureDeleteMarker, Idle
  <2>2. StoreShape'
    BY <1>2 DEF AzureDeleteMarker, AbortInv, StoreShape
  <2> QED BY <1>2, <2>1, <2>2, OneEnds DEF AzureDeleteMarker
<1>3. CASE AzureCommit(c)
  <2>1. PICK r : r = req[c]
    OBVIOUS
  <2>2. Commits(r) /\ req[c] # Idle
    BY <1>3, <2>1, OpsApart DEF AbortInv, ReqShape, AzureCommit
  <2>3. PICK q : q = [r EXCEPT !.op = "azDeleteMarker"]
    OBVIOUS
  <2>4. q = [op |-> "azDeleteMarker", upload |-> r.upload, list |-> r.list, type |-> r.type]
    BY <2>2, <2>3 DEF Commits, CommitRec
  <2>5. Commits(q) /\ q.op # "gcsAbort"
    BY <2>2, <2>4 DEF Commits, CommitRec
  <2>6. /\ alone' = alone /\ upload' = upload /\ scratch' = scratch
        /\ part' = part \/ part' = Staged(made[r.upload].key)
        /\ Ends(c) \/ Goes(c, q)
    BY <1>3, <2>1, <2>3 DEF AzureCommit
  <2>7. StoreShape'
    BY <2>6, PartsKept DEF AbortInv, StoreShape
  <2> QED BY <2>2, <2>5, <2>6, <2>7, OneEnds, OneGoesOn DEF StorageReq
<1> QED BY <1>1, <1>2, <1>3

LEMMA AbortInvInit ==
    StorageInit => AbortInv
<1> SUFFICES ASSUME StorageInit PROVE AbortInv
  OBVIOUS
<1>1. StoreShape
  <2>1. NoScratch = [i \in 0..MaxPart |-> NoScratch[i]]
    BY DEF NoScratch
  <2> QED BY <2>1 DEF StorageInit, StoreShape
<1>2. ReqShape
  BY DEF StorageInit, ReqShape, StorageReq
<1>3. Sole /\ Aborting
  BY NoUploadIsNoClient DEF StorageInit, Sole, Aborting
<1> QED
  BY <1>1, <1>2, <1>3 DEF AbortInv

LEMMA AbortInvStep ==
    AbortInv /\ [StorageNext]_storageVars => AbortInv'
<1> SUFFICES ASSUME AbortInv, [StorageNext]_storageVars PROVE AbortInv'
  OBVIOUS
<1>1. ASSUME NEW c \in Clients, Begin(c) PROVE AbortInv'
  <2>1. ASSUME S3Multipart(c) PROVE AbortInv'
    <3>1. PICK u \in Uploads :
             \/ \E k \in Keys, t \in Types : CreateMultipartUpload(c, u, k, t)
             \/ \E n \in Numbers(u) : UploadPart(c, u, n)
             \/ AbortMultipartUpload(c, u) \/ GcsAbortList(c, u) \/ AzureAbort(c, u)
             \/ InmemComplete(c, u)
             \/ \E list \in PartLists(u) :
                   S3Complete(c, u, list) \/ GcsReadMarker(c, u, list) \/ AzureReadMarker(c, u, list)
      BY <2>1 DEF S3Multipart
    <3> QED BY <3>1, UploadSteps, AbortBegins, CompleteBegins
  <2>2. ASSUME S3Objects(c) \/ GcsObjects(c) \/ AzureObjects(c) PROVE AbortInv'
    <3>1. \E k, l \in Keys : \E t : \/ PutObject(c, k, t) \/ DeleteObject(c, k)
                                    \/ CopyObject(c, k, l, t) \/ AzureStartCopy(c, k, l)
      BY <2>2 DEF S3Objects, GcsObjects, AzureObjects
    <3> QED BY <3>1, WholeObjectSteps
  <2>3. CASE CreateBucket(c) \/ DeleteBucket(c)
    BY <2>3, WholeObjectSteps
  <2> QED BY <1>1, <2>1, <2>2, <2>3 DEF Begin
<1>2. ASSUME NEW c \in Clients, Continue(c) PROVE AbortInv'
  BY <1>2, ComposeSteps, CleanupSteps, AbortSteps, AzureSteps DEF Continue
<1>3. ASSUME NEW k \in Keys, AzureCopyDone(k) PROVE AbortInv'
  <2>1. upload' = upload /\ part' = part /\ scratch' = scratch /\ req' = req /\ alone' = alone
    BY <1>3 DEF AzureCopyDone
  <2>2. StoreShape'
    BY <2>1, StoreKept DEF AbortInv
  <2> QED BY <2>1, <2>2, RequestsKept DEF AbortInv
<1>4. CASE Crash
  <2>1. \A c \in Clients : req'[c] = Idle
    BY <1>4 DEF Crash
  <2>2. StoreShape'
    BY <1>4, StoreKept DEF Crash, AbortInv, store
  <2>3. ReqShape' /\ Sole'
    BY <1>4, <2>1 DEF Crash, ReqShape, StorageReq, Sole
  <2>4. Aborting'
    BY <2>1 DEF Aborting, Idle
  <2> QED BY <2>2, <2>3, <2>4 DEF AbortInv
<1>5. CASE UNCHANGED storageVars
  <2>1. upload' = upload /\ part' = part /\ scratch' = scratch /\ req' = req /\ alone' = alone
    BY <1>5 DEF storageVars, store
  <2>2. StoreShape'
    BY <2>1, StoreKept DEF AbortInv
  <2> QED BY <2>1, <2>2, RequestsKept DEF AbortInv
<1> QED
  BY <1>1, <1>2, <1>3, <1>4, <1>5 DEF StorageNext

\* QuietAbortCleans: when AbortMultipartUpload of gcs has deleted all that it
\* listed, without a failed delete and with no other request on the way,
\* neither a part, nor an intermediate object, nor the marker of the upload is
\* left, for every set of clients, uploads and part lists and any number of
\* parts.
THEOREM AbortsAlwaysClean == StorageSpec => []QuietAbortCleans
<1>1. AbortInv => QuietAbortCleans
  <2> SUFFICES ASSUME AbortInv, NEW c \in Clients,
                      req[c].op = "gcsAbort", req[c].todo = {}, ~req[c].failed, alone = c
               PROVE  LET u == req[c].upload
                      IN  upload[u] = None /\ part[u] = {} /\ scratch[u] = NoScratch
    BY DEF QuietAbortCleans
  <2>1. PICK u \in Uploads : u = req[c].upload
    BY OpsApart DEF AbortInv, ReqShape, AbortReqs
  <2>2. NamesOf(u) = {}
    BY <2>1 DEF AbortInv, Aborting
  <2>3. upload[u] = None /\ part[u] = {} /\ \A i \in 0..MaxPart : scratch[u][i] = None
    BY <2>2 DEF NamesOf
  <2>4. scratch[u] = NoScratch
    BY <2>3 DEF AbortInv, StoreShape, NoScratch
  <2> QED BY <2>1, <2>3, <2>4
<1> QED
  BY <1>1, AbortInvInit, AbortInvStep, PTL DEF StorageSpec
==============================================================================

------------------------------- MODULE Listing -------------------------------
(***************************************************************************)
(* Listings page by page: a caller asks for at most MaxResults items, gets *)
(* a page and perhaps a token, and asks again with the token until a page  *)
(* comes without one.  Items are added and removed meanwhile.              *)
(*                                                                         *)
(* The backends continue a listing in five ways; `lister' says which one   *)
(* answers: ListObjects of inmem, gcs, azureblob and minio, ListBuckets    *)
(* of inmem, ListClusters of the in-process event stream, and listings     *)
(* that leave it to their service (aws).  Names are numbered in their      *)
(* order; a delimiter is not modelled.                                     *)
(***************************************************************************)
EXTENDS Naturals, FiniteSetsExt

CONSTANTS
    Listers,    \* the listings to explore
    MaxName,    \* names are 1..MaxName
    MaxResults  \* what the caller asks for at most

Names == 1..MaxName

ASSUME MaxNameAssumption == MaxName \in Nat
ASSUME MaxResultsAssumption == MaxResults \in Nat \ {0}

VARIABLES
    lister,     \* whose listing it is
    items,      \* the names there are
    walk        \* the caller: its state, token, names it was given (again),
                \* and history: the names that were there all along

listingVars == <<lister, items, walk>>

NoToken == 0
Fresh == [state |-> "idle", token |-> NoToken, seen |-> {}, again |-> {}, steady |-> {}]

ListingInit ==
    /\ lister \in Listers
    /\ items = {}
    /\ walk = Fresh

-----------------------------------------------------------------------------
(* One page: the names, the token and whether the call is refused *)

\* How many names come before n, and the first names of a set.
Index(n, names) == Cardinality({o \in names : o < n})
FirstOf(names) == {n \in names : Index(n, names) < MaxResults}
Answer(names, token) == [names |-> names, token |-> token, refused |-> FALSE]
After(token) == {n \in items : n > token}

\* Mutation: the first name of a later page is skipped.
InmemBucketsPageSkipping(token) ==
    LET rest == {n \in items : n > token + (IF token = NoToken THEN 0 ELSE 1)}
    IN  IF Cardinality(rest) > MaxResults THEN Answer(FirstOf(rest), Max(FirstOf(rest)))
        ELSE Answer(rest, NoToken)

InmemBucketsPage(token) ==
    LET rest == After(token)
    IN  IF Cardinality(rest) > MaxResults THEN Answer(FirstOf(rest), Max(FirstOf(rest)))
        ELSE Answer(rest, NoToken)

InmemObjectsPage(token) ==
    LET keys == After(token)
        page == FirstOf(keys)
    IN  Answer(page, IF Cardinality(page) >= MaxResults /\ Cardinality(keys) > MaxResults
                     THEN Max(page) ELSE NoToken)

\* aws hands over tokens of the service, taken to be exact.
AwsObjectsPage(token) == InmemObjectsPage(token)

\* Mutation: azureblob answers a full page with the token it was given.
AzureObjectsPageStuck(token) ==
    LET page == FirstOf(After(token))
    IN  Answer(page, IF Cardinality(page) >= MaxResults /\ token # NoToken THEN token
                     ELSE IF Cardinality(page) >= MaxResults THEN Max(page) ELSE NoToken)

\* A full page has a token even if it is the last one.
AzureObjectsPage(token) ==
    LET page == FirstOf(After(token))
    IN  Answer(page, IF Cardinality(page) >= MaxResults THEN Max(page) ELSE NoToken)

\* The token becomes StartOffset, at which the listing starts: inclusive.
GcsObjectsPage(token) ==
    LET page == FirstOf({n \in items : n >= token})
    IN  Answer(page, IF Cardinality(page) >= MaxResults THEN Max(page) ELSE NoToken)

\* minio never says that there is more.
MinioObjectsPage(token) == Answer(FirstOf(After(token)), NoToken)

\* The token is an index into the names there are now.
ClustersPage(token) ==
    LET count == Cardinality(items)
        limit == token + MaxResults
    IN  IF token > count THEN [names |-> {}, token |-> NoToken, refused |-> TRUE]
        ELSE Answer({n \in items : Index(n, items) >= token /\ Index(n, items) < limit},
                    IF limit < count THEN limit ELSE NoToken)

Page(token) ==
    CASE lister = "inmem buckets" -> InmemBucketsPage(token)
      [] lister = "inmem objects" -> InmemObjectsPage(token)
      [] lister = "aws objects" -> AwsObjectsPage(token)
      [] lister = "azure objects" -> AzureObjectsPage(token)
      [] lister = "gcs objects" -> GcsObjectsPage(token)
      [] lister = "minio objects" -> MinioObjectsPage(token)
      [] lister = "clusters" -> ClustersPage(token)

-----------------------------------------------------------------------------
(* The caller, and the others who change what is listed *)

Add(n) ==
    /\ n \notin items
    /\ items' = items \cup {n}
    /\ UNCHANGED <<lister, walk>>

ItemGone(n) ==
    /\ n \in items
    /\ items' = items \ {n}
    /\ walk' = [walk EXCEPT !.steady = @ \ {n}]
    /\ UNCHANGED lister

Start ==
    /\ walk.state # "walking"
    /\ walk' = [Fresh EXCEPT !.state = "walking", !.steady = items]
    /\ UNCHANGED <<lister, items>>

NextPage ==
    LET p == Page(walk.token)
    IN  /\ walk.state = "walking"
        /\ walk' = [walk EXCEPT
              !.state = IF p.refused THEN "refused" ELSE IF p.token = NoToken THEN "done" ELSE @,
              !.token = p.token,
              !.seen = @ \cup p.names,
              !.again = @ \cup (walk.seen \cap p.names)]
        /\ UNCHANGED <<lister, items>>

ListingNext == (\E n \in Names : Add(n) \/ ItemGone(n)) \/ Start \/ NextPage

\* A caller that has been given a token asks for the next page, and calls return.
ListingSpec == ListingInit /\ [][ListingNext]_listingVars /\ WF_listingVars(NextPage)

-----------------------------------------------------------------------------
(* Properties *)

ListingTypeOK ==
    /\ lister \in Listers
    /\ items \subseteq Names
    /\ walk.token \in 0..MaxName
    /\ walk.again \subseteq walk.seen /\ walk.seen \subseteq Names
    /\ walk.state \in {"idle", "walking", "done", "refused"}

\* What a caller relies on when it copies or empties a bucket: a finished
\* listing has every item that was there all along, and no item twice.
ListingComplete ==
    /\ walk.again = {}
    /\ walk.state = "done" => walk.steady \subseteq walk.seen

\* ListObjects of inmem, azureblob and aws and ListBuckets of inmem keep
\* this whatever is added and removed between two pages: their token is the
\* last name of the page.
KeyTokens == {"inmem buckets", "inmem objects", "aws objects", "azure objects"}
KeyTokenListingComplete == lister \in KeyTokens => ListingComplete

\* Every listing that is followed to its end ends, however often items
\* change meanwhile.  (gcs is left out: with pages of one item its token
\* leads back to the page it came with.)
ListingEnds == (walk.state = "walking" /\ lister # "gcs objects") ~> (walk.state # "walking")

=============================================================================

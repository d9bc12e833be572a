----------------------------- MODULE TmxListing -----------------------------
(***************************************************************************)
(* TmxClient.iter_map_summaries and iter_random_summaries (src/ingestion/  *)
(* tmx.py) as MapIngestor.run consumes them (orchestrator.py), over a site *)
(* that publishes and removes maps while the listing is being paged, with  *)
(* the list pages kept for ever in the response cache.  Map ids are        *)
(* 1..MaxMap in upload order; the site lists them newest first.            *)
(***************************************************************************)
EXTENDS Integers, Sequences, FiniteSets, Functions

CONSTANTS
    MaxMap,      \* bound: maps the site ever publishes
    Nameless,    \* ids of entries the site lists without a MapId
    PageSize,    \* page_size
    MaxMaps,     \* max_maps of the ingestor (0: no limit)
    RandomCount, \* random_count
    MaxListings  \* bound: ingest runs

ASSUME ListingAssumption ==
    /\ MaxMap \in Nat \ {0} /\ Nameless \subseteq 1..MaxMap
    /\ PageSize \in Nat \ {0} /\ MaxMaps \in Nat /\ RandomCount \in Nat

VARIABLES
    online,    \* maps the site lists now
    newest,    \* the last id published
    pages,     \* cached pages: cursor -> page (NoPage when absent)
    listing    \* the ingest run under way

listingVars == <<online, newest, pages, listing>>

NoPage == [ids |-> {}, more |-> FALSE, of |-> {}, stored |-> FALSE]
NoListing == [at |-> "idle", after |-> 0, todo |-> {}, more |-> FALSE, emitted |-> FALSE,
              yielded |-> <<>>, kept |-> {}, blank |-> FALSE, runs |-> 0]

ListingInit ==
    /\ online = {1} /\ newest = 1
    /\ pages = [c \in 0..MaxMap |-> NoPage]
    /\ listing = NoListing

\* what list_maps answers: the newest PageSize maps older than the cursor (0: from the top)
Older(cursor) == {m \in online : cursor = 0 \/ m < cursor}
Newer(S, m) == {n \in S : n > m}
Page(cursor) ==
    [ids |-> {m \in Older(cursor) : Cardinality(Newer(Older(cursor), m)) < PageSize},
     more |-> Cardinality(Older(cursor)) > PageSize, of |-> online, stored |-> TRUE]

StartListing ==
    /\ listing.at \in {"idle", "ended", "failed"} /\ listing.runs < MaxListings
    /\ \E mode \in {"page", "random"} :
         listing' = [NoListing EXCEPT !.at = mode, !.runs = listing.runs + 1]
    /\ UNCHANGED <<online, newest, pages>>

\* the loop in iter_map_summaries begins with a page
Begin(l, p) ==
    [l EXCEPT !.at = IF p.ids = {} THEN "ended" ELSE "entries",
              !.todo = p.ids, !.more = p.more, !.emitted = FALSE,
              !.kept = IF l.after = 0 THEN p.of \cap online ELSE @]
ReadCachedPage ==
    /\ listing.at = "page" /\ pages[listing.after].stored
    /\ listing' = Begin(listing, pages[listing.after])
    /\ UNCHANGED <<online, newest, pages>>
FetchPage ==
    /\ listing.at = "page" /\ ~pages[listing.after].stored
    /\ pages' = [pages EXCEPT ![listing.after] = Page(listing.after)]
    /\ listing' = Begin(listing, Page(listing.after))
    /\ UNCHANGED <<online, newest>>
\* _get_json raises HttpError: the generator and run end, the maps seen so far stay
FetchFails ==
    /\ \/ listing.at = "page" /\ ~pages[listing.after].stored
       \/ listing.at = "random"
    /\ listing' = [listing EXCEPT !.at = "failed"]
    /\ UNCHANGED <<online, newest, pages>>

\* the ingestor takes a map, or has enough
Enough == MaxMaps # 0 /\ Len(listing.yielded) >= MaxMaps
Take(l, m) == IF Enough THEN [l EXCEPT !.at = "ended"]
              ELSE [l EXCEPT !.yielded = Append(@, m)]

\* Mutant: the cursor points past the map instead of at it.
SeenPast(l, m) == [l EXCEPT !.todo = @ \ {m}, !.after = m - 1, !.emitted = TRUE]

\* one entry of the page: an entry without an id is skipped, any other moves the cursor
\* and is yielded; the site may change before the next
Seen(l, m) == [l EXCEPT !.todo = @ \ {m}, !.after = m, !.emitted = TRUE]
NextEntry ==
    /\ listing.at = "entries"
    /\ \E m \in listing.todo :
         /\ Newer(listing.todo, m) = {}
         /\ listing' = IF m \in Nameless THEN [listing EXCEPT !.todo = @ \ {m}]
                       ELSE Take(Seen(listing, m), m)
    /\ UNCHANGED <<online, newest, pages>>
TurnPage ==
    /\ listing.at = "entries" /\ listing.todo = {}
    /\ listing' = [listing EXCEPT
          !.at = IF listing.more /\ listing.emitted THEN "page" ELSE "ended",
          !.blank = ~listing.emitted]
    /\ UNCHANGED <<online, newest, pages>>

\* one turn of iter_random_summaries: never cached, one map per call
DrawRandom ==
    /\ listing.at = "random"
    /\ \/ /\ Len(listing.yielded) < RandomCount
          /\ \E m \in online :
               listing' = IF m \in Nameless THEN listing ELSE Take(listing, m)
       \/ /\ Len(listing.yielded) >= RandomCount \/ online = {}
          /\ listing' = [listing EXCEPT !.at = "ended"]
    /\ UNCHANGED <<online, newest, pages>>

\* the site: uploads get the next id, maps disappear
Upload ==
    /\ newest < MaxMap
    /\ newest' = newest + 1 /\ online' = online \cup {newest + 1}
    /\ UNCHANGED <<pages, listing>>
TakeDown ==
    /\ \E m \in online :
         /\ online' = online \ {m}
         /\ listing' = [listing EXCEPT !.kept = @ \ {m}]
    /\ UNCHANGED <<newest, pages>>

ListingStep == ReadCachedPage \/ FetchPage \/ FetchFails \/ NextEntry \/ TurnPage
ListingNext == StartListing \/ ListingStep \/ DrawRandom \/ Upload \/ TakeDown

-----------------------------------------------------------------------------
Paging == listing.at \in {"page", "entries"}

\* The cursor pages an ever-changing list without listing a map twice, uploads and
\* removals between two pages and pages cached by earlier runs included (tmx.py:262-290).
ListedOnce ==
    (Paging \/ listing.after # 0) =>
        \A i, j \in DOMAIN listing.yielded : i < j => listing.yielded[i] > listing.yielded[j]

\* A listing that ran to its end without a limit has yielded every map that was online
\* when its first page was read from the site and was never taken down, unless it was
\* ended by a page none of whose entries has an id (tmx.py:275-290).
ListedAll ==
    (listing.at = "ended" /\ listing.after # 0 /\ MaxMaps = 0 /\ ~listing.blank) =>
        (listing.kept \ Nameless) \subseteq Range(listing.yielded)

\* Every map exactly once, whatever happens to the list between two pages.
ListingRight == ListedOnce /\ ListedAll

\* The paging loop ends although the site's More flag stays set while a page names no
\* map: it never asks for the same page for ever (emitted_any, tmx.py:289).
ListingEnds == Paging ~> ~Paging
=============================================================================

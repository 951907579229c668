----------------------------- MODULE Directory -----------------------------
(***************************************************************************)
(* The public directory of hackathons: one cached read of the database,    *)
(* and a page that is a function of that read, the URL and the clock       *)
(* (lib/events/listing.ts, hackathon-directory.tsx).  A visitor arrives by *)
(* any URL, follows the links of the page, or sends its search form.       *)
(*                                                                         *)
(* A card's text is the set of its words; a URL is the set of parameters   *)
(* it carries, with their values.                                          *)
(***************************************************************************)
EXTENDS Integers, Sequences, FiniteSets, FiniteSetsExt, SequencesExt

CONSTANTS
    Hackathons,      \* [id -> the fields of the event that stay as they are]
    Searches,        \* sets of words that are searched for
    HackBound        \* bound on the clock

ASSUME DirectoryAssumption == IsFiniteSet(DOMAIN Hackathons) /\ HackBound \in Nat

VARIABLES
    cached,          \* the events of the cached read
    clock,
    url,             \* the parameters of the page that the visitor is on
    promised         \* the count beside the link that was followed; -1 without one

directoryVars == <<cached, clock, url, promised>>

Null == "null"
HackathonPhases == <<"ongoing", "upcoming", "past">>
Tabs == {"ongoing", "upcoming", "past"}
Categories == {"ai", "web3"}
Venues == {"online", "hybrid"}
PrizeRanges == [small |-> 0 .. 2, large |-> 3 .. 9]
Sorts == {"recommended", "prize"}
Empty == [phase |-> Null, category |-> Null, venue |-> Null, prize |-> Null, q |-> {},
          sort |-> "recommended"]

-----------------------------------------------------------------------------
(* lib/events/listing.ts *)

HackathonPhase(h) ==
    IF clock < Hackathons[h].starts THEN "upcoming"
    ELSE IF clock > Hackathons[h].ends THEN "past" ELSE "ongoing"

\* Registration closes at the deadline; a public event is published.
StillOpen(h) == Hackathons[h].deadline > clock

OneOf(params, name, keys) ==
    IF name \in DOMAIN params /\ params[name] \in keys THEN params[name] ELSE Null

\* Unknown or malformed values fall back to the defaults.
ParseListingQuery(params) ==
    [phase    |-> OneOf(params, "filter", Tabs),
     category |-> OneOf(params, "category", Categories),
     venue    |-> OneOf(params, "venue", Venues),
     prize    |-> OneOf(params, "prize", DOMAIN PrizeRanges),
     q        |-> IF "q" \in DOMAIN params THEN params["q"] ELSE {},
     sort     |-> IF OneOf(params, "sort", Sorts) = Null THEN "recommended"
                  ELSE params["sort"]]

Named(param) == CASE param = "filter" -> "phase" [] OTHER -> param

\* Only what differs from the default goes into the URL.
ListingHref(query) ==
    [p \in {n \in {"filter", "category", "venue", "prize", "q", "sort"} :
               query[Named(n)] # Empty[Named(n)]} |-> query[Named(p)]]

\* Every filter but skip.
FilterCards(cards, query, phase, skip) ==
    {h \in cards :
        /\ skip = "phase" \/ phase = Null \/ HackathonPhase(h) = phase
        /\ query.category = Null \/ query.category \in Hackathons[h].categories
        /\ query.venue = Null \/ query.venue = Hackathons[h].venue
        /\ query.prize = Null \/ Hackathons[h].pool \in PrizeRanges[query.prize]
        /\ query.q \subseteq Hackathons[h].words}

\* The chosen tab, or the first that has results.
ResolvePhase(query) ==
    LET counts == [p \in Tabs |->
                      Cardinality({h \in FilterCards(cached, query, Null, "phase") :
                                      HackathonPhase(h) = p})]
        some   == {i \in DOMAIN HackathonPhases : counts[HackathonPhases[i]] > 0}
    IN  IF query.phase # Null THEN query.phase
        ELSE IF some = {} THEN "ongoing" ELSE HackathonPhases[Min(some)]

\* Biggest prize first; else ongoing by end, upcoming by start, past latest first.
SortCards(cards, sort, phase) ==
    SetToSortSeq(cards, LAMBDA g, h :
        LET first == Hackathons[g]
            next  == Hackathons[h]
        IN  CASE sort = "prize" -> first.pool >= next.pool
              [] sort # "prize" /\ phase = "ongoing"  -> first.ends <= next.ends
              [] sort # "prize" /\ phase = "upcoming" -> first.starts <= next.starts
              [] OTHER -> first.ends >= next.ends)

\* The biggest prize still open for registration, else the biggest that is on.
PickFeatured ==
    LET byPool == SortCards(cached, "prize", "past")
        open   == SelectSeq(byPool, StillOpen)
        on     == SelectSeq(byPool, LAMBDA h : HackathonPhase(h) = "ongoing")
    IN  IF open \o on = <<>> THEN {} ELSE {Head(open \o on)}

IsFiltered(query) == [query EXCEPT !.sort = "recommended"] # Empty

StatusLine(h) ==
    IF StillOpen(h) THEN "open"
    ELSE [upcoming |-> "soon", ongoing |-> "live", past |-> "done"][HackathonPhase(h)]

-----------------------------------------------------------------------------
(* The page *)

Shown(query) == FilterCards(cached, query, ResolvePhase(query), "")
Listing(query) == SortCards(Shown(query), query.sort, ResolvePhase(query))

\* Offered below a short list of results: what comes next and is not shown.
Suggestions(query) ==
    SortCards({h \in cached : HackathonPhase(h) = "upcoming"} \ Shown(query),
              "recommended", "upcoming")

Query == ParseListingQuery(url)

MutantCount(query, changes) ==
    Cardinality(FilterCards(cached, changes, ResolvePhase(query), ""))

\* What an option would give: the other filters and this option.
Count(query, changes) ==
    Cardinality(FilterCards(cached, changes,
        IF changes.phase # query.phase THEN changes.phase ELSE ResolvePhase(query), ""))

\* The options of the four groups, each the query that its link leads to.
Facets(query) ==
    {[query EXCEPT !.phase = p] : p \in Tabs}
    \cup {[query EXCEPT !.category = c] :
             c \in {Null} \cup {d \in Categories : \E h \in cached : d \in Hackathons[h].categories}}
    \cup {[query EXCEPT !.venue = v] : v \in {Null} \cup Venues}
    \cup {[query EXCEPT !.prize = p] : p \in {Null} \cup DOMAIN PrizeRanges}

-----------------------------------------------------------------------------
DirectoryInit ==
    /\ cached \in SUBSET DOMAIN Hackathons
    /\ clock = 0 /\ url = <<>> /\ promised = -1

\* From elsewhere, with any parameters.
Arrive ==
    /\ \E p \in Tabs \cup {"bogus"}, s \in Sorts : url' \in {<<>>, [filter |-> p, sort |-> s]}
    /\ promised' = -1
    /\ UNCHANGED <<cached, clock>>

FollowFacet ==
    /\ \E next \in Facets(Query) :
          /\ url' = ListingHref(next)
          /\ promised' = Count(Query, next)
    /\ UNCHANGED <<cached, clock>>

\* The form carries the filters along in hidden fields.
SearchAndSort ==
    /\ \E words \in Searches, s \in Sorts :
          url' = ListingHref([Query EXCEPT !.q = words, !.sort = s,
                     !.phase = IF Query.phase = Null THEN Null ELSE ResolvePhase(Query)])
    /\ promised' = -1
    /\ UNCHANGED <<cached, clock>>

ClearFilters ==
    /\ IsFiltered(Query)
    /\ url' = <<>> /\ promised' = -1
    /\ UNCHANGED <<cached, clock>>

\* revalidate: 300, in the background of some request: whatever is funded and
\* not cancelled by then.
Revalidate ==
    /\ cached' \in SUBSET DOMAIN Hackathons /\ promised' = -1
    /\ UNCHANGED <<clock, url>>

HourPasses ==
    /\ clock < HackBound
    /\ clock' = clock + 1 /\ promised' = -1
    /\ UNCHANGED <<cached, url>>

DirectoryNext ==
    \/ Arrive \/ FollowFacet \/ SearchAndSort \/ ClearFilters
    \/ Revalidate \/ HourPasses

DirectorySpec == DirectoryInit /\ [][DirectoryNext]_directoryVars

-----------------------------------------------------------------------------
\* A visitor who has chosen a tab finds behind every filter exactly as many
\* hackathons as the number beside it said; without a chosen tab the page
\* opens on one that has results, if any card matches, and offers the rest of
\* what is coming (hackathon-directory.tsx:89, listing.ts:171).
CountsAreKept ==
    /\ Query.phase # Null /\ promised >= 0 => Cardinality(Shown(Query)) = promised
    /\ Shown(Query) = {} /\ Query.phase = Null =>
          FilterCards(cached, Query, Null, "phase") = {}

\* The same without a chosen tab.  It does not hold: the count is of the tab
\* in effect, and the link may open another one.
CountsAreKeptAnywhere == promised >= 0 => Cardinality(Shown(Query)) = promised
=============================================================================

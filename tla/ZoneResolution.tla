--------------------------- MODULE ZoneResolution ----------------------------
(***************************************************************************)
(* How a provider finds the zone that owns a name, what it remembers of    *)
(* it, and how it reads the pages of a listing.  Of the providers with the *)
(* same code one stands for all:                                           *)
(*   "gandi"       dns/zone.rs find_zone; also Scaleway, OVH, Porkbun,     *)
(*                 DigitalOcean, RFC 2136 and the propagation check        *)
(*   "cloudflare"  find_zone, then the zone's id, which is remembered      *)
(*   "powerdns"    the API is asked for each suffix, longest first, and    *)
(*                 the zone remembered; also Infomaniak                    *)
(*   "route53"     the same for public zones, of which the id is kept      *)
(*   "hetzner"     the shortest suffix first                               *)
(*   "desec"       the API is asked which domain owns the name             *)
(*   "bunny", "google"  the pages of the account's zones                   *)
(*   "digitalocean", "infomaniak"  the pages of the TXT records, once the  *)
(*                 zone is known                                           *)
(*                                                                         *)
(* A name is the sequence of its labels.  The entries are the account's    *)
(* zones (for find_zone: those DNS shows) or the zone's records, which are *)
(* listed oldest first.  Others create and delete them while lookups run.  *)
(* A provider that was given its zone has nothing to find and is left out. *)
(***************************************************************************)
EXTENDS ProviderTasks

CONSTANTS Names,       \* the names they are called for
          ZoneNames,   \* the names of the zones there may be
          Providers,   \* the providers checked
          PageSize,    \* entries on a page
          MaxPages,    \* MAX_PAGES
          MaxEntries,  \* bound on the entries at one time
          MaxChanges   \* bound on the entries created and deleted

(* A zone or a record.  That of a provider without ids has Nothing for one. *)
Entry == [id : Nat \cup {Nothing}, name : Names \cup ZoneNames, public : BOOLEAN]

(* No zone is a TLD, and the name of a challenge has a label before the
   domain's. *)
ASSUME ZoneAssumption ==
    /\ PageSize \in Nat \ {0} /\ MaxPages \in Nat \ {0}
    /\ \A n \in Names \cup ZoneNames : n \in Seq(STRING) /\ Len(n) >= 2
    /\ Nothing \notin [found : Entry, steady : SUBSET Entry]

VARIABLES
    provider,  \* the provider, fixed
    entries,   \* the zones or records, with ids in the order of creation
    changes,   \* how many were created or deleted
    cache,     \* zone_cache or zone_id_cache: [found, steady], steady being
               \* the history of the lookup that filled it
    zpc,       \* zpc[t]: where the call is
    name,      \* name[t]: its fqdn
    at,        \* at[t]: the label its candidate starts at
    page,      \* page[t]: the number of the page it asks for
    got,       \* got[t]: what the pages held so far
    result,    \* result[t]: what it found
    steady,    \* history: the entries it looks for that were there since it
               \* began
    excused,   \* history: the lookup may have missed an entry
    settled    \* history: settled[n]: the zone of the first call for n that
               \* ended with no other call for n running

worldVars == <<entries, changes>>
taskVars == <<zpc, name, at, page, got, result, steady, excused>>
zoneVars == <<provider, worldVars, cache, taskVars, settled>>

ZoneListers == {"bunny", "google"}
RecordListers == {"digitalocean", "infomaniak"}

(* Their zone of a name, or id of a zone, is remembered. *)
Caching == {"powerdns", "route53"}

(* relative_name, is_suffix: the name sits in the zone. *)
InZone(n, z) == \E i \in 1..Len(n) : z = SubSeq(n, i, Len(n))

Candidate(t) == SubSeq(name[t], at[t], Len(name[t]))

Running(t) == zpc[t] \notin {"idle", "ok", "none", "err"}

ZoneInit ==
    /\ provider \in Providers
    /\ entries = {} /\ changes = 0
    /\ cache = [k \in Names \cup ZoneNames |-> Nothing]
    /\ zpc = [t \in Tasks |-> "idle"]
    /\ name = [t \in Tasks |-> <<>>]
    /\ at = [t \in Tasks |-> 0] /\ page = [t \in Tasks |-> 0]
    /\ got = [t \in Tasks |-> {}]
    /\ result = [t \in Tasks |-> Nothing]
    /\ steady = [t \in Tasks |-> {}]
    /\ excused = [t \in Tasks |-> FALSE]
    /\ settled = [n \in Names |-> Nothing]

-----------------------------------------------------------------------------
(* The account, or DNS: external.                                          *)

(* Zones that public resolvers do not see, and several zones of one name,
   exist at Route53 and Google only.  Hetzner hosts registrable domains, of
   however many labels, and no zone inside another. *)
Possible(e) ==
    \/ provider \in {"route53", "google"} /\ e.name \in ZoneNames
    \/ provider \in RecordListers /\ e.name \in Names /\ e.public
    \/ /\ provider \notin RecordListers /\ e.name \in ZoneNames /\ e.public
       /\ \A f \in entries : f.name # e.name
       /\ provider = "hetzner" =>
             \A f \in entries : ~InZone(e.name, f.name) /\ ~InZone(f.name, e.name)

(* What went away was not there throughout; pages counted by number shift. *)
Changed(gone) ==
    /\ changes < MaxChanges
    /\ changes' = changes + 1
    /\ steady' = [t \in Tasks |-> steady[t] \ gone]
    /\ excused' = [t \in Tasks |->
          excused[t] \/ (gone # {} /\ zpc[t] = "list" /\ provider # "google")]
    /\ UNCHANGED <<provider, cache, zpc, name, at, page, got, result, settled>>

Create(n, public) ==
    LET e == [id |-> changes, name |-> n, public |-> public] IN
    /\ Cardinality(entries) < MaxEntries
    /\ Possible(e)
    /\ entries' = entries \cup {e}
    /\ Changed({})

Delete(e) ==
    /\ entries' = entries \ {e}
    /\ Changed({e})

Others ==
    \/ \E n \in Names \cup ZoneNames, public \in BOOLEAN : Create(n, public)
    \/ \E e \in entries : Delete(e)

(* What a request about one name answers. *)
Zones(n) == {e \in entries : e.name = n}

-----------------------------------------------------------------------------
(* A call.                                                                 *)

(* A call ends.  The first that nobody overlaps settles the zone. *)
Return(t, outcome, found) ==
    /\ zpc' = [zpc EXCEPT ![t] = outcome]
    /\ result' = [result EXCEPT ![t] = found]
    /\ settled' =
          IF /\ outcome = "ok" /\ provider \in Caching /\ settled[name[t]] = Nothing
             /\ \A u \in Tasks \ {t} : Running(u) => name[u] # name[t]
          THEN [settled EXCEPT ![name[t]] = found] ELSE settled
    /\ at' = [at EXCEPT ![t] = 0] /\ page' = [page EXCEPT ![t] = 0]
    /\ got' = [got EXCEPT ![t] = {}] /\ steady' = [steady EXCEPT ![t] = {}]
    /\ UNCHANGED <<provider, worldVars, name>>

(* Providers that name a zone by its id. *)
ById == {"cloudflare", "route53", "bunny", "google"}

Reference(e) == IF provider \in ById THEN e ELSE [e EXCEPT !.id = Nothing]

(* What a call for n is after: the zones that own it, or its records. *)
Sought(e, n) ==
    IF provider \in RecordListers THEN e.name = n ELSE e.public /\ InZone(n, e.name)

(* resolve_zone, or the listing, is called. *)
Begin(t, n) ==
    /\ ~Running(t)
    /\ zpc' = [zpc EXCEPT ![t] = "resolve"]
    /\ name' = [name EXCEPT ![t] = n]
    /\ at' = [at EXCEPT ![t] = IF provider = "hetzner" THEN Len(n) - 1 ELSE 1]
    /\ page' = [page EXCEPT ![t] = 1]
    /\ got' = [got EXCEPT ![t] = {}]
    /\ result' = [result EXCEPT ![t] = Nothing]
    /\ steady' = [steady EXCEPT ![t] = {e \in entries : Sought(e, n)}]
    /\ excused' = [excused EXCEPT ![t] = FALSE]
    /\ UNCHANGED <<provider, worldVars, cache, settled>>

(* The future is dropped at an await. *)
Cancel(t) ==
    /\ Running(t)
    /\ Return(t, "idle", Nothing)
    /\ UNCHANGED <<cache, excused>>

(* The name's zone is remembered. *)
CacheHit(t) ==
    /\ zpc[t] = "resolve"
    /\ provider \in Caching /\ cache[name[t]] # Nothing
    /\ Return(t, "ok", cache[name[t]].found)
    /\ UNCHANGED <<cache, excused>>

CacheMiss(t) ==
    /\ zpc[t] = "resolve"
    /\ provider \in Caching => cache[name[t]] = Nothing
    /\ zpc' = [zpc EXCEPT ![t] =
          IF provider \in ZoneListers \cup RecordListers THEN "list"
          ELSE IF provider = "desec" THEN "ask" ELSE "walk"]
    /\ UNCHANGED <<provider, worldVars, cache, name, at, page, got, result, steady, excused, settled>>

(* Mutant: the zone is remembered under its own name. *)
RememberByZone(t, key, e) ==
    cache' = [cache EXCEPT ![e.name] = [found |-> Reference(e), steady |-> steady[t]]]

(* zone_cache.insert(name, zone) *)
Remember(t, key, e) ==
    cache' = [cache EXCEPT ![key] = [found |-> Reference(e), steady |-> steady[t]]]

(* The next candidate, or ZoneNotFound: the bare TLD is never asked for. *)
NextCandidate(t) ==
    LET start == IF provider = "hetzner" THEN at[t] - 1 ELSE at[t] + 1 IN
    IF start \in 1..Len(name[t]) - 1
    THEN /\ at' = [at EXCEPT ![t] = start]
         /\ UNCHANGED <<provider, worldVars, zpc, name, page, got, result, steady, settled>>
    ELSE Return(t, "none", Nothing)

(* shared_resolver: the system's DNS configuration cannot be read. *)
NoResolver(t) ==
    /\ zpc[t] = "walk" /\ provider \in {"gandi", "cloudflare"} /\ at[t] = 1
    /\ Return(t, "err", Nothing)
    /\ UNCHANGED <<cache, excused>>

(* find_zone: the SOA lookup of the candidate.  One that fails is taken for
   an answer without a SOA. *)
SoaLookup(t) ==
    /\ zpc[t] = "walk" /\ provider \in {"gandi", "cloudflare"}
    /\ \/ NextCandidate(t) /\ excused' = [excused EXCEPT ![t] = TRUE]
       \/ Zones(Candidate(t)) = {} /\ NextCandidate(t) /\ UNCHANGED excused
       \/ /\ Zones(Candidate(t)) # {} /\ provider = "gandi"
          /\ \E e \in Zones(Candidate(t)) : Return(t, "ok", Reference(e))
          /\ UNCHANGED excused
       \/ /\ Zones(Candidate(t)) # {} /\ provider = "cloudflare"
          /\ zpc' = [zpc EXCEPT ![t] = "identify"]
          /\ UNCHANGED <<provider, worldVars, name, at, page, got, result, steady, excused, settled>>
    /\ UNCHANGED cache

(* Cloudflare's resolve_zone_id, with what it remembers of the zone's name.  A
   zone that is gone by now ends the call: no parent is tried. *)
ResolveZoneId(t) ==
    /\ zpc[t] = "identify"
    /\ \/ /\ cache[Candidate(t)] # Nothing
          /\ Return(t, "ok", cache[Candidate(t)].found)
          /\ UNCHANGED <<cache, excused>>
       \/ /\ cache[Candidate(t)] = Nothing
          /\ \/ /\ Return(t, "err", Nothing)
                /\ UNCHANGED <<cache, excused>>
             \/ /\ Zones(Candidate(t)) = {}
                /\ Return(t, "none", Nothing)
                /\ UNCHANGED <<cache, excused>>
             \/ \E e \in Zones(Candidate(t)) :
                /\ Return(t, "ok", e)
                /\ Remember(t, Candidate(t), e)
                /\ UNCHANGED excused

(* fetch_zone: the server is asked for the zone of the candidate's name; any
   failure but 404 ends the lookup. *)
FetchZone(t) ==
    /\ zpc[t] = "walk" /\ provider = "powerdns"
    /\ \/ Return(t, "err", Nothing) /\ UNCHANGED cache
       \/ Zones(Candidate(t)) = {} /\ NextCandidate(t) /\ UNCHANGED cache
       \/ \E e \in Zones(Candidate(t)) :
             Return(t, "ok", Reference(e)) /\ Remember(t, name[t], e)
    /\ UNCHANGED excused

(* find_public_zone: private zones do not count, and several public ones of
   one name are an error. *)
FindPublicZone(t) ==
    LET public == {e \in Zones(Candidate(t)) : e.public} IN
    /\ zpc[t] = "walk" /\ provider = "route53"
    /\ \/ Return(t, "err", Nothing) /\ UNCHANGED cache
       \/ public = {} /\ NextCandidate(t) /\ UNCHANGED cache
       \/ Cardinality(public) > 1 /\ Return(t, "err", Nothing) /\ UNCHANGED cache
       \/ \E e \in public :
             public = {e} /\ Return(t, "ok", Reference(e)) /\ Remember(t, name[t], e)
    /\ UNCHANGED excused

(* zone_exists: nothing is remembered. *)
ZoneExists(t) ==
    /\ zpc[t] = "walk" /\ provider = "hetzner"
    /\ \/ Return(t, "err", Nothing)
       \/ Zones(Candidate(t)) = {} /\ NextCandidate(t)
       \/ \E e \in Zones(Candidate(t)) : Return(t, "ok", Reference(e))
    /\ UNCHANGED <<cache, excused>>

(* Mutant: private zones count. *)
LongestOfAll(E, n) ==
    LET own == {e \in E : InZone(n, e.name)} IN
    {e \in own : \A f \in own : Len(f.name) <= Len(e.name)}

(* The public zones among E that own n and are as long as any. *)
Longest(E, n) ==
    LET own == {e \in E : e.public /\ InZone(n, e.name)} IN
    {e \in own : \A f \in own : Len(f.name) <= Len(e.name)}

(* deSEC's owns_qname. *)
AskOwner(t) ==
    /\ zpc[t] = "ask"
    /\ \/ Return(t, "err", Nothing)
       \/ Longest(entries, name[t]) = {} /\ Return(t, "none", Nothing)
       \/ \E e \in Longest(entries, name[t]) : Return(t, "ok", Reference(e))
    /\ UNCHANGED <<cache, excused>>

(* How many of E are listed before e. *)
Rank(E, e) == Cardinality({f \in E : f.id < e.id})

(* same_source: the records of the name. *)
RecordsOf(n, E) == {e \in E : e.name = n}

(* The end of a listing: the longest zone, the first of several at Google, or
   the records of the name. *)
Conclude(t, all) ==
    IF provider \in RecordListers
    THEN Return(t, "ok", RecordsOf(name[t], all))
    ELSE LET best == Longest(all, name[t]) IN
         IF best = {} THEN Return(t, "none", Nothing)
         ELSE \E e \in best : (\A f \in best : e.id <= f.id) /\ Return(t, "ok", Reference(e))

(* Mutant: a listing stops after MaxPages pages. *)
ReadSomePages(t, E, first) ==
    LET last == first + PageSize
        all == got[t] \cup {e \in E : first <= Rank(E, e) /\ Rank(E, e) < last}
        more == \E e \in E : Rank(E, e) >= last
    IN
    /\ zpc[t] = "list"
    /\ IF more /\ page[t] < MaxPages
       THEN /\ page' = [page EXCEPT ![t] = @ + 1]
            /\ got' = [got EXCEPT ![t] = all]
            /\ UNCHANGED <<provider, worldVars, zpc, name, at, result, steady, settled>>
       ELSE Conclude(t, all)
    /\ UNCHANGED <<cache, excused>>

(* One page of the listing of E, from the entry with the rank first on: the
   last page, one too many, or one before others. *)
ReadPage(t, E, first) ==
    LET last == first + PageSize
        all == got[t] \cup {e \in E : first <= Rank(E, e) /\ Rank(E, e) < last}
        more == \E e \in E : Rank(E, e) >= last
    IN
    /\ zpc[t] = "list"
    /\ \/ Return(t, "err", Nothing)
       \/ ~more /\ Conclude(t, all)
       \/ more /\ page[t] >= MaxPages /\ Return(t, "err", Nothing)
       \/ /\ more /\ page[t] < MaxPages
          /\ page' = [page EXCEPT ![t] = @ + 1]
          /\ got' = [got EXCEPT ![t] = all]
          /\ UNCHANGED <<provider, worldVars, zpc, name, at, result, steady, settled>>
    /\ UNCHANGED <<cache, excused>>

(* Pages are asked for by their number. *)
ReadNumbered(t, E) == ReadPage(t, E, (page[t] - 1) * PageSize)

(* Bunny's list_zones: the search is for the last two labels. *)
ListZones(t) ==
    LET search == SubSeq(name[t], Len(name[t]) - 1, Len(name[t])) IN
    /\ provider = "bunny"
    /\ ReadNumbered(t, {e \in entries : InZone(e.name, search)})

(* Google's resolve_zone: a page token names the last entry seen. *)
ListManagedZones(t) ==
    /\ provider = "google"
    /\ ReadPage(t, {e \in entries : \A g \in got[t] : e.id > g.id}, 0)

(* DigitalOcean's list_matching_records: the API filters by name. *)
ListMatchingRecords(t) ==
    /\ provider = "digitalocean"
    /\ ReadNumbered(t, {e \in entries : e.name = name[t]})

(* Infomaniak's list_txt_records: the TXT records of the whole zone. *)
ListTxtRecords(t) == provider = "infomaniak" /\ ReadNumbered(t, entries)

Step(t) ==
    \/ CacheHit(t) \/ CacheMiss(t) \/ NoResolver(t) \/ SoaLookup(t) \/ ResolveZoneId(t)
    \/ FetchZone(t) \/ FindPublicZone(t) \/ ZoneExists(t) \/ AskOwner(t)
    \/ ListZones(t) \/ ListManagedZones(t) \/ ListMatchingRecords(t) \/ ListTxtRecords(t)

ZoneNext ==
    \/ Others
    \/ \E t \in Tasks : Step(t) \/ Cancel(t) \/ \E n \in Names : Begin(t, n)

ZoneSpec == ZoneInit /\ [][ZoneNext]_zoneVars

-----------------------------------------------------------------------------

Returns(t, outcome) == zpc[t] # outcome /\ zpc'[t] = outcome

(* route53.rs:258-261, google_cloud_dns.rs:361-363, powerdns.rs:151-153: the
   zone a call returns, remembered or not, is public and owns its name. *)
FoundZoneOwnsName ==
    \A t \in Tasks :
        zpc[t] = "ok" /\ provider \notin RecordListers =>
            result[t].public /\ InZone(name[t], result[t].name)

(* zone.rs:26-27, powerdns.rs:151-153, bunny.rs:135-136: no lookup passes over a
   zone that was there from its start to its end: it returns one at least as
   close, and finds none only if there was none.  digitalocean.rs:189,
   infomaniak.rs:226: a listing has every record of the name that was there all
   along, however many pages it takes, or it fails.
   There are three exceptions.  Excused are a SOA lookup that failed and an
   entry deleted under a listing that counts pages.  And cloudflare.rs:184-187
   returns ZoneNotFound for the closest zone DNS showed if that zone is gone
   when its id is asked for: the zones further up are left out, no others. *)
NothingMissed ==
    [][\A t \in Tasks : ~excused'[t] =>
          /\ Returns(t, "none") =>
                \A e \in steady[t] : zpc[t] = "identify" /\ Len(e.name) < Len(Candidate(t))
          /\ Returns(t, "ok") /\ provider \in RecordListers => steady[t] \subseteq result'[t]
          /\ Returns(t, "ok") /\ provider \notin RecordListers =>
                LET hit == zpc[t] = "resolve" IN
                \A e \in IF hit THEN cache[name[t]].steady ELSE steady[t] :
                    Len(e.name) <= Len(result'[t].name)]_zoneVars

(* powerdns.rs:103-104, route53.rs:138-139: cleanup goes where present went,
   although zones come and go: the zone of a name is settled by the first call
   that no other call overlaps. *)
SameZone ==
    [][\A t \in Tasks :
          Returns(t, "ok") /\ settled[name[t]] # Nothing
          => result'[t] = settled[name[t]]]_zoneVars
=============================================================================

----------------------------- MODULE ZoneProofs ------------------------------
(***************************************************************************)
(* Every lookup of a zone and every listing, for all names, zones, sizes   *)
(* of pages and numbers of calls.                                          *)
(*                                                                         *)
(* NothingMissed is not inductive: the invariant says that what was there  *)
(* since a call began was read or is still ahead, on a page that was not   *)
(* asked for or at a candidate not longer than this one.  SameZone needs   *)
(* that a name with a settled zone has it in the cache and no call past    *)
(* the cache.                                                              *)
(***************************************************************************)
EXTENDS ZoneResolution, FiniteSetTheorems, WellFoundedInduction, TLAPS

-----------------------------------------------------------------------------
(* Numbers and names. *)

(* A set of numbers has a smallest, and below a bound also a largest. *)
LEMMA SmallestOf ==
    ASSUME NEW S, S \subseteq Nat, S # {} PROVE \E x \in S : \A y \in S : x <= y
<1>1. PICK x \in S : \A y \in S : ~(<<y, x>> \in OpToRel(<, Nat))
  BY WFMin, NatLessThanWellFounded, Zenon
<1>2. x \in Nat /\ \A y \in S : y \in Nat /\ ~(y < x)
  BY <1>1, Zenon DEF OpToRel
<1>3. \A y \in S : x <= y
  BY <1>2
<1> QED
  BY <1>1, <1>3, Zenon

LEMMA LargestOf ==
    ASSUME NEW S, S # {}, NEW b \in Nat, \A x \in S : x \in 0..b
    PROVE  \E x \in S : \A y \in S : y <= x
<1> DEFINE U == {b - x : x \in S}
<1>1. U \subseteq Nat /\ U # {}
  OBVIOUS
<1>2. PICK u \in U : \A v \in U : u <= v
  BY <1>1, SmallestOf, Zenon
<1>3. PICK x \in S : u = b - x
  BY Zenon
<1>4. \A y \in S : b - x <= b - y
  BY <1>2, <1>3, Zenon
<1> QED
  BY <1>4

(* The zones that own a name are its suffixes, one of each length. *)
LEMMA ZoneOfLength ==
    ASSUME NEW n \in Seq(STRING), NEW z, InZone(n, z)
    PROVE  /\ Len(z) \in 1..Len(n) /\ Len(n) \in Nat
           /\ z = SubSeq(n, Len(n) - Len(z) + 1, Len(n))
<1>1. PICK i \in 1..Len(n) : z = SubSeq(n, i, Len(n))
  BY Zenon DEF InZone
<1>2. Len(z) = Len(n) - i + 1
  BY <1>1
<1> QED
  BY <1>1, <1>2

(* The last two labels of a name are those of each of its zones. *)
LEMMA SearchFinds ==
    ASSUME NEW n \in Seq(STRING), NEW z, InZone(n, z), Len(z) >= 2
    PROVE  InZone(z, SubSeq(n, Len(n) - 1, Len(n)))
<1>1. PICK i \in 1..Len(n) : z = SubSeq(n, i, Len(n))
  BY Zenon DEF InZone
<1>2. /\ Len(z) = Len(n) - i + 1 /\ Len(z) - 1 \in 1..Len(z) /\ Len(z) - 1 = Len(n) - i
      /\ Len(n) >= 2 /\ i \in 1..Len(n) - 1
  BY <1>1
<1>3. SubSeq(n, Len(n) - 1, Len(n)) = SubSeq(SubSeq(n, i, Len(n)), Len(n) - i, Len(n) - i + 1)
  BY <1>2, SMTT(30)
<1>4. SubSeq(n, Len(n) - 1, Len(n)) = SubSeq(z, Len(z) - 1, Len(z))
  BY <1>1, <1>2, <1>3, Zenon
<1> QED
  BY <1>2, <1>4, Zenon DEF InZone

(* Of two zones that own a name one is inside the other. *)
LEMMA Nested ==
    ASSUME NEW n \in Seq(STRING), NEW y, InZone(n, y), NEW z, InZone(n, z), Len(z) <= Len(y)
    PROVE  InZone(y, z)
<1>1. PICK i \in 1..Len(n) : y = SubSeq(n, i, Len(n))
  BY Zenon DEF InZone
<1>2. PICK j \in 1..Len(n) : z = SubSeq(n, j, Len(n))
  BY Zenon DEF InZone
<1>3. /\ Len(y) = Len(n) - i + 1 /\ Len(z) = Len(n) - j + 1 /\ Len(n) \in Nat /\ i <= j
      /\ j - i + 1 \in 1..Len(y)
  BY <1>1, <1>2
<1>4. SubSeq(n, j, Len(n)) = SubSeq(SubSeq(n, i, Len(n)), j - i + 1, Len(n) - i + 1)
  BY <1>3, SMTT(30)
<1>5. z = SubSeq(y, j - i + 1, Len(y))
  BY <1>1, <1>2, <1>3, <1>4, Zenon
<1> QED
  BY <1>3, <1>5, Zenon DEF InZone

(* Of the public zones that own a name there is a longest one. *)
LEMMA LongestFacts ==
    ASSUME NEW E, NEW n \in Seq(STRING)
    PROVE  /\ \A e \in Longest(E, n) :
                 /\ e \in E /\ e.public /\ InZone(n, e.name)
                 /\ \A f \in E : f.public /\ InZone(n, f.name) => Len(f.name) <= Len(e.name)
           /\ Longest(E, n) = {} => \A f \in E : ~(f.public /\ InZone(n, f.name))
<1> DEFINE own == {e \in E : e.public /\ InZone(n, e.name)}
<1>1. \A e \in own : Len(e.name) \in 0..Len(n) /\ Len(n) \in Nat
  BY ZoneOfLength
<1>2. ASSUME NEW f \in own PROVE Longest(E, n) # {}
  <2> DEFINE L == {Len(e.name) : e \in own}
  <2>1. L # {}
    BY ZenonT(30)
  <2>2. \A x \in L : x \in 0..Len(n)
    BY <1>1, Zenon
  <2>3. PICK x \in L : \A y \in L : y <= x
    <3>1. Len(n) \in Nat
      OBVIOUS
    <3> HIDE DEF L
    <3> QED
      BY <2>1, <2>2, <3>1, LargestOf, Zenon
  <2>4. PICK e \in own : x = Len(e.name)
    BY Zenon
  <2>5. e \in Longest(E, n)
    BY <2>3, <2>4, Zenon DEF Longest
  <2> QED
    BY <2>5, Zenon
<1> QED
  BY <1>2, Zenon DEF Longest

-----------------------------------------------------------------------------
(* The zones. *)

Listers == ZoneListers \cup RecordListers

LiveEntry == [id : Nat, name : Names \cup ZoneNames, public : BOOLEAN]

ZoneTypeOK ==
    /\ changes \in Nat /\ entries \subseteq LiveEntry /\ IsFiniteSet(entries)
    /\ cache \in [Names \cup ZoneNames -> [found : Entry, steady : SUBSET Entry] \cup {Nothing}]
    /\ zpc \in [Tasks -> {"idle", "resolve", "walk", "identify", "ask", "list", "ok", "none", "err"}]
    /\ name \in [Tasks -> Seq(STRING)] /\ DOMAIN result = Tasks /\ DOMAIN settled = Names
    /\ at \in [Tasks -> Nat] /\ page \in [Tasks -> Nat]
    /\ got \in [Tasks -> SUBSET LiveEntry] /\ steady \in [Tasks -> SUBSET LiveEntry]
    /\ excused \in [Tasks -> BOOLEAN]

(* Ids tell entries apart and grow; what is not public; none of Hetzner's zones
   is inside another. *)
EntriesInv ==
    /\ \A e \in entries : e.id < changes
    /\ \A e \in entries, f \in entries : e.id = f.id => e = f
    /\ provider \notin {"route53", "google"} => \A e \in entries : e.public
    /\ provider = "hetzner" => \A e \in entries, f \in entries : InZone(e.name, f.name) => e = f

(* A zone that is remembered owns what it is remembered for, and is as close as
   any that was there when it was looked up. *)
CachedRight(k, c) ==
    /\ c.found.public
    /\ provider = "cloudflare" => c.found.name = k
    /\ provider \in Caching =>
          InZone(k, c.found.name) /\ \A e \in c.steady : Len(e.name) <= Len(c.found.name)

CacheInv == \A k \in Names \cup ZoneNames : cache[k] # Nothing => CachedRight(k, cache[k])

(* What the calls of a lister list. *)
Listed(t) ==
    IF provider = "bunny"
    THEN {e \in entries : InZone(e.name, SubSeq(name[t], Len(name[t]) - 1, Len(name[t])))}
    ELSE IF provider = "digitalocean" THEN {e \in entries : e.name = name[t]} ELSE entries

(* e was read, or is on a page that was not asked for yet. *)
ReadOrAhead(t, e) ==
    \/ e \in got[t]
    \/ provider = "google" /\ \A g \in got[t] : e.id > g.id
    \/ provider # "google" /\ Rank(Listed(t), e) >= (page[t] - 1) * PageSize

(* e is not longer than the candidate; at Hetzner, which asks for the shortest
   first, it is not shorter. *)
NotPassed(t, e) ==
    IF provider = "hetzner" THEN Len(name[t]) - at[t] + 1 <= Len(e.name)
    ELSE Len(e.name) <= Len(name[t]) - at[t] + 1

(* The call finds none although e is there: the zone that was found before it is
   gone, and e is further up. *)
LeftOut(t, e) == zpc[t] = "identify" /\ Len(e.name) < Len(Candidate(t))

ZoneCallInv(t) ==
    /\ Running(t) =>
          /\ name[t] \in Names /\ steady[t] \subseteq entries
          /\ \A e \in steady[t] : Sought(e, name[t])
    /\ zpc[t] = "resolve" =>
          /\ page[t] = 1 /\ got[t] = {}
          /\ at[t] = IF provider = "hetzner" THEN Len(name[t]) - 1 ELSE 1
    /\ zpc[t] \in {"walk", "identify"} =>
          /\ at[t] \in 1..Len(name[t]) - 1 /\ provider \notin Listers
          /\ ~excused[t] => \A e \in steady[t] : NotPassed(t, e)
    /\ zpc[t] = "identify" =>
          provider = "cloudflare" /\ Candidate(t) \in Names \cup ZoneNames
    /\ zpc[t] = "ask" => provider = "desec"
    /\ zpc[t] = "list" =>
          /\ provider \in Listers /\ page[t] > 0
          /\ ~excused[t] => \A e \in steady[t] : ReadOrAhead(t, e)
    /\ provider \in Caching => ~excused[t]
    /\ zpc[t] = "ok" /\ provider \notin RecordListers =>
          result[t].public /\ InZone(name[t], result[t].name)

(* A zone that is settled stays in the cache, and whoever has not looked there
   yet finds it. *)
SettledInv ==
    \A n \in Names : settled[n] # Nothing =>
        /\ provider \in Caching /\ cache[n] # Nothing /\ cache[n].found = settled[n]
        /\ \A t \in Tasks : Running(t) /\ name[t] = n => zpc[t] = "resolve"

ZoneInv ==
    /\ ZoneTypeOK /\ EntriesInv /\ CacheInv /\ SettledInv
    /\ \A t \in Tasks : ZoneCallInv(t)

(* What SameZone and NothingMissed say of a step. *)
ReturnsRight(t) ==
    /\ Returns(t, "ok") /\ settled[name[t]] # Nothing => result'[t] = settled[name[t]]
    /\ ~excused'[t] =>
          /\ Returns(t, "none") => \A e \in steady[t] : LeftOut(t, e)
          /\ Returns(t, "ok") /\ provider \in RecordListers => steady[t] \subseteq result'[t]
          /\ Returns(t, "ok") /\ provider \notin RecordListers =>
                \A e \in IF zpc[t] = "resolve" THEN cache[name[t]].steady ELSE steady[t] :
                    Len(e.name) <= Len(result'[t].name)

ZoneStepOK == ZoneInv' /\ \A t \in Tasks : ReturnsRight(t)

(* A call that nothing happens to stays as it is. *)
LEMMA OtherCalls ==
    ASSUME NEW u \in Tasks, ZoneCallInv(u),
           provider' = provider, entries' = entries,
           zpc'[u] = zpc[u], name'[u] = name[u], at'[u] = at[u], page'[u] = page[u],
           got'[u] = got[u], result'[u] = result[u], steady'[u] = steady[u], excused'[u] = excused[u]
    PROVE  ZoneCallInv(u)'
<1>1. Running(u)' = Running(u) /\ Listed(u)' = Listed(u) /\ Candidate(u)' = Candidate(u)
  BY Zenon DEF Running, Listed, Candidate
<1>2. \A e : ReadOrAhead(u, e)' = ReadOrAhead(u, e) /\ NotPassed(u, e)' = NotPassed(u, e)
  BY <1>1, Zenon DEF ReadOrAhead, NotPassed
<1> QED
  BY <1>1, <1>2, Zenon DEF ZoneCallInv, Sought

(* What is told of a zone is its name and whether it is public. *)
LEMMA ReferenceFacts ==
    ASSUME NEW e \in LiveEntry
    PROVE  /\ Reference(e) \in Entry /\ Reference(e).name = e.name /\ Reference(e).public = e.public
<1>1. e \in Entry /\ [e EXCEPT !.id = Nothing] \in Entry
  BY Zenon DEF LiveEntry, Entry
<1>2. [e EXCEPT !.id = Nothing].name = e.name /\ [e EXCEPT !.id = Nothing].public = e.public
  BY Zenon DEF LiveEntry
<1> QED
  BY <1>1, <1>2, Zenon DEF Reference

(* A step in which no call returns says nothing of results. *)
LEMMA NoneReturns ==
    ASSUME NEW t \in Tasks, zpc'[t] \notin {"ok", "none"} \/ zpc'[t] = zpc[t]
    PROVE  ReturnsRight(t)
BY Zenon DEF ReturnsRight, Returns

(* What makes the end of a call right: the zone owns the name and is the one
   remembered, and nothing was missed. *)
AnswerRight(t, outcome, found) ==
    /\ outcome = "ok" /\ provider \notin RecordListers => found.public /\ InZone(name[t], found.name)
    /\ outcome = "ok" /\ provider \in Caching =>
          /\ cache'[name[t]] # Nothing /\ cache'[name[t]].found = found
          /\ settled[name[t]] # Nothing => found = settled[name[t]]
    /\ ~excused'[t] =>
          /\ outcome = "none" => \A e \in steady[t] : LeftOut(t, e)
          /\ outcome = "ok" /\ provider \in RecordListers => steady[t] \subseteq found
          /\ outcome = "ok" /\ provider \notin RecordListers =>
                \A e \in IF zpc[t] = "resolve" THEN cache[name[t]].steady ELSE steady[t] :
                    Len(e.name) <= Len(found.name)

(* What is remembered stays right, and what is settled stays in the cache. *)
CacheGrows ==
    /\ cache' \in [Names \cup ZoneNames -> [found : Entry, steady : SUBSET Entry] \cup {Nothing}]
    /\ CacheInv'
    /\ \A n \in Names : settled[n] # Nothing => cache'[n] = cache[n]

LEMMA ReturnKeeps ==
    ASSUME ZoneInv, NEW t \in Tasks, Running(t),
           NEW outcome \in {"idle", "ok", "none", "err"}, NEW found, Return(t, outcome, found),
           \/ excused' = excused
           \/ excused' = [excused EXCEPT ![t] = TRUE] /\ provider \notin Caching,
           CacheGrows, AnswerRight(t, outcome, found)
    PROVE  ZoneStepOK
<1> USE DEF Return, worldVars
<1>1. /\ provider' = provider /\ entries' = entries /\ changes' = changes /\ name' = name
      /\ name[t] \in Names
  BY Zenon DEF ZoneInv, ZoneCallInv
<1>2. /\ zpc'[t] = outcome /\ result'[t] = found /\ steady'[t] = {} /\ got'[t] = {}
      /\ \A u \in Tasks \ {t} :
            /\ zpc'[u] = zpc[u] /\ at'[u] = at[u] /\ page'[u] = page[u] /\ got'[u] = got[u]
            /\ result'[u] = result[u] /\ steady'[u] = steady[u] /\ excused'[u] = excused[u]
  BY Zenon DEF ZoneInv, ZoneTypeOK
<1>3. ZoneTypeOK'
  <2>1. /\ zpc' \in [Tasks -> {"idle", "resolve", "walk", "identify", "ask", "list", "ok", "none", "err"}]
        /\ at' \in [Tasks -> Nat] /\ page' \in [Tasks -> Nat]
        /\ got' \in [Tasks -> SUBSET LiveEntry] /\ steady' \in [Tasks -> SUBSET LiveEntry]
        /\ excused' \in [Tasks -> BOOLEAN] /\ DOMAIN result' = Tasks /\ DOMAIN settled' = Names
    BY Zenon DEF ZoneInv, ZoneTypeOK
  <2> QED
    BY <1>1, <2>1, ZenonT(30) DEF ZoneInv, ZoneTypeOK, CacheGrows
<1>4. EntriesInv'
  BY <1>1, Zenon DEF ZoneInv, EntriesInv
<1>5. ZoneCallInv(t)'
  <2>1. provider \in Caching => ~excused'[t]
    BY Zenon DEF ZoneInv, ZoneCallInv
  <2>2. (zpc'[t] = "ok" /\ provider' \notin RecordListers) =>
            (result'[t].public /\ InZone(name'[t], result'[t].name))
    BY <1>1, <1>2, Zenon DEF AnswerRight
  <2>3. zpc'[t] \in {"idle", "ok", "none", "err"}
    BY <1>2, Zenon
  <2>4. zpc'[t] \notin {"resolve", "walk", "identify", "ask", "list"}
    BY <2>3, Zenon
  <2> QED
    BY <1>1, <2>1, <2>2, <2>3, <2>4, Zenon DEF ZoneCallInv, Running
<1>6. \A u \in Tasks : ZoneCallInv(u)'
  BY <1>1, <1>2, <1>5, OtherCalls, Zenon DEF ZoneInv
<1>7. SettledInv'
  <2> SUFFICES ASSUME NEW n \in Names, settled'[n] # Nothing
               PROVE  /\ provider \in Caching /\ cache'[n] # Nothing /\ cache'[n].found = settled'[n]
                      /\ \A u \in Tasks : (Running(u)' /\ name[u] = n) => zpc'[u] = "resolve"
    BY <1>1 DEF SettledInv
  <2>0. \A u \in Tasks : Running(u)' => u # t /\ Running(u) /\ zpc'[u] = zpc[u]
    BY <1>2, Zenon DEF Running
  <2>1. CASE settled'[n] = settled[n]
    BY <2>0, <2>1, Zenon DEF ZoneInv, SettledInv, CacheGrows
  <2>2. CASE settled'[n] # settled[n]
    <3>1. /\ outcome = "ok" /\ provider \in Caching /\ \A u \in Tasks \ {t} : Running(u) => name[u] # name[t]
          /\ settled' = [settled EXCEPT ![name[t]] = found]
      BY <2>2, Zenon
    <3>2. n = name[t] /\ settled'[n] = found
      BY <1>1, <2>2, <3>1, Zenon DEF ZoneInv, ZoneTypeOK
    <3> QED
      BY <2>0, <3>1, <3>2, Zenon DEF AnswerRight
  <2> QED
    BY <2>1, <2>2, ZenonT(30)
<1>8. ReturnsRight(t)
  <2>1. settled[name[t]] # Nothing => provider \in Caching
    BY <1>1, Zenon DEF ZoneInv, SettledInv
  <2> QED
    BY <1>2, <2>1, Zenon DEF ReturnsRight, Returns, AnswerRight
<1> QED
  BY <1>2, <1>3, <1>4, <1>6, <1>7, <1>8, NoneReturns, Zenon DEF ZoneStepOK, ZoneInv, CacheGrows

(* A step of a call that does not end it. *)
LEMMA MoveKeeps ==
    ASSUME ZoneInv, ZoneTypeOK', NEW t \in Tasks, Running(t), zpc'[t] \notin {"ok", "none"},
           UNCHANGED <<provider, worldVars, cache, name, settled>>,
           zpc[t] = "resolve" => settled[name[t]] = Nothing,
           \A u \in Tasks \ {t} :
               /\ zpc'[u] = zpc[u] /\ at'[u] = at[u] /\ page'[u] = page[u] /\ got'[u] = got[u]
               /\ result'[u] = result[u] /\ steady'[u] = steady[u] /\ excused'[u] = excused[u],
           ZoneCallInv(t)'
    PROVE  ZoneStepOK
<1>1. /\ provider' = provider /\ entries' = entries /\ changes' = changes /\ name' = name
      /\ cache' = cache /\ settled' = settled
  BY Zenon DEF worldVars
<1>2. EntriesInv'
  BY <1>1, Zenon DEF ZoneInv, EntriesInv
<1>3. CacheInv'
  BY <1>1, ZenonT(30) DEF ZoneInv, CacheInv, CachedRight
<1>4. \A u \in Tasks : ZoneCallInv(u)'
  BY <1>1, OtherCalls, Zenon DEF ZoneInv
<1>5. SettledInv'
  <2>1. name[t] \in Names
    BY Zenon DEF ZoneInv, ZoneCallInv
  <2>2. settled[name[t]] = Nothing
    BY <2>1, Zenon DEF ZoneInv, SettledInv
  <2>3. \A u \in Tasks : (Running(u)' /\ u # t) => (Running(u) /\ zpc'[u] = zpc[u])
    BY Zenon DEF Running
  <2>4. ASSUME NEW n \in Names, settled[n] # Nothing, NEW u \in Tasks, Running(u)', name[u] = n
        PROVE  zpc'[u] = "resolve"
    <3>1. u # t
      BY <2>2, <2>4, Zenon
    <3> QED
      BY <2>3, <2>4, <3>1, Zenon DEF ZoneInv, SettledInv
  <2>5. ASSUME NEW n \in Names, settled[n] # Nothing
        PROVE  /\ provider \in Caching /\ cache[n] # Nothing /\ cache[n].found = settled[n]
               /\ \A u \in Tasks : (Running(u)' /\ name[u] = n) => zpc'[u] = "resolve"
    BY <2>4, <2>5, ZenonT(30) DEF ZoneInv, SettledInv
  <2>6. ASSUME NEW n \in Names, settled'[n] # Nothing
        PROVE  /\ provider' \in Caching /\ cache'[n] # Nothing /\ cache'[n].found = settled'[n]
               /\ \A u \in Tasks : (Running(u)' /\ name'[u] = n) => zpc'[u] = "resolve"
    BY <1>1, <2>5, <2>6
  <2> QED
    BY <2>6, Zenon DEF SettledInv
<1>6. \A u \in Tasks : ReturnsRight(u)
  BY NoneReturns, Zenon
<1> QED
  BY <1>2, <1>3, <1>4, <1>5, <1>6, Zenon DEF ZoneStepOK, ZoneInv

(* Nothing new is remembered. *)
LEMMA CacheKept ==
    ASSUME ZoneInv, provider' = provider, cache' = cache PROVE CacheGrows
<1>1. CacheInv'
  BY Zenon DEF ZoneInv, CacheInv, CachedRight
<1> QED
  BY <1>1, Zenon DEF ZoneInv, ZoneTypeOK, CacheGrows

(* A call that ends without a zone. *)
LEMMA GivesUp ==
    ASSUME ZoneInv, NEW t \in Tasks, Running(t), NEW outcome \in {"idle", "err"},
           Return(t, outcome, Nothing), UNCHANGED <<cache, excused>>
    PROVE  ZoneStepOK
<1>1. AnswerRight(t, outcome, Nothing) /\ provider' = provider
  BY Zenon DEF AnswerRight, Return
<1>2. CacheGrows
  BY <1>1, CacheKept, Zenon
<1> QED
  BY <1>1, <1>2, ReturnKeeps, Zenon

LEMMA NamesFacts ==
    ASSUME NEW n \in Names \cup ZoneNames PROVE n \in Seq(STRING) /\ Len(n) \in Nat /\ Len(n) >= 2
BY ZoneAssumption

LEMMA BeginKeeps ==
    ASSUME ZoneInv, NEW t \in Tasks, NEW n \in Names, Begin(t, n) PROVE ZoneStepOK
<1> USE DEF Begin, worldVars
<1>0. /\ provider' = provider /\ entries' = entries /\ changes' = changes
      /\ cache' = cache /\ settled' = settled
  BY Zenon
<1>a. n \in Seq(STRING) /\ Len(n) \in Nat /\ Len(n) >= 2
  BY NamesFacts, Zenon
<1>1. /\ zpc'[t] = "resolve" /\ name'[t] = n /\ page'[t] = 1 /\ got'[t] = {}
      /\ at'[t] = (IF provider = "hetzner" THEN Len(n) - 1 ELSE 1)
      /\ steady'[t] = {e \in entries : Sought(e, n)} /\ excused'[t] = FALSE
  BY Zenon DEF ZoneInv, ZoneTypeOK
<1>2. \A u \in Tasks \ {t} :
            /\ zpc'[u] = zpc[u] /\ name'[u] = name[u] /\ at'[u] = at[u] /\ page'[u] = page[u]
            /\ got'[u] = got[u] /\ result'[u] = result[u] /\ steady'[u] = steady[u]
            /\ excused'[u] = excused[u]
  BY Zenon DEF ZoneInv, ZoneTypeOK
<1>3. ZoneTypeOK'
  <2>1. /\ zpc' \in [Tasks -> {"idle", "resolve", "walk", "identify", "ask", "list", "ok", "none", "err"}]
        /\ name' \in [Tasks -> Seq(STRING)] /\ DOMAIN result' = Tasks
    BY <1>a, Zenon DEF ZoneInv, ZoneTypeOK
  <2>2. /\ at' \in [Tasks -> Nat] /\ page' \in [Tasks -> Nat]
    BY <1>a, SMTT(30) DEF ZoneInv, ZoneTypeOK
  <2>3. /\ got' \in [Tasks -> SUBSET LiveEntry] /\ steady' \in [Tasks -> SUBSET LiveEntry]
        /\ excused' \in [Tasks -> BOOLEAN]
    BY Zenon DEF ZoneInv, ZoneTypeOK
  <2> QED
    BY <1>0, <2>1, <2>2, <2>3, ZenonT(30) DEF ZoneInv, ZoneTypeOK
<1>4. ZoneCallInv(t)'
  <2>1. /\ zpc'[t] \notin {"walk", "identify", "ask", "list", "ok"} /\ Running(t)'
    BY <1>1, Zenon DEF Running
  <2>2. steady'[t] \subseteq entries /\ \A e \in steady'[t] : Sought(e, n)
    BY <1>1, Zenon
  <2>3. \A e \in steady'[t] : Sought(e, name[t])'
    BY <1>0, <1>1, <2>2, Zenon DEF Sought
  <2> QED
    BY <1>0, <1>1, <2>1, <2>2, <2>3, ZenonT(30) DEF ZoneCallInv
<1>5. \A u \in Tasks : ZoneCallInv(u)'
  BY <1>0, <1>2, <1>4, OtherCalls, Zenon DEF ZoneInv
<1>6. EntriesInv' /\ CacheInv'
  BY <1>0, Zenon DEF ZoneInv, EntriesInv, CacheInv, CachedRight
<1>7. SettledInv'
  <2>1. \A u \in Tasks : (Running(u)' /\ u # t) => (Running(u) /\ zpc'[u] = zpc[u])
    BY <1>2, Zenon DEF Running
  <2>2. ASSUME NEW m \in Names, settled[m] # Nothing, NEW u \in Tasks, Running(u)', name'[u] = m
        PROVE  zpc'[u] = "resolve"
    BY <1>1, <1>2, <2>1, <2>2, ZenonT(90) DEF ZoneInv, SettledInv
  <2> QED
    BY <1>0, <2>2, Zenon DEF ZoneInv, SettledInv
<1>8. \A u \in Tasks : ReturnsRight(u)
  <2>1. zpc'[t] \notin {"ok", "none"}
    BY <1>1, Zenon
  <2> QED
    BY <1>2, <2>1, NoneReturns, Zenon
<1> QED
  BY <1>3, <1>5, <1>6, <1>7, <1>8, ZenonT(30) DEF ZoneStepOK, ZoneInv

LEMMA CacheHitKeeps ==
    ASSUME ZoneInv, NEW t \in Tasks, CacheHit(t) PROVE ZoneStepOK
<1> DEFINE c == cache[name[t]]
<1>1. Running(t) /\ zpc[t] = "resolve" /\ provider \in Caching /\ c # Nothing
  BY Zenon DEF CacheHit, Running
<1>2. name[t] \in Names /\ CachedRight(name[t], c) /\ (settled[name[t]] # Nothing => c.found = settled[name[t]])
  BY <1>1, Zenon DEF ZoneInv, ZoneCallInv, CacheInv, SettledInv
<1>3. provider' = provider /\ cache' = cache /\ excused' = excused /\ Return(t, "ok", c.found)
  BY Zenon DEF CacheHit, Return
<1>4. provider \notin RecordListers
  BY <1>1, Zenon DEF Caching, RecordListers
<1>5. AnswerRight(t, "ok", c.found)
  BY <1>1, <1>2, <1>3, <1>4, Zenon DEF AnswerRight, CachedRight
<1> QED
  BY <1>1, <1>3, <1>5, CacheKept, ReturnKeeps, Zenon

(* The ranks of entries are numbers. *)
LEMMA RankType ==
    ASSUME NEW E, IsFiniteSet(E), NEW e PROVE Rank(E, e) \in Nat
<1> DEFINE R == {f \in E : f.id < e.id}
<1>1. R \subseteq E
  BY Zenon
<1>2. IsFiniteSet(R)
  BY <1>1, FS_Subset, Zenon
<1> HIDE DEF R
<1>3. Cardinality(R) \in Nat
  BY <1>2, FS_CardinalityType, Zenon
<1> QED
  BY <1>3, Zenon DEF R, Rank

LEMMA ListedFinite ==
    ASSUME ZoneInv, NEW t \in Tasks PROVE Listed(t) \subseteq entries /\ IsFiniteSet(Listed(t))
<1>1. Listed(t) \subseteq entries
  BY Zenon DEF Listed
<1> QED
  BY <1>1, FS_Subset, Zenon DEF ZoneInv, ZoneTypeOK

(* What a call that is running knows of its name and of what it looks for. *)
LEMMA CallFacts ==
    ASSUME ZoneInv, NEW t \in Tasks, Running(t)
    PROVE  /\ name[t] \in Names /\ name[t] \in Seq(STRING) /\ Len(name[t]) \in Nat /\ Len(name[t]) >= 2
           /\ at[t] \in Nat /\ page[t] \in Nat /\ steady[t] \subseteq entries
           /\ \A e \in entries : /\ e \in LiveEntry /\ e.id \in Nat /\ e.name \in Seq(STRING)
                                 /\ Len(e.name) \in Nat /\ Len(e.name) >= 2
           /\ \A e \in steady[t] : Sought(e, name[t])
           /\ provider \notin RecordListers =>
                 \A e \in steady[t] : e.public /\ InZone(name[t], e.name) /\ Len(e.name) <= Len(name[t])
<1>1. name[t] \in Names /\ steady[t] \subseteq entries /\ \A e \in steady[t] : Sought(e, name[t])
  BY Zenon DEF ZoneInv, ZoneCallInv
<1>2. name[t] \in Seq(STRING) /\ Len(name[t]) \in Nat /\ Len(name[t]) >= 2
  BY <1>1, NamesFacts, Zenon
<1>3. at[t] \in Nat /\ page[t] \in Nat
  BY Zenon DEF ZoneInv, ZoneTypeOK
<1>4. \A e \in entries : e \in LiveEntry /\ e.id \in Nat /\ e.name \in Names \cup ZoneNames
  BY Zenon DEF ZoneInv, ZoneTypeOK, LiveEntry
<1>5. \A e \in entries : e.name \in Seq(STRING) /\ Len(e.name) \in Nat /\ Len(e.name) >= 2
  BY <1>4, NamesFacts, Zenon
<1>6. ASSUME provider \notin RecordListers, NEW e \in steady[t]
      PROVE  e.public /\ InZone(name[t], e.name) /\ Len(e.name) <= Len(name[t])
  <2>1. e.public /\ InZone(name[t], e.name)
    BY <1>1, <1>6, Zenon DEF Sought
  <2>2. Len(e.name) \in 1..Len(name[t])
    BY <1>2, <2>1, ZoneOfLength, Zenon
  <2> QED
    BY <2>1, <2>2, <1>2, SMTT(30)
<1> QED
  BY <1>1, <1>2, <1>3, <1>4, <1>5, <1>6, Zenon

LEMMA CacheMissKeeps ==
    ASSUME ZoneInv, NEW t \in Tasks, CacheMiss(t) PROVE ZoneStepOK
<1> USE DEF CacheMiss, worldVars
<1>1. Running(t) /\ zpc[t] = "resolve" /\ name[t] \in Names
  BY Zenon DEF ZoneInv, ZoneCallInv, Running
<1>2. settled[name[t]] = Nothing
  BY <1>1, Zenon DEF ZoneInv, SettledInv
<1>3. /\ page[t] = 1 /\ got[t] = {}
      /\ at[t] = IF provider = "hetzner" THEN Len(name[t]) - 1 ELSE 1
  BY <1>1, Zenon DEF ZoneInv, ZoneCallInv
<1> DEFINE next == IF provider \in Listers THEN "list"
                   ELSE IF provider = "desec" THEN "ask" ELSE "walk"
<1>4. zpc' = [zpc EXCEPT ![t] = next]
  BY Zenon DEF Listers
<1>4a. next \in {"list", "ask", "walk"}
  BY Zenon
<1>5. zpc'[t] = next /\ \A u \in Tasks \ {t} : zpc'[u] = zpc[u]
  BY <1>4, Zenon DEF ZoneInv, ZoneTypeOK
<1>6. ZoneTypeOK'
  <2>1. zpc' \in [Tasks -> {"idle", "resolve", "walk", "identify", "ask", "list", "ok", "none", "err"}]
    BY <1>4, <1>4a, ZenonT(30) DEF ZoneInv, ZoneTypeOK
  <2> QED
    BY <2>1, Zenon DEF ZoneInv, ZoneTypeOK
<1>7. ASSUME NEW e \in steady[t] PROVE ReadOrAhead(t, e)
  <2>1. Rank(Listed(t), e) \in Nat
    BY ListedFinite, RankType, Zenon
  <2>2. Rank(Listed(t), e) >= (page[t] - 1) * PageSize
    BY <1>3, <2>1, ZoneAssumption, SMTT(30)
  <2> QED
    BY <1>3, <2>2, Zenon DEF ReadOrAhead
<1>8. ASSUME NEW e \in steady[t], provider \notin Listers PROVE NotPassed(t, e)
  <2>1. /\ Len(e.name) <= Len(name[t]) /\ Len(name[t]) \in Nat
        /\ Len(e.name) \in Nat /\ Len(e.name) >= 2
    <3>1. provider \notin RecordListers /\ e \in entries
      BY <1>1, <1>8, CallFacts, Zenon DEF Listers
    <3> QED
      BY <1>1, <3>1, CallFacts, Zenon
  <2>2. provider = "hetzner" => Len(name[t]) - at[t] + 1 <= Len(e.name)
    <3>1. provider = "hetzner" => at[t] = Len(name[t]) - 1
      BY <1>3, Zenon
    <3> QED
      BY <2>1, <3>1
  <2>3. provider # "hetzner" => Len(e.name) <= Len(name[t]) - at[t] + 1
    <3>1. provider # "hetzner" => at[t] = 1
      BY <1>3, Zenon
    <3> QED
      BY <2>1, <3>1
  <2> QED
    BY <2>2, <2>3, Zenon DEF NotPassed
<1>9. provider \notin Listers => at[t] \in 1..Len(name[t]) - 1
  BY <1>1, <1>3, CallFacts
<1>10. ZoneCallInv(t)'
  <2>0. /\ provider' = provider /\ entries' = entries /\ name' = name /\ at' = at /\ page' = page
        /\ got' = got /\ result' = result /\ steady' = steady /\ excused' = excused
    BY Zenon
  <2>1. \A e : ReadOrAhead(t, e)' = ReadOrAhead(t, e) /\ NotPassed(t, e)' = NotPassed(t, e)
    BY <2>0, Zenon DEF ReadOrAhead, NotPassed, Listed
  <2>2. /\ zpc'[t] \notin {"resolve", "identify", "ok"}
        /\ (zpc'[t] = "list" => provider \in Listers)
        /\ (zpc'[t] = "walk" => provider \notin Listers)
        /\ (zpc'[t] = "ask" => provider = "desec")
    BY <1>5
  <2>3. page[t] > 0
    BY <1>3
  <2>4. \A e \in steady[t] : Sought(e, name[t])'
    BY <1>1, <2>0, CallFacts, Zenon DEF Sought
  <2>5. steady[t] \subseteq entries /\ (provider \in Caching => ~excused[t])
    BY <1>1, Zenon DEF ZoneInv, ZoneCallInv
  <2> QED
    BY <1>1, <1>7, <1>8, <1>9, <2>0, <2>1, <2>2, <2>3, <2>4, <2>5, ZenonT(30) DEF ZoneCallInv
<1>11. zpc'[t] \notin {"ok", "none"}
  BY <1>4a, <1>5, Zenon
<1> QED
  BY <1>1, <1>2, <1>5, <1>6, <1>10, <1>11, MoveKeeps, Zenon

-----------------------------------------------------------------------------
(* The walk over the suffixes of a name. *)

LEMMA WalkFacts ==
    ASSUME ZoneInv, NEW t \in Tasks, zpc[t] \in {"walk", "identify"}
    PROVE  /\ Running(t) /\ provider \notin Listers /\ at[t] \in 1..Len(name[t]) - 1
           /\ Len(Candidate(t)) = Len(name[t]) - at[t] + 1 /\ InZone(name[t], Candidate(t))
           /\ ~excused[t] => \A e \in steady[t] : NotPassed(t, e)
           /\ ~excused[t] /\ provider # "hetzner" => \A e \in steady[t] : Len(e.name) <= Len(Candidate(t))
           /\ ~excused[t] /\ provider = "hetzner" => \A e \in steady[t] : Len(Candidate(t)) <= Len(e.name)
           /\ \A e \in steady[t] : InZone(name[t], e.name) /\ Len(e.name) <= Len(name[t])
           /\ \A e \in steady[t] : Len(e.name) = Len(Candidate(t)) => e.name = Candidate(t)
<1>1. Running(t)
  BY Zenon DEF Running
<1>2. /\ provider \notin Listers /\ at[t] \in 1..Len(name[t]) - 1
      /\ ~excused[t] => \A e \in steady[t] : NotPassed(t, e)
  BY Zenon DEF ZoneInv, ZoneCallInv
<1>3. name[t] \in Seq(STRING) /\ Len(name[t]) \in Nat /\ Len(name[t]) >= 2 /\ steady[t] \subseteq entries
  BY <1>1, CallFacts, Zenon
<1>4. Len(Candidate(t)) = Len(name[t]) - at[t] + 1
  BY <1>2, <1>3 DEF Candidate
<1>5. InZone(name[t], Candidate(t))
  <2>1. at[t] \in 1..Len(name[t])
    BY <1>2, <1>3
  <2> QED
    BY <2>1, Zenon DEF InZone, Candidate
<1>6. ASSUME NEW e \in steady[t], NotPassed(t, e)
      PROVE  IF provider = "hetzner" THEN Len(Candidate(t)) <= Len(e.name)
             ELSE Len(e.name) <= Len(Candidate(t))
  BY <1>4, <1>6, Zenon DEF NotPassed
<1>6a. \A e \in steady[t] : InZone(name[t], e.name) /\ Len(e.name) <= Len(name[t])
  <2>1. provider \notin RecordListers
    BY <1>2, Zenon DEF Listers
  <2> QED
    BY <1>1, <2>1, CallFacts, Zenon
<1>7. ASSUME NEW e \in steady[t], Len(e.name) = Len(Candidate(t)) PROVE e.name = Candidate(t)
  <2>1. InZone(name[t], e.name)
    BY <1>6a, Zenon
  <2>2. e.name = SubSeq(name[t], Len(name[t]) - Len(e.name) + 1, Len(name[t]))
    BY <1>3, <2>1, ZoneOfLength, Zenon
  <2>3. Len(name[t]) - Len(e.name) + 1 = at[t]
    BY <1>2, <1>3, <1>4, <1>7, SMTT(30)
  <2> QED
    BY <2>2, <2>3, Zenon DEF Candidate
<1> QED
  BY <1>1, <1>2, <1>4, <1>5, <1>6, <1>6a, <1>7, ZenonT(30)

(* The next candidate is tried when none of the zones that are looked for has
   this one's name. *)
LEMMA WalkOn ==
    ASSUME ZoneInv, NEW t \in Tasks, zpc[t] = "walk", NextCandidate(t), cache' = cache,
           \/ excused' = excused /\ \A e \in steady[t] : e.name # Candidate(t)
           \/ excused' = [excused EXCEPT ![t] = TRUE] /\ provider \notin Caching
    PROVE  ZoneStepOK
<1> DEFINE start == IF provider = "hetzner" THEN at[t] - 1 ELSE at[t] + 1
<1>1. /\ Running(t) /\ provider \notin Listers /\ at[t] \in 1..Len(name[t]) - 1
      /\ Len(Candidate(t)) = Len(name[t]) - at[t] + 1
      /\ ~excused[t] => \A e \in steady[t] : NotPassed(t, e)
      /\ \A e \in steady[t] : Len(e.name) <= Len(name[t])
      /\ \A e \in steady[t] : Len(e.name) = Len(Candidate(t)) => e.name = Candidate(t)
  BY WalkFacts, Zenon
<1>2. /\ Len(name[t]) \in Nat /\ Len(name[t]) >= 2 /\ steady[t] \subseteq entries
      /\ \A e \in entries : Len(e.name) \in Nat /\ Len(e.name) >= 2
  BY <1>1, CallFacts, Zenon
<1>3. ~excused'[t] => \A e \in steady[t] : Len(e.name) # Len(Candidate(t)) /\ NotPassed(t, e)
  <2>1. ~excused'[t] => ~excused[t] /\ \A e \in steady[t] : e.name # Candidate(t)
    BY Zenon DEF ZoneInv, ZoneTypeOK
  <2> QED
    BY <1>1, <2>1, Zenon
<1>4. CASE start \in 1..Len(name[t]) - 1
  <2>1. /\ at' = [at EXCEPT ![t] = start]
        /\ UNCHANGED <<provider, worldVars, zpc, name, page, got, result, steady, settled>>
    BY <1>4, Zenon DEF NextCandidate
  <2>2. /\ provider' = provider /\ entries' = entries /\ changes' = changes /\ zpc' = zpc /\ name' = name
        /\ page' = page /\ got' = got /\ result' = result /\ steady' = steady /\ settled' = settled
    BY <2>1, Zenon DEF worldVars
  <2>3. /\ at'[t] = start /\ \A u \in Tasks \ {t} : at'[u] = at[u] /\ excused'[u] = excused[u]
    BY <2>1, Zenon DEF ZoneInv, ZoneTypeOK
  <2>4. ZoneTypeOK'
    <3>1. at' \in [Tasks -> Nat]
      BY <1>4, <2>1, <1>2, SMTT(30) DEF ZoneInv, ZoneTypeOK
    <3>2. excused' \in [Tasks -> BOOLEAN]
      BY Zenon DEF ZoneInv, ZoneTypeOK
    <3> QED
      BY <2>2, <3>1, <3>2, Zenon DEF ZoneInv, ZoneTypeOK
  <2>5. ASSUME ~excused'[t], NEW e \in steady[t] PROVE NotPassed(t, e)'
    <3>1. Len(e.name) # Len(Candidate(t)) /\ NotPassed(t, e) /\ Len(e.name) \in Nat
      BY <1>2, <1>3, <2>5, Zenon
    <3> QED
      BY <1>1, <1>2, <2>2, <2>3, <3>1, SMTT(30) DEF NotPassed
  <2>6. ZoneCallInv(t)'
    <3>1. /\ zpc'[t] \notin {"resolve", "identify", "ask", "list", "ok"} /\ Running(t)
      BY <1>1, <2>2, Zenon
    <3>2. /\ \A e \in steady[t] : Sought(e, name[t])'
      BY <1>1, <2>2, CallFacts, Zenon DEF Sought
    <3>3. provider \in Caching => ~excused'[t]
      BY Zenon DEF ZoneInv, ZoneCallInv
    <3>4. at'[t] \in 1..Len(name[t]) - 1
      BY <1>4, <2>3, Zenon
    <3>5. name[t] \in Names
      BY <1>1, CallFacts, Zenon
    <3> QED
      BY <1>1, <1>2, <2>2, <2>5, <3>1, <3>2, <3>3, <3>4, <3>5, Zenon DEF ZoneCallInv
  <2>7. zpc'[t] \notin {"ok", "none"} /\ zpc[t] # "resolve"
    BY <2>2, Zenon
  <2> QED
    BY <1>1, <2>2, <2>1, <2>3, <2>4, <2>6, <2>7, MoveKeeps, ZenonT(30)
<1>5. CASE start \notin 1..Len(name[t]) - 1
  <2>1. Return(t, "none", Nothing)
    BY <1>5, Zenon DEF NextCandidate
  <2>2. ASSUME ~excused'[t], NEW e \in steady[t] PROVE FALSE
    <3>1. /\ Len(e.name) # Len(Candidate(t)) /\ NotPassed(t, e)
          /\ Len(e.name) \in Nat /\ Len(e.name) >= 2 /\ Len(e.name) <= Len(name[t])
      BY <1>1, <1>2, <1>3, <2>2, Zenon
    <3>2. CASE provider = "hetzner"
      <4>1. Len(name[t]) - at[t] + 1 <= Len(e.name) /\ at[t] - 1 \notin 1..Len(name[t]) - 1
        BY <1>5, <3>1, <3>2, Zenon DEF NotPassed
      <4> QED
        BY <1>1, <1>2, <3>1, <4>1
    <3>3. CASE provider # "hetzner"
      <4>1. Len(e.name) <= Len(name[t]) - at[t] + 1 /\ at[t] + 1 \notin 1..Len(name[t]) - 1
        BY <1>5, <3>1, <3>3, Zenon DEF NotPassed
      <4> QED
        BY <1>1, <1>2, <3>1, <4>1
    <3> QED
      BY <3>2, <3>3, Zenon
  <2>3. AnswerRight(t, "none", Nothing)
    <3>1. ~excused'[t] => steady[t] = {}
      BY <2>2, Zenon
    <3> QED
      BY <3>1, Zenon DEF AnswerRight
  <2>4. CacheGrows
    BY <2>1, CacheKept, Zenon DEF Return
  <2> QED
    BY <1>1, <2>1, <2>3, <2>4, ReturnKeeps, Zenon
<1> QED
  BY <1>4, <1>5, Zenon

(* A public zone with the candidate's name is the one to find. *)
LEMMA CandidateIsRight ==
    ASSUME ZoneInv, NEW t \in Tasks, zpc[t] \in {"walk", "identify"},
           NEW found, found.name = Candidate(t), found.public,
           excused' = excused, provider \notin Caching,
           provider = "hetzner" => Zones(Candidate(t)) # {}
    PROVE  AnswerRight(t, "ok", found)
<1>1. /\ provider \notin Listers /\ InZone(name[t], Candidate(t)) /\ Running(t)
      /\ ~excused[t] /\ provider # "hetzner" => \A e \in steady[t] : Len(e.name) <= Len(Candidate(t))
      /\ ~excused[t] /\ provider = "hetzner" => \A e \in steady[t] : Len(Candidate(t)) <= Len(e.name)
      /\ \A e \in steady[t] : InZone(name[t], e.name)
  BY WalkFacts, Zenon
<1>2. provider \notin RecordListers /\ zpc[t] # "resolve"
  BY <1>1, Zenon DEF Listers
<1>3. ASSUME ~excused'[t], NEW e \in steady[t] PROVE Len(e.name) <= Len(Candidate(t))
  <2>1. CASE provider = "hetzner"
    <3>1. PICK f \in entries : f.name = Candidate(t)
      BY <2>1, Zenon DEF Zones
    <3>2. e \in entries /\ name[t] \in Seq(STRING) /\ Len(e.name) \in Nat
      BY <1>1, CallFacts, Zenon
    <3>3. InZone(e.name, f.name)
      BY <1>1, <1>3, <2>1, <3>1, <3>2, Nested, Zenon
    <3>4. e = f
      BY <2>1, <3>2, <3>3, Zenon DEF ZoneInv, EntriesInv
    <3> QED
      BY <3>1, <3>2, <3>4
  <2>2. CASE provider # "hetzner"
    BY <1>1, <1>3, <2>2, Zenon
  <2> QED
    BY <2>1, <2>2, Zenon
<1> QED
  BY <1>1, <1>2, <1>3, Zenon DEF AnswerRight

LEMMA SoaLookupKeeps ==
    ASSUME ZoneInv, NEW t \in Tasks, SoaLookup(t) PROVE ZoneStepOK
<1>1. /\ zpc[t] = "walk" /\ provider \in {"gandi", "cloudflare"} /\ cache' = cache
  BY Zenon DEF SoaLookup
<1>2. provider \notin Caching /\ provider \notin {"route53", "google"}
  BY <1>1, Zenon DEF Caching
<1>3. Running(t) /\ steady[t] \subseteq entries
  BY <1>1, WalkFacts, CallFacts, Zenon
<1>4. CASE NextCandidate(t) /\ excused' = [excused EXCEPT ![t] = TRUE]
  BY <1>1, <1>2, <1>4, WalkOn, Zenon
<1>5. CASE Zones(Candidate(t)) = {} /\ NextCandidate(t) /\ UNCHANGED excused
  <2>1. \A e \in steady[t] : e.name # Candidate(t)
    BY <1>3, <1>5, Zenon DEF Zones
  <2> QED
    BY <1>1, <1>5, <2>1, WalkOn, Zenon
<1>6. ASSUME NEW e \in Zones(Candidate(t)), Return(t, "ok", Reference(e)), UNCHANGED excused
      PROVE  ZoneStepOK
  <2>1. e \in entries /\ e.name = Candidate(t)
    BY <1>6, Zenon DEF Zones
  <2>2. e.public /\ e \in LiveEntry
    BY <1>2, <1>3, <2>1, CallFacts, Zenon DEF ZoneInv, EntriesInv
  <2>3. Reference(e).name = Candidate(t) /\ Reference(e).public
    BY <2>1, <2>2, ReferenceFacts, Zenon
  <2>4. AnswerRight(t, "ok", Reference(e))
    BY <1>1, <1>2, <1>6, <2>3, CandidateIsRight, Zenon
  <2>5. CacheGrows
    BY <1>1, <1>6, CacheKept, Zenon DEF Return
  <2> QED
    BY <1>3, <1>6, <2>4, <2>5, ReturnKeeps, Zenon
<1>7. CASE /\ Zones(Candidate(t)) # {} /\ provider = "cloudflare"
           /\ zpc' = [zpc EXCEPT ![t] = "identify"]
           /\ UNCHANGED <<provider, worldVars, name, at, page, got, result, steady, excused, settled>>
  <2>1. /\ provider' = provider /\ entries' = entries /\ changes' = changes /\ name' = name /\ at' = at
        /\ page' = page /\ got' = got /\ result' = result /\ steady' = steady /\ excused' = excused
        /\ settled' = settled
    BY <1>7, Zenon DEF worldVars
  <2>2. zpc'[t] = "identify" /\ \A u \in Tasks \ {t} : zpc'[u] = zpc[u]
    BY <1>7, Zenon DEF ZoneInv, ZoneTypeOK
  <2>3. ZoneTypeOK'
    <3>1. zpc' \in [Tasks -> {"idle", "resolve", "walk", "identify", "ask", "list", "ok", "none", "err"}]
      BY <1>7, Zenon DEF ZoneInv, ZoneTypeOK
    <3> QED
      BY <1>1, <2>1, <3>1, Zenon DEF ZoneInv, ZoneTypeOK
  <2>4. Candidate(t) \in Names \cup ZoneNames
    <3>1. PICK e \in entries : e.name = Candidate(t)
      BY <1>7, Zenon DEF Zones
    <3>2. e.name \in Names \cup ZoneNames
      BY <3>1, Zenon DEF ZoneInv, ZoneTypeOK, LiveEntry
    <3> QED
      BY <3>1, <3>2, Zenon
  <2>5. ZoneCallInv(t)'
    <3>1. /\ zpc'[t] \notin {"resolve", "walk", "ask", "list", "ok"}
      BY <2>2, Zenon
    <3>2. \A e \in steady[t] : Sought(e, name[t])'
      BY <1>3, <2>1, CallFacts, Zenon DEF Sought
    <3>3. /\ provider \notin Listers /\ at[t] \in 1..Len(name[t]) - 1
          /\ ~excused[t] => \A e \in steady[t] : NotPassed(t, e)
      BY <1>1, WalkFacts, Zenon
    <3>4. (\A e : NotPassed(t, e)' = NotPassed(t, e)) /\ Candidate(t)' = Candidate(t)
      BY <2>1, Zenon DEF NotPassed, Candidate
    <3>5. provider \in Caching => ~excused[t]
      BY <1>2, Zenon
    <3>6. name[t] \in Names
      BY <1>3, CallFacts, Zenon
    <3> QED
      BY <1>3, <1>7, <2>1, <2>2, <2>4, <3>1, <3>2, <3>3, <3>4, <3>5, <3>6, ZenonT(30) DEF ZoneCallInv
  <2>6. zpc'[t] \notin {"ok", "none"} /\ zpc[t] # "resolve"
    BY <1>1, <2>2, Zenon
  <2> QED
    BY <1>1, <1>3, <1>7, <2>1, <2>2, <2>3, <2>5, <2>6, MoveKeeps, ZenonT(30)
<1> QED
  BY <1>4, <1>5, <1>6, <1>7, ZenonT(30) DEF SoaLookup

(* What is remembered of a lookup that found a public zone with the candidate's
   name. *)
LEMMA RememberGrows ==
    ASSUME ZoneInv, NEW t \in Tasks, zpc[t] \in {"walk", "identify"}, provider' = provider,
           NEW e \in entries, e.public, e.name = Candidate(t),
           NEW key \in Names \cup ZoneNames, Remember(t, key, e),
           (provider \in Caching /\ key = name[t]) \/ (provider = "cloudflare" /\ key = Candidate(t))
    PROVE  /\ CacheGrows /\ cache'[key] # Nothing /\ cache'[key].found = Reference(e)
           /\ Reference(e).name = Candidate(t) /\ Reference(e).public
<1> DEFINE c == [found |-> Reference(e), steady |-> steady[t]]
<1>1. Running(t) /\ e \in LiveEntry
  BY WalkFacts, CallFacts, Zenon
<1>2. Reference(e) \in Entry /\ Reference(e).name = Candidate(t) /\ Reference(e).public
  BY <1>1, ReferenceFacts, ZenonT(30)
<1>3. steady[t] \in SUBSET Entry
  BY DEF ZoneInv, ZoneTypeOK, LiveEntry, Entry
<1>4. c \in [found : Entry, steady : SUBSET Entry] /\ c.found = Reference(e) /\ c.steady = steady[t]
  BY <1>2, <1>3, Zenon
<1>5. c # Nothing
  BY <1>4, ZoneAssumption, Zenon
<1> HIDE DEF c
<1>6. /\ cache'[key] = c /\ \A k \in Names \cup ZoneNames : k # key => cache'[k] = cache[k]
      /\ cache' \in [Names \cup ZoneNames -> [found : Entry, steady : SUBSET Entry] \cup {Nothing}]
  <2>1. cache' = [cache EXCEPT ![key] = c]
    BY Zenon DEF Remember, c
  <2> QED
    BY <1>4, <2>1, Zenon DEF ZoneInv, ZoneTypeOK
<1>7. CachedRight(key, c)
  <2>1. /\ InZone(name[t], Candidate(t))
        /\ ~excused[t] => \A f \in steady[t] : Len(f.name) <= Len(Candidate(t))
    BY WalkFacts, Zenon DEF Caching
  <2>2. provider \in Caching => ~excused[t]
    BY Zenon DEF ZoneInv, ZoneCallInv
  <2>3. "cloudflare" \notin Caching
    BY Zenon DEF Caching
  <2> QED
    BY <1>2, <1>4, <2>1, <2>2, <2>3, Zenon DEF CachedRight
<1>8. CacheInv'
  <2>1. \A k \in Names \cup ZoneNames : cache'[k] # Nothing => CachedRight(k, cache'[k])
    BY <1>6, <1>7, Zenon DEF ZoneInv, CacheInv
  <2> QED
    BY <2>1, Zenon DEF CacheInv, CachedRight
<1>9. ASSUME NEW n \in Names, settled[n] # Nothing PROVE cache'[n] = cache[n]
  <2>1. provider \in Caching /\ \A u \in Tasks : Running(u) /\ name[u] = n => zpc[u] = "resolve"
    BY <1>9, Zenon DEF ZoneInv, SettledInv
  <2>2. name[t] # n
    BY <1>1, <2>1, Zenon
  <2>3. key # n
    BY <2>1, <2>2, Zenon DEF Caching
  <2> QED
    BY <1>6, <2>3, Zenon
<1> QED
  BY <1>2, <1>4, <1>5, <1>6, <1>8, <1>9, ZenonT(30) DEF CacheGrows

LEMMA ResolveZoneIdKeeps ==
    ASSUME ZoneInv, NEW t \in Tasks, ResolveZoneId(t) PROVE ZoneStepOK
<1>1. /\ zpc[t] = "identify" /\ provider = "cloudflare" /\ Candidate(t) \in Names \cup ZoneNames
  BY Zenon DEF ZoneInv, ZoneCallInv, ResolveZoneId
<1>2. provider \notin Caching /\ provider \notin {"route53", "google"}
  BY <1>1, Zenon DEF Caching
<1>3. Running(t)
  BY <1>1, WalkFacts, Zenon
<1>4. CASE /\ cache[Candidate(t)] # Nothing
           /\ Return(t, "ok", cache[Candidate(t)].found)
           /\ UNCHANGED <<cache, excused>>
  <2>1. cache[Candidate(t)].found.public /\ cache[Candidate(t)].found.name = Candidate(t)
    BY <1>1, <1>4, Zenon DEF ZoneInv, CacheInv, CachedRight
  <2>2. AnswerRight(t, "ok", cache[Candidate(t)].found)
    BY <1>1, <1>2, <1>4, <2>1, CandidateIsRight, ZenonT(30)
  <2>3. CacheGrows
    BY <1>4, CacheKept, Zenon DEF Return
  <2> QED
    BY <1>3, <1>4, <2>2, <2>3, ReturnKeeps, Zenon
<1>5. CASE Return(t, "err", Nothing) /\ UNCHANGED <<cache, excused>>
  BY <1>3, <1>5, GivesUp, Zenon
<1>6. CASE Zones(Candidate(t)) = {} /\ Return(t, "none", Nothing) /\ UNCHANGED <<cache, excused>>
  <2>1. ASSUME ~excused'[t], NEW e \in steady[t] PROVE LeftOut(t, e)
    <3>1. /\ e \in entries /\ Len(e.name) \in Nat /\ Len(e.name) <= Len(Candidate(t))
          /\ Len(e.name) = Len(Candidate(t)) => e.name = Candidate(t)
      BY <1>1, <1>3, <1>6, <2>1, WalkFacts, CallFacts, Zenon
    <3>2. Len(e.name) # Len(Candidate(t))
      BY <1>6, <3>1, Zenon DEF Zones
    <3>3. Len(Candidate(t)) \in Int
      BY <1>1, <1>3, WalkFacts, CallFacts
    <3> QED
      BY <1>1, <3>1, <3>2, <3>3 DEF LeftOut
  <2>2. AnswerRight(t, "none", Nothing)
    BY <2>1, Zenon DEF AnswerRight
  <2>3. CacheGrows
    BY <1>6, CacheKept, Zenon DEF Return
  <2> QED
    BY <1>2, <1>3, <1>6, <2>2, <2>3, ReturnKeeps, Zenon
<1>7. ASSUME NEW e \in Zones(Candidate(t)), Return(t, "ok", e), Remember(t, Candidate(t), e), UNCHANGED excused
      PROVE  ZoneStepOK
  <2>1. e \in entries /\ e.name = Candidate(t)
    BY <1>7, Zenon DEF Zones
  <2>2. e.public /\ provider' = provider
    BY <1>2, <1>7, <2>1, Zenon DEF ZoneInv, EntriesInv, Return
  <2>3. CacheGrows
    BY <1>1, <1>7, <2>1, <2>2, RememberGrows, Zenon
  <2>4. AnswerRight(t, "ok", e)
    BY <1>1, <1>2, <1>7, <2>1, <2>2, CandidateIsRight, Zenon
  <2> QED
    BY <1>3, <1>7, <2>3, <2>4, ReturnKeeps, Zenon
<1> QED
  BY <1>4, <1>5, <1>6, <1>7, Zenon DEF ResolveZoneId

(* A zone is found and remembered for the name. *)
LEMMA FoundAndRemembered ==
    ASSUME ZoneInv, NEW t \in Tasks, zpc[t] = "walk", provider \in Caching,
           NEW e \in Zones(Candidate(t)), e.public,
           Return(t, "ok", Reference(e)), Remember(t, name[t], e), excused' = excused
    PROVE  ZoneStepOK
<1>1. e \in entries /\ e.name = Candidate(t) /\ provider' = provider
  BY ZenonT(30) DEF Zones, Return
<1>2. Running(t) /\ name[t] \in Names /\ zpc[t] # "resolve"
  BY WalkFacts, CallFacts, Zenon
<1>3. /\ CacheGrows /\ cache'[name[t]] # Nothing /\ cache'[name[t]].found = Reference(e)
      /\ Reference(e).name = Candidate(t) /\ Reference(e).public
  <2>1. name[t] \in Names \cup ZoneNames
    BY <1>2, Zenon
  <2> QED
    BY <1>1, <2>1, RememberGrows, Zenon
<1>4. settled[name[t]] = Nothing
  BY <1>2, Zenon DEF ZoneInv, SettledInv
<1>5. /\ InZone(name[t], Candidate(t))
      /\ ~excused[t] => \A f \in steady[t] : Len(f.name) <= Len(Candidate(t))
  BY WalkFacts, Zenon DEF Caching
<1>6. provider \notin RecordListers
  BY Zenon DEF Caching, RecordListers
<1>7. AnswerRight(t, "ok", Reference(e))
  <2>1. ~excused'[t] => \A f \in steady[t] : Len(f.name) <= Len(Reference(e).name)
    BY <1>3, <1>5, Zenon
  <2>2. Reference(e).public /\ InZone(name[t], Reference(e).name)
    BY <1>3, <1>5, Zenon
  <2> QED
    BY <1>2, <1>3, <1>4, <1>6, <2>1, <2>2, Zenon DEF AnswerRight
<1> QED
  BY <1>2, <1>3, <1>7, ReturnKeeps, Zenon

LEMMA FetchZoneKeeps ==
    ASSUME ZoneInv, NEW t \in Tasks, FetchZone(t) PROVE ZoneStepOK
<1>1. zpc[t] = "walk" /\ provider = "powerdns" /\ excused' = excused
  BY Zenon DEF FetchZone
<1>2. provider \in Caching /\ provider \notin {"route53", "google"}
  BY <1>1, Zenon DEF Caching
<1>3. Running(t) /\ steady[t] \subseteq entries
  BY <1>1, WalkFacts, CallFacts, Zenon
<1>4. CASE Return(t, "err", Nothing) /\ UNCHANGED cache
  BY <1>1, <1>3, <1>4, GivesUp, Zenon
<1>5. CASE Zones(Candidate(t)) = {} /\ NextCandidate(t) /\ UNCHANGED cache
  <2>1. \A e \in steady[t] : e.name # Candidate(t)
    BY <1>3, <1>5 DEF Zones
  <2> QED
    BY <1>1, <1>5, <2>1, WalkOn, Zenon
<1>6. ASSUME NEW e \in Zones(Candidate(t)), Return(t, "ok", Reference(e)), Remember(t, name[t], e)
      PROVE  ZoneStepOK
  <2>1. e.public
    BY <1>2, <1>6, Zenon DEF Zones, ZoneInv, EntriesInv
  <2> QED
    BY <1>1, <1>2, <1>6, <2>1, FoundAndRemembered, Zenon
<1> QED
  BY <1>4, <1>5, <1>6, Zenon DEF FetchZone

LEMMA FindPublicZoneKeeps ==
    ASSUME ZoneInv, NEW t \in Tasks, FindPublicZone(t) PROVE ZoneStepOK
<1> DEFINE public == {e \in Zones(Candidate(t)) : e.public}
<1>1. zpc[t] = "walk" /\ provider = "route53" /\ excused' = excused
  BY Zenon DEF FindPublicZone
<1>2. provider \in Caching /\ provider \notin RecordListers
  BY <1>1, Zenon DEF Caching, RecordListers
<1>3. Running(t) /\ steady[t] \subseteq entries /\ \A e \in steady[t] : e.public
  BY <1>1, <1>2, WalkFacts, CallFacts, Zenon
<1>4. CASE Return(t, "err", Nothing) /\ UNCHANGED cache
  BY <1>1, <1>3, <1>4, GivesUp, Zenon
<1>5. CASE public = {} /\ NextCandidate(t) /\ UNCHANGED cache
  <2>1. \A e \in steady[t] : e.name # Candidate(t)
    BY <1>3, <1>5, Zenon DEF Zones
  <2> QED
    BY <1>1, <1>5, <2>1, WalkOn, Zenon
<1>6. ASSUME NEW e \in public, Return(t, "ok", Reference(e)), Remember(t, name[t], e)
      PROVE  ZoneStepOK
  BY <1>1, <1>2, <1>6, FoundAndRemembered, Zenon
<1> QED
  BY <1>4, <1>5, <1>6, Zenon DEF FindPublicZone

LEMMA ZoneExistsKeeps ==
    ASSUME ZoneInv, NEW t \in Tasks, ZoneExists(t) PROVE ZoneStepOK
<1>1. zpc[t] = "walk" /\ provider = "hetzner" /\ excused' = excused /\ cache' = cache
  BY Zenon DEF ZoneExists
<1>2. provider \notin Caching /\ provider \notin {"route53", "google"}
  BY <1>1, Zenon DEF Caching
<1>3. Running(t) /\ steady[t] \subseteq entries
  BY <1>1, WalkFacts, CallFacts, Zenon
<1>4. CASE Return(t, "err", Nothing)
  BY <1>1, <1>3, <1>4, GivesUp, Zenon
<1>5. CASE Zones(Candidate(t)) = {} /\ NextCandidate(t)
  <2>1. \A e \in steady[t] : e.name # Candidate(t)
    BY <1>3, <1>5, Zenon DEF Zones
  <2> QED
    BY <1>1, <1>5, <2>1, WalkOn, Zenon
<1>6. ASSUME NEW e \in Zones(Candidate(t)), Return(t, "ok", Reference(e)) PROVE ZoneStepOK
  <2>1. e \in entries /\ e.name = Candidate(t)
    BY <1>6, Zenon DEF Zones
  <2>2. e.public /\ e \in LiveEntry
    BY <1>2, <1>3, <2>1, CallFacts, Zenon DEF ZoneInv, EntriesInv
  <2>3. Reference(e).name = Candidate(t) /\ Reference(e).public
    BY <2>1, <2>2, ReferenceFacts
  <2>4. AnswerRight(t, "ok", Reference(e))
    BY <1>1, <1>2, <1>6, <2>3, CandidateIsRight, ZenonT(30)
  <2>5. CacheGrows
    BY <1>1, <1>6, CacheKept, Zenon DEF Return
  <2> QED
    BY <1>1, <1>3, <1>6, <2>4, <2>5, ReturnKeeps, Zenon
<1> QED
  BY <1>4, <1>5, <1>6, Zenon DEF ZoneExists

-----------------------------------------------------------------------------
(* Answers made from many zones at once. *)

(* The longest of the zones in a set that misses none of those looked for. *)
LEMMA LongestIsRight ==
    ASSUME ZoneInv, NEW t \in Tasks, Running(t), zpc[t] # "resolve", excused' = excused, cache' = cache,
           provider \notin RecordListers, provider \notin Caching,
           NEW all, all \subseteq LiveEntry, ~excused[t] => steady[t] \subseteq all
    PROVE  /\ \A e \in Longest(all, name[t]) : Return(t, "ok", Reference(e)) => ZoneStepOK
           /\ Longest(all, name[t]) = {} /\ Return(t, "none", Nothing) => ZoneStepOK
<1>1. /\ name[t] \in Seq(STRING)
      /\ \A e \in steady[t] : e.public /\ InZone(name[t], e.name)
  BY CallFacts, Zenon
<1>2. ASSUME NEW e \in Longest(all, name[t]), Return(t, "ok", Reference(e)) PROVE ZoneStepOK
  <2>1. /\ e \in LiveEntry /\ e.public /\ InZone(name[t], e.name)
        /\ \A f \in all : f.public /\ InZone(name[t], f.name) => Len(f.name) <= Len(e.name)
    BY <1>1, LongestFacts, Zenon
  <2>2. Reference(e).name = e.name /\ Reference(e).public = e.public
    BY <2>1, ReferenceFacts, Zenon
  <2>3. ~excused'[t] => \A f \in steady[t] : Len(f.name) <= Len(Reference(e).name)
    BY <1>1, <2>1, <2>2, Zenon
  <2>4. Reference(e).public /\ InZone(name[t], Reference(e).name)
    BY <2>1, <2>2, Zenon
  <2>5. AnswerRight(t, "ok", Reference(e))
    BY <2>3, <2>4, Zenon DEF AnswerRight
  <2>6. CacheGrows
    BY <1>2, CacheKept, Zenon DEF Return
  <2> QED
    BY <1>2, <2>5, <2>6, ReturnKeeps, Zenon
<1>3. ASSUME Longest(all, name[t]) = {}, Return(t, "none", Nothing) PROVE ZoneStepOK
  <2>1. \A f \in all : ~(f.public /\ InZone(name[t], f.name))
    BY <1>1, <1>3, LongestFacts, Zenon
  <2>2. ~excused'[t] => steady[t] = {}
    BY <1>1, <2>1, Zenon
  <2>3. AnswerRight(t, "none", Nothing)
    BY <2>2, Zenon DEF AnswerRight
  <2>4. CacheGrows
    BY <1>3, CacheKept, Zenon DEF Return
  <2> QED
    BY <1>3, <2>3, <2>4, ReturnKeeps, Zenon
<1> QED
  BY <1>2, <1>3, Zenon

LEMMA AskOwnerKeeps ==
    ASSUME ZoneInv, NEW t \in Tasks, AskOwner(t) PROVE ZoneStepOK
<1>1. zpc[t] = "ask" /\ provider = "desec" /\ cache' = cache /\ excused' = excused
  BY Zenon DEF AskOwner, ZoneInv, ZoneCallInv
<1>2. provider \notin RecordListers /\ provider \notin Caching /\ Running(t) /\ zpc[t] # "resolve"
  BY <1>1, Zenon DEF RecordListers, Caching, Running
<1>3. entries \subseteq LiveEntry /\ steady[t] \subseteq entries
  BY <1>2, CallFacts, Zenon
<1>4. CASE Return(t, "err", Nothing)
  BY <1>1, <1>2, <1>4, GivesUp, Zenon
<1>5. CASE Longest(entries, name[t]) = {} /\ Return(t, "none", Nothing)
  BY <1>1, <1>2, <1>3, <1>5, LongestIsRight, Zenon
<1>6. ASSUME NEW e \in Longest(entries, name[t]), Return(t, "ok", Reference(e)) PROVE ZoneStepOK
  BY <1>1, <1>2, <1>3, <1>6, LongestIsRight, ZenonT(30)
<1> QED
  BY <1>4, <1>5, <1>6, Zenon DEF AskOwner

(* One page of a listing that has everything not read yet. *)
LEMMA ReadPageKeeps ==
    ASSUME ZoneInv, NEW t \in Tasks, NEW E, E \subseteq entries, NEW first \in Nat,
           ReadPage(t, E, first),
           ~excused[t] => \A e \in steady[t] : e \in got[t] \/ (e \in E /\ Rank(E, e) >= first),
           ASSUME NEW all, NEW e \in E,
                  all = got[t] \cup {f \in E : first <= Rank(E, f) /\ Rank(E, f) < first + PageSize},
                  Rank(E, e) >= first + PageSize,
                  got'[t] = all, page'[t] = page[t] + 1, name' = name, entries' = entries,
                  provider' = provider
           PROVE  ReadOrAhead(t, e)'
    PROVE  ZoneStepOK
<1> DEFINE last == first + PageSize
           all == got[t] \cup {f \in E : first <= Rank(E, f) /\ Rank(E, f) < first + PageSize}
           more == \E e \in E : Rank(E, e) >= last
<1>1. /\ zpc[t] = "list" /\ cache' = cache /\ excused' = excused
  BY Zenon DEF ReadPage
<1>2. Running(t) /\ zpc[t] # "resolve"
  BY <1>1, Zenon DEF Running
<1>3. /\ provider \in Listers /\ page[t] > 0 /\ page[t] \in Nat /\ got[t] \subseteq LiveEntry
      /\ steady[t] \subseteq entries /\ entries \subseteq LiveEntry
      /\ \A e \in steady[t] : Sought(e, name[t])
  BY <1>1, <1>2, CallFacts, Zenon DEF ZoneInv, ZoneCallInv, ZoneTypeOK
<1>4. provider \notin Caching
  BY <1>3, Zenon DEF Listers, ZoneListers, RecordListers, Caching
<1>5. all \subseteq LiveEntry
  BY <1>3, Zenon
<1>6. last \in Nat /\ \A e \in E : Rank(E, e) \in Nat
  <2>1. IsFiniteSet(E)
    BY FS_Subset, Zenon DEF ZoneInv, ZoneTypeOK
  <2> QED
    BY <2>1, RankType, ZoneAssumption, SMTT(30)
<1>7. ~excused[t] => \A e \in steady[t] : e \in all \/ (e \in E /\ Rank(E, e) >= last)
  BY <1>6
<1>8. CASE Return(t, "err", Nothing)
  BY <1>1, <1>2, <1>8, GivesUp, Zenon
<1>9. CASE ~more /\ Conclude(t, all)
  <2>1. ~excused[t] => steady[t] \subseteq all
    BY <1>7, <1>9, Zenon
  <2> HIDE DEF all
  <2>2. CASE provider \in RecordListers
    <3>1. Return(t, "ok", RecordsOf(name[t], all))
      BY <1>9, <2>2, Zenon DEF Conclude
    <3>2. ~excused[t] => steady[t] \subseteq RecordsOf(name[t], all)
      BY <1>3, <2>1, <2>2, Zenon DEF RecordsOf, Sought
    <3>3. AnswerRight(t, "ok", RecordsOf(name[t], all))
      BY <1>1, <1>4, <2>2, <3>2, Zenon DEF AnswerRight
    <3>4. CacheGrows
      BY <1>1, <3>1, CacheKept, Zenon DEF Return
    <3> QED
      BY <1>1, <1>2, <3>1, <3>3, <3>4, ReturnKeeps, Zenon
  <2>3. CASE provider \notin RecordListers
    <3>1. \/ Longest(all, name[t]) = {} /\ Return(t, "none", Nothing)
          \/ \E e \in Longest(all, name[t]) : Return(t, "ok", Reference(e))
      BY <1>9, <2>3, Zenon DEF Conclude
    <3> QED
      BY <1>1, <1>2, <1>4, <1>5, <2>1, <2>3, <3>1, LongestIsRight, Zenon
  <2> QED
    BY <2>2, <2>3, Zenon
<1>10. CASE /\ page' = [page EXCEPT ![t] = @ + 1]
            /\ got' = [got EXCEPT ![t] = all]
            /\ UNCHANGED <<provider, worldVars, zpc, name, at, result, steady, settled>>
  <2>1. /\ provider' = provider /\ entries' = entries /\ changes' = changes /\ zpc' = zpc /\ name' = name
        /\ at' = at /\ result' = result /\ steady' = steady /\ settled' = settled
    BY <1>10, Zenon DEF worldVars
  <2>2. page'[t] = page[t] + 1 /\ \A u \in Tasks \ {t} : page'[u] = page[u]
    BY <1>10, Zenon DEF ZoneInv, ZoneTypeOK
  <2>3. got'[t] = all /\ \A u \in Tasks \ {t} : got'[u] = got[u]
    BY <1>10, Zenon DEF ZoneInv, ZoneTypeOK
  <2>4. ZoneTypeOK'
    <3>1. page' \in [Tasks -> Nat]
      BY <1>10 DEF ZoneInv, ZoneTypeOK
    <3>2. got' \in [Tasks -> SUBSET LiveEntry]
      <4> HIDE DEF all
      <4> QED
        BY <1>5, <1>10, Zenon DEF ZoneInv, ZoneTypeOK
    <3> QED
      BY <1>1, <2>1, <3>1, <3>2, Zenon DEF ZoneInv, ZoneTypeOK
  <2>5. ASSUME NEW e \in steady[t], ~excused[t] PROVE ReadOrAhead(t, e)'
    <3>1. CASE e \in all
      BY <2>3, <3>1, Zenon DEF ReadOrAhead
    <3>2. CASE e \in E /\ Rank(E, e) >= last
      BY <2>1, <2>2, <2>3, <3>2, Zenon
    <3> QED
      BY <1>7, <2>5, <3>1, <3>2, Zenon
  <2>6. ZoneCallInv(t)'
    <3>1. zpc'[t] \notin {"resolve", "walk", "identify", "ask", "ok"} /\ page'[t] > 0
      BY <1>1, <1>3, <2>1, <2>2, SMTT(30)
    <3>2. \A e \in steady[t] : Sought(e, name[t])'
      BY <1>3, <2>1, Zenon DEF Sought
    <3>3. name[t] \in Names
      BY <1>2, CallFacts, ZenonT(30)
    <3> QED
      BY <1>1, <1>2, <1>3, <1>4, <2>1, <2>5, <3>1, <3>2, <3>3, ZenonT(30) DEF ZoneCallInv
  <2>7. zpc'[t] \notin {"ok", "none"}
    BY <1>1, <2>1, Zenon
  <2> QED
    BY <1>1, <1>2, <1>10, <2>1, <2>2, <2>3, <2>4, <2>6, <2>7, MoveKeeps, ZenonT(30)
<1> QED
  BY <1>8, <1>9, <1>10, Zenon DEF ReadPage

(* Pages that are asked for by number. *)
LEMMA ReadNumberedKeeps ==
    ASSUME ZoneInv, NEW t \in Tasks, provider # "google", ReadNumbered(t, Listed(t)),
           \A e \in steady[t] : e \in Listed(t)
    PROVE  ZoneStepOK
<1> DEFINE E == Listed(t)
           first == (page[t] - 1) * PageSize
<1>1. /\ zpc[t] = "list" /\ ReadPage(t, E, first)
  BY Zenon DEF ReadNumbered, ReadPage
<1>2. page[t] \in Nat /\ page[t] > 0
  BY <1>1, Zenon DEF ZoneInv, ZoneTypeOK, ZoneCallInv
<1>3. first \in Nat /\ first + PageSize = page[t] * PageSize /\ (page[t] + 1 - 1) * PageSize = page[t] * PageSize
  BY <1>2, ZoneAssumption
<1>4. ~excused[t] => \A e \in steady[t] : e \in got[t] \/ (e \in E /\ Rank(E, e) >= first)
  BY <1>1, Zenon DEF ZoneInv, ZoneCallInv, ReadOrAhead
<1>5. E \subseteq entries
  BY ListedFinite, Zenon
<1>6. ASSUME NEW e \in E, Rank(E, e) >= first + PageSize, page'[t] = page[t] + 1,
             name' = name, entries' = entries, provider' = provider
      PROVE  ReadOrAhead(t, e)'
  <2>1. Listed(t)' = Listed(t)
    BY <1>6, Zenon DEF Listed
  <2>2. Rank(Listed(t), e)' = Rank(E, e)
    BY <2>1, Zenon
  <2>3. Rank(E, e) >= (page'[t] - 1) * PageSize
    <3>1. page'[t] - 1 = page[t]
      BY <1>2, <1>6
    <3>2. (page'[t] - 1) * PageSize = first + PageSize
      BY <1>3, <3>1, Zenon
    <3> QED
      BY <1>6, <3>2, Zenon
  <2> QED
    BY <1>6, <2>2, <2>3, Zenon DEF ReadOrAhead
<1> HIDE DEF E, first
<1> QED
  BY <1>1, <1>3, <1>4, <1>5, <1>6, ReadPageKeeps, Zenon

(* What is not newer than an entry of a page is listed before the page ends. *)
LEMMA RankGrows ==
    ASSUME NEW E, IsFiniteSet(E), \A f \in E : f.id \in Nat, NEW e \in E, NEW g \in E, e.id <= g.id
    PROVE  Rank(E, e) <= Rank(E, g)
<1> DEFINE R(x) == {f \in E : f.id < x.id}
<1>1. R(e) \subseteq R(g) /\ R(g) \subseteq E
  OBVIOUS
<1>2. IsFiniteSet(R(g))
  BY <1>1, FS_Subset, Zenon
<1>3. Cardinality(R(e)) <= Cardinality(R(g))
  BY <1>1, <1>2, FS_Subset, Zenon
<1> QED
  BY <1>3, Zenon DEF Rank

(* Google's pages go on after the last entry seen. *)
LEMMA ListManagedZonesKeeps ==
    ASSUME ZoneInv, NEW t \in Tasks, ListManagedZones(t) PROVE ZoneStepOK
<1> DEFINE E == {e \in entries : \A g \in got[t] : e.id > g.id}
<1>1. zpc[t] = "list" /\ provider = "google" /\ ReadPage(t, E, 0)
  BY Zenon DEF ListManagedZones, ReadPage
<1>2. Running(t)
  BY <1>1, Zenon DEF Running
<1>3. /\ E \subseteq entries /\ IsFiniteSet(E) /\ \A e \in E : e.id \in Nat
  <2>1. E \subseteq entries
    BY Zenon
  <2> QED
    BY <1>2, <2>1, CallFacts, FS_Subset, Zenon DEF ZoneInv, ZoneTypeOK
<1>4. ASSUME ~excused[t], NEW e \in steady[t] PROVE e \in got[t] \/ (e \in E /\ Rank(E, e) >= 0)
  <2>1. ReadOrAhead(t, e) /\ e \in entries
    BY <1>1, <1>2, <1>4, CallFacts, Zenon DEF ZoneInv, ZoneCallInv
  <2>2. Rank(E, e) \in Nat
    BY <1>3, RankType, Zenon
  <2>3. Rank(E, e) >= 0
    BY <2>2
  <2> QED
    BY <1>1, <2>1, <2>3, Zenon DEF ReadOrAhead
<1>5. ASSUME NEW all, NEW e \in E,
             all = got[t] \cup {f \in E : 0 <= Rank(E, f) /\ Rank(E, f) < 0 + PageSize},
             Rank(E, e) >= 0 + PageSize, got'[t] = all, provider' = provider
      PROVE  ReadOrAhead(t, e)'
  <2>1. ASSUME NEW g \in all PROVE e.id > g.id
    <3>1. CASE g \in got[t]
      BY <3>1, Zenon
    <3>2. CASE g \in E /\ Rank(E, g) < 0 + PageSize
      <4>1. Rank(E, e) \in Nat /\ Rank(E, g) \in Nat /\ PageSize \in Nat /\ e.id \in Nat /\ g.id \in Nat
        BY <1>3, <3>2, RankType, ZoneAssumption, Zenon
      <4>2. e.id <= g.id => Rank(E, e) <= Rank(E, g)
        BY <1>3, <3>2, RankGrows, Zenon
      <4> HIDE DEF E
      <4> QED
        BY <1>5, <3>2, <4>1, <4>2, SMTT(30)
    <3> QED
      BY <1>5, <2>1, <3>1, <3>2, Zenon
  <2> QED
    BY <1>1, <1>5, <2>1, Zenon DEF ReadOrAhead
<1>6. 0 \in Nat
  BY Zenon
<1> HIDE DEF E
<1> QED
  BY <1>1, <1>3, <1>4, <1>5, <1>6, ReadPageKeeps, Zenon

LEMMA ListZonesKeeps ==
    ASSUME ZoneInv, NEW t \in Tasks, ListZones(t) PROVE ZoneStepOK
<1> DEFINE search == SubSeq(name[t], Len(name[t]) - 1, Len(name[t]))
<1>1. provider = "bunny" /\ ReadNumbered(t, {e \in entries : InZone(e.name, search)})
  BY Zenon DEF ListZones
<1>2. Running(t) /\ provider \notin RecordListers /\ provider # "google"
  BY <1>1, Zenon DEF ReadNumbered, ReadPage, Running, RecordListers
<1>3. Listed(t) = {e \in entries : InZone(e.name, search)}
  BY <1>1, Zenon DEF Listed
<1>4. ASSUME NEW e \in steady[t] PROVE e \in Listed(t)
  <2>1. /\ name[t] \in Seq(STRING) /\ InZone(name[t], e.name) /\ Len(e.name) >= 2 /\ e \in entries
    BY <1>2, CallFacts, Zenon
  <2>2. InZone(e.name, search)
    BY <2>1, SearchFinds, Zenon
  <2> QED
    BY <1>3, <2>1, <2>2, Zenon
<1> QED
  BY <1>1, <1>2, <1>3, <1>4, ReadNumberedKeeps, Zenon

LEMMA ListMatchingRecordsKeeps ==
    ASSUME ZoneInv, NEW t \in Tasks, ListMatchingRecords(t) PROVE ZoneStepOK
<1>1. provider = "digitalocean" /\ ReadNumbered(t, {e \in entries : e.name = name[t]})
  BY Zenon DEF ListMatchingRecords
<1>2. Running(t) /\ provider \in RecordListers /\ provider # "google" /\ provider # "bunny"
  BY <1>1, Zenon DEF ReadNumbered, ReadPage, Running, RecordListers
<1>3. Listed(t) = {e \in entries : e.name = name[t]}
  BY <1>1, <1>2, Zenon DEF Listed
<1>4. \A e \in steady[t] : e \in Listed(t)
  BY <1>2, <1>3, CallFacts, Zenon DEF Sought
<1> QED
  BY <1>1, <1>2, <1>3, <1>4, ReadNumberedKeeps, Zenon

LEMMA ListTxtRecordsKeeps ==
    ASSUME ZoneInv, NEW t \in Tasks, ListTxtRecords(t) PROVE ZoneStepOK
<1>1. provider = "infomaniak" /\ ReadNumbered(t, entries)
  BY Zenon DEF ListTxtRecords
<1>2. Running(t) /\ provider \notin {"google", "bunny", "digitalocean"}
  BY <1>1, Zenon DEF ReadNumbered, ReadPage, Running
<1>3. Listed(t) = entries
  BY <1>2, Zenon DEF Listed
<1>4. \A e \in steady[t] : e \in Listed(t)
  BY <1>2, <1>3, CallFacts, Zenon
<1> QED
  BY <1>1, <1>2, <1>3, <1>4, ReadNumberedKeeps, Zenon

-----------------------------------------------------------------------------
(* The account changes under the calls. *)

LEMMA CreateKeeps ==
    ASSUME ZoneInv, NEW n \in Names \cup ZoneNames, NEW public \in BOOLEAN, Create(n, public)
    PROVE  ZoneStepOK
<1> DEFINE new == [id |-> changes, name |-> n, public |-> public]
<1>1. /\ entries' = entries \cup {new} /\ changes' = changes + 1 /\ Possible(new)
      /\ provider' = provider /\ cache' = cache /\ zpc' = zpc /\ name' = name /\ at' = at
      /\ page' = page /\ got' = got /\ result' = result /\ settled' = settled
  BY Zenon DEF Create, Changed
<1>2. changes \in Nat /\ entries \subseteq LiveEntry /\ IsFiniteSet(entries)
  BY Zenon DEF ZoneInv, ZoneTypeOK
<1>3. new \in LiveEntry /\ new.id = changes /\ new.name = n /\ new.public = public
  BY <1>2, Zenon DEF LiveEntry
<1>4. \A e \in entries : e.id \in Nat /\ e.id < changes
  BY <1>2, Zenon DEF ZoneInv, EntriesInv, LiveEntry
<1>5. \A t \in Tasks : steady'[t] = steady[t] /\ excused'[t] = excused[t]
  BY Zenon DEF Create, Changed, ZoneInv, ZoneTypeOK
<1>6. ZoneTypeOK'
  <2>1. /\ steady' \in [Tasks -> SUBSET LiveEntry]
    BY Zenon DEF Create, Changed, ZoneInv, ZoneTypeOK
  <2>2. excused' \in [Tasks -> BOOLEAN]
    BY Zenon DEF Create, Changed
  <2>3. entries' \subseteq LiveEntry /\ changes' \in Nat
    BY <1>1, <1>2, <1>3, SMTT(30)
  <2>4. IsFiniteSet(entries')
    BY <1>1, <1>2, FS_AddElement, Zenon
  <2> QED
    BY <1>1, <2>1, <2>2, <2>3, <2>4, Zenon DEF ZoneInv, ZoneTypeOK
<1>7. EntriesInv'
  <2>1. /\ provider \notin {"route53", "google"} => new.public
        /\ provider = "hetzner" =>
              \A f \in entries : ~InZone(new.name, f.name) /\ ~InZone(f.name, new.name)
    BY <1>1, Zenon DEF Possible, RecordListers
  <2> HIDE DEF new
  <2>2. \A e \in entries' : e.id < changes'
    BY <1>1, <1>2, <1>3, <1>4, SMTT(30)
  <2>3. \A e \in entries', f \in entries' : e.id = f.id => e = f
    <3>1. \A e \in entries : e.id # new.id
      BY <1>2, <1>3, <1>4, SMTT(30)
    <3> QED
      BY <1>1, <3>1, Zenon DEF ZoneInv, EntriesInv
  <2>4. /\ provider' \notin {"route53", "google"} => \A e \in entries' : e.public
        /\ provider' = "hetzner" =>
              \A e \in entries', f \in entries' : InZone(e.name, f.name) => e = f
    BY <1>1, <2>1, Zenon DEF ZoneInv, EntriesInv
  <2> QED
    BY <2>2, <2>3, <2>4, Zenon DEF EntriesInv
<1>8. CacheInv' /\ SettledInv'
  <2>1. CacheInv'
    BY <1>1, Zenon DEF ZoneInv, CacheInv, CachedRight
  <2> QED
    BY <1>1, <2>1, Zenon DEF ZoneInv, SettledInv, Running
<1>9. ASSUME NEW t \in Tasks PROVE ZoneCallInv(t)'
  <2> HIDE DEF new
  <2>1. Running(t)' = Running(t) /\ Candidate(t)' = Candidate(t)
    BY <1>1, Zenon DEF Running, Candidate
  <2>2. ASSUME NEW e \in entries PROVE Rank(Listed(t), e)' = Rank(Listed(t), e)
    <3>1. ~(new.id < e.id)
      BY <1>2, <1>3, <1>4, SMTT(30)
    <3>2. {f \in Listed(t) : f.id < e.id}' = {f \in Listed(t) : f.id < e.id}
      BY <1>1, <3>1, Zenon DEF Listed
    <3> QED
      BY <3>2, Zenon DEF Rank
  <2>3. ASSUME NEW e \in entries, ReadOrAhead(t, e) PROVE ReadOrAhead(t, e)'
    BY <1>1, <2>2, <2>3, Zenon DEF ReadOrAhead
  <2>4. \A e : NotPassed(t, e)' = NotPassed(t, e)
    BY <1>1, Zenon DEF NotPassed
  <2>5. entries \subseteq entries'
    BY <1>1, Zenon
  <2>6. ZoneCallInv(t)
    BY Zenon DEF ZoneInv
  <2>7. Running(t) <=> zpc[t] \notin {"idle", "ok", "none", "err"}
    BY Zenon DEF Running
  <2>8. zpc'[t] = "list" => /\ provider' \in Listers /\ page'[t] > 0
                            /\ ~excused'[t] => \A e \in steady'[t] : ReadOrAhead(t, e)'
    <3>1. zpc[t] = "list" => Running(t)
      BY <2>7, ZenonT(30)
    <3> QED
      BY <1>1, <1>5, <2>3, <2>6, <3>1, ZenonT(30) DEF ZoneCallInv
  <2>9. Running(t)' => /\ name'[t] \in Names /\ steady'[t] \subseteq entries'
                       /\ \A e \in steady'[t] : Sought(e, name[t])'
    BY <1>1, <1>5, <2>1, <2>5, <2>6, ZenonT(30) DEF ZoneCallInv, Sought
  <2> QED
    BY <1>1, <1>5, <2>1, <2>4, <2>6, <2>8, <2>9, ZenonT(30) DEF ZoneCallInv
<1>10. \A t \in Tasks : ReturnsRight(t)
  BY <1>1, NoneReturns, Zenon
<1> QED
  BY <1>6, <1>7, <1>8, <1>9, <1>10, Zenon DEF ZoneStepOK, ZoneInv

LEMMA DeleteKeeps ==
    ASSUME ZoneInv, NEW gone \in entries, Delete(gone) PROVE ZoneStepOK
<1>1. /\ entries' = entries \ {gone} /\ changes' = changes + 1
      /\ provider' = provider /\ cache' = cache /\ zpc' = zpc /\ name' = name /\ at' = at
      /\ page' = page /\ got' = got /\ result' = result /\ settled' = settled
  BY Zenon DEF Delete, Changed
<1>2. changes \in Nat /\ entries \subseteq LiveEntry /\ IsFiniteSet(entries)
  BY Zenon DEF ZoneInv, ZoneTypeOK
<1>3. \A t \in Tasks : steady'[t] = steady[t] \ {gone}
  BY Zenon DEF Delete, Changed
<1>4. \A t \in Tasks : excused'[t] <=> excused[t] \/ (zpc[t] = "list" /\ provider # "google")
  BY Zenon DEF Delete, Changed, ZoneInv, ZoneTypeOK
<1>5. ZoneTypeOK'
  <2>1. /\ steady' \in [Tasks -> SUBSET LiveEntry]
    BY Zenon DEF Delete, Changed, ZoneInv, ZoneTypeOK
  <2>2. excused' \in [Tasks -> BOOLEAN]
    BY Zenon DEF Delete, Changed
  <2>3. entries' \subseteq LiveEntry /\ changes' \in Nat /\ entries' \subseteq entries
    BY <1>1, <1>2, SMTT(30)
  <2>4. IsFiniteSet(entries')
    BY <1>2, <2>3, FS_Subset, Zenon
  <2> QED
    BY <1>1, <2>1, <2>2, <2>3, <2>4, ZenonT(30) DEF ZoneInv, ZoneTypeOK
<1>6. EntriesInv'
  <2>1. \A e \in entries' : e \in entries
    BY <1>1, Zenon
  <2>2. \A e \in entries' : e.id < changes'
    BY <1>1, <1>2, <2>1, SMTT(30) DEF ZoneInv, EntriesInv, LiveEntry
  <2> QED
    BY <1>1, <2>1, <2>2, Zenon DEF ZoneInv, EntriesInv
<1>7. CacheInv' /\ SettledInv'
  <2>1. CacheInv'
    BY <1>1, Zenon DEF ZoneInv, CacheInv, CachedRight
  <2> QED
    BY <1>1, <2>1, Zenon DEF ZoneInv, SettledInv, Running
<1>8. ASSUME NEW t \in Tasks PROVE ZoneCallInv(t)'
  <2>1. Running(t)' = Running(t) /\ Candidate(t)' = Candidate(t)
    BY <1>1, Zenon DEF Running, Candidate
  <2>2. \A e : NotPassed(t, e)' = NotPassed(t, e)
    BY <1>1, Zenon DEF NotPassed
  <2>3. ZoneCallInv(t)
    BY Zenon DEF ZoneInv
  <2>4. ~excused'[t] => ~excused[t]
    BY <1>4, Zenon
  <2>5. zpc'[t] = "list" => /\ provider' \in Listers /\ page'[t] > 0
                            /\ ~excused'[t] => \A e \in steady'[t] : ReadOrAhead(t, e)'
    <3>1. ASSUME zpc[t] = "list", ~excused'[t], NEW e \in steady[t] PROVE ReadOrAhead(t, e)'
      <4>1. provider = "google" /\ ReadOrAhead(t, e)
        BY <1>4, <2>3, <3>1, Zenon DEF ZoneCallInv
      <4> QED
        BY <1>1, <4>1, Zenon DEF ReadOrAhead
    <3>2. steady'[t] \subseteq steady[t]
      BY <1>3, Zenon
    <3> QED
      BY <1>1, <2>3, <3>1, <3>2, Zenon DEF ZoneCallInv
  <2>6. Running(t)' => /\ name'[t] \in Names /\ steady'[t] \subseteq entries'
                       /\ \A e \in steady'[t] : Sought(e, name[t])'
    BY <1>1, <1>3, <2>1, <2>3, Zenon DEF ZoneCallInv, Sought
  <2>7. zpc'[t] \in {"walk", "identify"} =>
            /\ at'[t] \in 1..Len(name'[t]) - 1 /\ provider' \notin Listers
            /\ ~excused'[t] => \A e \in steady'[t] : NotPassed(t, e)'
    <3>1. steady'[t] \subseteq steady[t]
      BY <1>3
    <3> QED
      BY <1>1, <2>2, <2>3, <2>4, <3>1, ZenonT(30) DEF ZoneCallInv
  <2>8. provider' \in Caching => ~excused'[t]
    <3>1. zpc[t] = "list" => provider \notin Caching
      BY <2>3, Zenon DEF ZoneCallInv, Listers, ZoneListers, RecordListers, Caching
    <3> QED
      BY <1>1, <1>4, <2>3, <3>1, Zenon DEF ZoneCallInv
  <2> QED
    BY <1>1, <2>1, <2>3, <2>5, <2>6, <2>7, <2>8, ZenonT(30) DEF ZoneCallInv
<1>9. \A t \in Tasks : ReturnsRight(t)
  BY <1>1, NoneReturns, Zenon
<1> QED
  BY <1>5, <1>6, <1>7, <1>8, <1>9, ZenonT(30) DEF ZoneStepOK, ZoneInv

-----------------------------------------------------------------------------
(* All of the zones. *)

LEMMA InitZoneInv ==
    ASSUME ZoneInit PROVE ZoneInv
<1>1. ZoneTypeOK
  <2>1. IsFiniteSet({})
    BY FS_EmptySet, Zenon
  <2> QED
    BY <2>1 DEF ZoneInit, ZoneTypeOK
<1>2. EntriesInv /\ CacheInv /\ SettledInv
  BY Zenon DEF ZoneInit, EntriesInv, CacheInv, SettledInv
<1>3. ASSUME NEW t \in Tasks PROVE ZoneCallInv(t)
  <2>1. zpc[t] = "idle" /\ excused[t] = FALSE
    BY Zenon DEF ZoneInit
  <2> QED
    BY <2>1, Zenon DEF ZoneCallInv, Running
<1> QED
  BY <1>1, <1>2, <1>3, ZenonT(30) DEF ZoneInv

LEMMA NextZoneInv ==
    ASSUME ZoneInv, ZoneNext PROVE ZoneStepOK
<1>1. CASE Others
  BY <1>1, CreateKeeps, DeleteKeeps, Zenon DEF Others
<1>2. ASSUME NEW t \in Tasks, Step(t) PROVE ZoneStepOK
  <2>1. CASE NoResolver(t)
    BY <2>1, WalkFacts, GivesUp, Zenon DEF NoResolver
  <2> QED
    BY <1>2, <2>1, CacheHitKeeps, CacheMissKeeps, SoaLookupKeeps, ResolveZoneIdKeeps, FetchZoneKeeps,
       FindPublicZoneKeeps, ZoneExistsKeeps, AskOwnerKeeps, ListZonesKeeps, ListManagedZonesKeeps,
       ListMatchingRecordsKeeps, ListTxtRecordsKeeps, Zenon DEF Step
<1>3. ASSUME NEW t \in Tasks, Cancel(t) PROVE ZoneStepOK
  BY <1>3, GivesUp, Zenon DEF Cancel
<1>4. ASSUME NEW t \in Tasks, NEW n \in Names, Begin(t, n) PROVE ZoneStepOK
  BY <1>4, BeginKeeps, Zenon
<1> QED
  BY <1>1, <1>2, <1>3, <1>4, Zenon DEF ZoneNext

LEMMA StutterZoneInv ==
    ASSUME ZoneInv, UNCHANGED zoneVars PROVE ZoneInv'
<1> USE DEF zoneVars, worldVars, taskVars
<1>1. \A t \in Tasks : ZoneCallInv(t)'
  BY OtherCalls, Zenon DEF ZoneInv
<1>2. ZoneTypeOK' /\ EntriesInv' /\ CacheInv'
  BY Zenon DEF ZoneInv, ZoneTypeOK, EntriesInv, CacheInv, CachedRight
<1>3. SettledInv'
  BY Zenon DEF ZoneInv, SettledInv, Running
<1> QED
  BY <1>1, <1>2, <1>3, Zenon DEF ZoneInv

LEMMA ZoneInvariance ==
    ZoneSpec => []ZoneInv
<1>1. ZoneInit => ZoneInv
  BY InitZoneInv, Zenon
<1>2. ZoneInv /\ [ZoneNext]_zoneVars => ZoneInv'
  BY NextZoneInv, StutterZoneInv, Zenon DEF ZoneStepOK
<1> QED
  BY <1>1, <1>2, PTL DEF ZoneSpec

(* The zone that resolve_zone returns, from the API or from the cache, is public
   and owns the name it was called for. *)
THEOREM FoundZoneOwns ==
    ZoneSpec => []FoundZoneOwnsName
<1>1. ZoneInv => FoundZoneOwnsName
  BY Zenon DEF ZoneInv, ZoneCallInv, FoundZoneOwnsName
<1> QED
  BY <1>1, ZoneInvariance, PTL

(* No lookup passes over a zone that was there from its start to its end, and no
   listing over a record, for any number and size of pages: find_zone, the
   providers' own walks, the cached zones, and the paginated listings. *)
THEOREM LookupMissesNothing ==
    ZoneSpec => NothingMissed
<1> DEFINE A == \A t \in Tasks : ~excused'[t] =>
          /\ Returns(t, "none") =>
                \A e \in steady[t] : zpc[t] = "identify" /\ Len(e.name) < Len(Candidate(t))
          /\ Returns(t, "ok") /\ provider \in RecordListers => steady[t] \subseteq result'[t]
          /\ Returns(t, "ok") /\ provider \notin RecordListers =>
                LET hit == zpc[t] = "resolve" IN
                \A e \in IF hit THEN cache[name[t]].steady ELSE steady[t] :
                    Len(e.name) <= Len(result'[t].name)
<1>1. ZoneInv /\ [ZoneNext]_zoneVars => [A]_zoneVars
  BY NextZoneInv, Zenon DEF ZoneStepOK, ReturnsRight, LeftOut
<1>2. ZoneSpec => [][A]_zoneVars
  <2> HIDE DEF A
  <2> QED
    BY <1>1, ZoneInvariance, PTL DEF ZoneSpec
<1> QED
  BY <1>2, Zenon DEF NothingMissed

(* The calls for a name go to one zone from the first that no other overlaps: the
   cleanup of powerdns.rs and route53.rs where their present went. *)
THEOREM CleanupSameZone ==
    ZoneSpec => SameZone
<1> DEFINE A == \A t \in Tasks :
          Returns(t, "ok") /\ settled[name[t]] # Nothing
          => result'[t] = settled[name[t]]
<1>1. ZoneInv /\ [ZoneNext]_zoneVars => [A]_zoneVars
  BY NextZoneInv, Zenon DEF ZoneStepOK, ReturnsRight
<1>2. ZoneSpec => [][A]_zoneVars
  <2> HIDE DEF A
  <2> QED
    BY <1>1, ZoneInvariance, PTL DEF ZoneSpec
<1> QED
  BY <1>2, Zenon DEF SameZone
=============================================================================

# A TLA+ model of cheti

cheti obtains TLS certificates by ACME: it proves control of a name with a TXT
record (DNS-01) or with a certificate that a TLS server presents (TLS-ALPN-01).
This directory holds TLA+ modules that model its code, TLC configurations that
check them on small instances, and proofs that TLAPS checks. Line references
are to the files under `src/`.

    tlc -config KeyedMutex.cfg KeyedMutex      # a run
    tlapm KeyedMutexProofs.tla                 # a proof module, up to five minutes

`PROJECT.json` lists the runs, the source lines behind every definition, the
hazards, the findings, the theorems, and for every checked property a mutation
of the model that breaks it.

## 1. The system and its parts

| Part | Source | State | Operations | Module |
|---|---|---|---|---|
| Per-record lock | `providers/common.rs` `KeyedMutex` | process-wide table of `Arc<AsyncMutex>`, tokio's queue of waiters | `lock`, drop of the guard, drop of a waiting future | `KeyedMutex`, `KeyedLock` |
| HTTP retries | `providers/common.rs` `send_retrying` | attempt number | retry on 429, on 503 for idempotent methods | in the provider modules |
| Provider contract | `provider.rs` | the TXT records of a name | `present`, `cleanup` | `TxtRecord`, `ProviderCall` |
| Whole-set providers | Gandi, Scaleway, deSEC, PowerDNS, Route53, Google Cloud DNS | one record set (values, TTL) | read, merge, write back, poll the change | `RrsetProvider` |
| Per-record providers | Cloudflare, Bunny, DigitalOcean, Infomaniak, OVH, Porkbun | one record, with an id, per value | list, create or delete each, publish, roll back | `RecordProvider` |
| Update providers | Hetzner, RFC 2136 | one record set | one request that adds or removes a value on the server, wait for the action | `UpdateProvider` |
| Cleanup guard | `cleanup.rs` | list of what was put in place | `push`, `run`, `Drop` and the task it spawns | `CleanupGuard` |
| DNS-01 solver | `solver.rs` | order, challenges, guard | collect, present, wait, `set_ready`, finalize, tear down | `AcmeSolver`, `Dns01Solver`, `Solvers` |
| TLS-ALPN-01 solver | `tls_alpn.rs` | the same | present, set ready, finalize, tear down | `AcmeSolver`, `TlsAlpn01Solver`, `Solvers` |
| Propagation check | `dns/propagation.rs` | targets not yet confirmed, clock | choose the targets, ask each, sleep | `Propagation` |
| Account store | `account_store.rs` | the file, temp files, process id and counter | `save` (`load` reads the file) | `AccountStore` |
| Zone resolution | `dns/zone.rs`, `resolve_zone` of the providers, listings | zone caches | walk up the labels of a name, ask the API, read pages | `ZoneResolution` |
| Access token | `google_cloud_dns.rs` `access_token` | the cached token and its mutex | take, exchange, forget after 401 | `TokenCache` |
| Clock offset | `ovh.rs` `sync_time` | `time_delta` | measure once, sign | `ApiClock` |
| Polled changes | `wait_for_change` (Route53, Google), `wait_for_action` (Hetzner) | deadline, status in the last answer | look, sleep, fetch with retries | `ChangePoll` |
| Renewal helpers | `renewal.rs` | none | two gates and the days left | `Renewal` |

How they interact: a solver collects the pending challenges of an order, pushes
each item on its guard and calls `present` of a provider; it waits until the
nameservers show the records, tells the CA, finalizes the order and runs the
guard, which calls `cleanup`. Providers are shared between solves, so calls for
one name meet in the provider, where `KeyedMutex` serializes them. All of this
is futures: a caller may drop a solve at any `await`, the runtime may shut
down, and a request that nobody waits for any more may still arrive.

What is hard about it, and what the runs go after:

- the lock table is pruned while tasks hold clones of its entries, and waiting
  futures are dropped after they were handed the lock;
- a record set is read, changed and written back in separate requests that can
  be throttled, applied without an answer, replayed, or applied late;
- a call fails halfway, and the next call has to make sense of what is left;
- a future is dropped while a record is being created or removed;
- a record must stay until the CA has looked, and must go in every other case;
- DNS flaps while it is polled against a clock, and changes are polled by
  requests that are themselves retried and delayed;
- zones, tokens and clock offsets are remembered from call to call and go stale,
  and calls that miss them together race to fill them;
- a listing is read page by page while others create and delete entries;
- whole days, thirds of lifetimes and seconds are compared with each other;
- a process is killed, or the power fails, during a save that others race with.

## 2. Modules

`KeyedLock` is the abstract lock: at most one holder per key. `KeyedMutex`
models the code: `Enter` is the synchronous part of `lock` (prune, look up or
insert, clone the `Arc`), `Poll`, `Wake` and the queue are tokio's mutex (FIFO;
a permit is handed to the first waiter), `Release` and `DropArc` the two drops
at the end of a guard, `Cancel` the drop of a waiting future. `Retained` is the
`retain` that prunes on the reference count.

`TxtRecord` is the contract of `DnsProvider` as the solvers use it: `present`
adds its own value, `cleanup` removes it, nothing else is touched, Ok means the
effect took place during the call, an error or a dropped future leaves it open
and it may come later: then it is an orphan, which may also do the work of a
call in progress (`Straggle`). `ProviderCall` is what all HTTP providers do around
their requests: arguments and zone, the guard, the end of the call. Its lock is
`KeyedLock`'s for one key, which `KeyedMutex` implements.

`RrsetProvider`, `RecordProvider` and `UpdateProvider` extend it. A provider is
a value of the variable `provider`; what differs between providers (merge
rules, quoting, TTLs, methods, conditional changes, OVH's refresh, Porkbun's
rollback, Hetzner's actions) are operators named after it. The API server is
external and as unhelpful as HTTP allows: it refuses, throttles, gives up
before or after applying a request, or never answers. Each of the three modules
is shown to implement `TxtRecord`.

`CleanupGuard` models the guard and the items behind it; a provider call is one
step there, with the outcomes `TxtRecord` allows. `AcmeSolver` adds the order
at the CA and the end of a solve, and `Dns01Solver` and `TlsAlpn01Solver` the
steps of each solver, in the order of the code: the DNS solver places every
record before any challenge is set ready, the TLS solver goes domain by domain.
`Solvers` composes them: any number of solves of one kind, over the guards and
the CA they share.

`Propagation` models `wait_for_propagation`: targets, passes, and a clock that
advances by up to `MaxLookup` per lookup and by `Interval` per sleep.
`ChangePoll` models the other loop with a clock: `Look` is its body, `Fetch`,
`Handle` and `Answer` a poll that reads the status and is answered later,
`Busy` the retries of `send_retrying` with the waits of `retry_delay`,
`Throttled` Route53's own loop around them. `MCWaits` explores either.

`ZoneResolution`, `TokenCache` and `ApiClock` are what a provider object keeps
between calls, run by concurrent calls (`ProviderTasks`). In `ZoneResolution` a
name is a sequence of labels; one provider stands for all with the same code:
`SoaLookup` is a step of `find_zone`, `FetchZone`, `FindPublicZone` and
`ZoneExists` one of the walks that ask the API, `AskOwner` deSEC's question,
and `ListZones`, `ListManagedZones`, `ListMatchingRecords` and `ListTxtRecords`
read one page each: entries have ids in the order of their creation, and `Rank`
is the place of an entry in a listing. `Remember` fills the caches. Zones and
records come and go meanwhile (`Others`); `Possible` says which an account may
have: none of Hetzner's is inside another (`hetzner.rs:128-130`), which is why
it may ask for the shortest candidate first. `TokenCache` has the mutex that is held during the
exchange, a token endpoint and tokens that lapse or are revoked. `ApiClock` has
the API's clock, a local one that is off by `skew` and may be set, and answers
that take time. The three share no state, so `MCProviderState` explores each.

`Renewal` has the functions of `renewal.rs` as operators, with integer division
as Rust's, and the loop they are documented for: poll, re-issue when due. The
loop and the CA are the caller's and external.

`AccountStore` models `save` call by call, with files that are whole or not,
flushed or not, and a directory whose last rename may be lost. The two share no
state either, so `MCUpkeep` explores each.

The data is abstract throughout: names, values, certificates and messages are
model values. The control is not: each early return, error path and `await` of
the mapped code is a step or a disjunct.

## 3. Runs

Twelve runs; TLC needs between a second and about three minutes for each.

| Run | Instance | Shows |
|---|---|---|
| `mutex` | 3 tasks, 4 keys, 4 mutexes | one guard per key (`MutualExclusion`), every task in `lock` has the table's mutex (`OneMutexPerKey`), the table never outgrows the tasks (`TableBounded`), a dropped waiter passes its permit on (`PermitNotLost`), every waiter is served (`EveryLockServed`), refinement of `KeyedLock` |
| `rrset` | 2 tasks, 2 values, a foreign value, 3 calls, six providers | no call undoes another (`NoLostUpdate`), foreign values and TTLs are written back (`ForeignKept`, `TtlKept`), merges are never stale (`MergeIsFresh`), refinement of `TxtRecord`. For Google Cloud DNS, whose changes name the set they replace, requests may also arrive late and other clients write |
| `rrset_late` | the five other providers, late requests | **finding**: `NoLostUpdate` fails |
| `record` | 2 tasks, 2 values, a foreign value, 3 calls, six providers; late requests for the two whose API refuses duplicates | foreign records are never touched (`ForeignUntouched`), one record per value (`OneRecordPerValue`, Bunny excepted), the zone is as the last Ok promised (`OkIsStored`), refinement of `TxtRecord` |
| `bunny_duplicate` | Bunny, 2 calls | **finding**: `NoDuplicate` fails |
| `ovh_refresh` | OVH, 2 calls | **finding**: `OkIsServed` fails |
| `update` | 2 tasks, 2 values, 3 calls, Hetzner and RFC 2136, late updates; other writers for RFC 2136 | refinement of `TxtRecord` although answers may not be the server's, no TTL that Hetzner would refuse (`TtlAccepted`), every call returns (`EveryCallReturns`) |
| `solvers` | 2 solves of one kind, 2 authorizations each, one challenge in common, 1 late request | everything in place is tracked or explained (`NothingForgotten`), nothing goes before the CA looked unless a solve with the same challenge withdrew it (`ProofStaysInPlace`), no DNS challenge is set ready before all records are placed and seen (`DnsReadyWaitsForAll`), every solve is torn down (`EverySolveTornDown`) |
| `waits` | propagation: 3 nameservers and the fallback, timeout 5, interval 2; changes: timeout 6, interval 2, requests of up to 2, waits of up to 3 | Ok means that every target served the record (`OkMeansServed`), the wait is over after its first pass, or less than an interval and a pass after its timeout (`OvershootBounded`); a change is called late only if it was (`LateIsReal`), however it is throttled the wait is one poll too long at most (`ChangeWaitBounded`); both loops end (`EveryWaitEnds`) |
| `provider_state` | 2 calls at a time; 2 names, a zone and a zone inside it, 3 entries, pages of 1, `MaxPages` 2, ten providers; tokens of 1 and 4, margin 2; local clock 3 behind to 2 ahead | the zone found is public and owns the name (`FoundZoneOwnsName`), no closer zone and no record that was there all along is missed, three cases apart (`NothingMissed`, section 5), `cleanup` goes where `present` went (`SameZone`); one exchange at a time (`OneExchange`), a token is refused only if revoked or used for too long (`RefusalIsReal`), a refused one is not kept (`RefusedIsForgotten`); requests carry the API's time (`SignedWithApiTime`) |
| `upkeep` | account: 3 threads in 2 processes, 2 saves each, 1 crash; certificate: days of 4, lifetimes 23, 24 and 60, both gates, floors 0, 2 and 5, 1 failed issuance | the store is never truncated (`NeverTruncated`), a temp file belongs to one save (`TempIsMine`); the certificate in use never expires (`NeverExpired`), the ratio gate is not early (`NotEarly`), the gates agree where a third of the lifetime is the threshold (`GatesAgree`), the days shown never contradict the gate (`DaysMatchGate`) |
| `days_expired` | the certificates of `upkeep` | **finding**: `NegativeOnceExpired` fails |

### The findings

- `rrset_late`. A write that timed out, or whose future was dropped, may arrive
  after the lock was given back, and replaces what another call wrote
  meanwhile. `README.md:14` promises that parallel issuances "can't clobber
  each other". Google Cloud DNS is not affected; for the other five the promise
  holds as long as no request outlives its caller and no other process writes.
- `bunny_duplicate`. `common.rs:26-29` does not replay a POST because "replaying
  it could create a duplicate record"; Bunny creates with PUT, which counts as
  idempotent and is replayed. `cleanup` removes every duplicate (`OkIsStored`).
- `ovh_refresh`. When the refresh after a create fails, the next `present` finds
  the record and returns Ok without a refresh: it is stored (`OkIsStored`) but
  not served.
- `days_expired`. `remaining_days` is "Negative once expired" (`renewal.rs:76`),
  but the division truncates toward zero: it is 0 for the first day after the
  expiry. `DaysMatchGate` says what does hold then: no day is left.

### Notes on the documentation

Places where the models show the code to do less, or more, than a comment says,
without a run of their own:

- Route53's loop (`route53.rs:204`) runs around `send_retrying`, so a request
  may be sent nine times, not "up to 3 attempts in total" (`README.md:86`).
  `ChangeWaitBounded` has the time this takes in its bound.
- `find_zone` takes a SOA lookup that failed for one without an answer
  (`zone.rs:41`) and may return a parent of the "closest ancestor" (`zone.rs:26`).
- A request "never goes out with a token that lapses in flight"
  (`google_cloud_dns.rs:33`) unless its attempts and waits take longer than the
  margin, or the token's life is shorter; `RefusalIsReal` is the exact bound.
- A 401 drops whichever token is cached by then, also one newer than the token
  that was refused (`google_cloud_dns.rs:357`): one exchange more, no harm.
- Cloudflare looks for the closest zone in DNS and then asks for its id. If the
  zone is gone by then, the call fails with ZoneNotFound (`cloudflare.rs:184-187`)
  although the account may have a zone further up that owns the name.
- The ratio gate "matches the legacy 30-day behaviour exactly" (`renewal.rs:149`)
  for a lifetime of 90 days to the second; with a second less, as when CAs
  count both ends, it fires a second later.

### Bounds

Two tasks and three calls are what the races of one record take: one call to
set the scene and two that overlap, each with up to three attempts. Two values
are the apex and the wildcard name that share one record; a third, foreign one
stands for everything else at the name. The lock needs a third task, which
prunes the table while two compete, and more keys than tasks, so that a table
that is never pruned shows. One late request per record is what it takes to
disturb a later call. In `solvers` the first order starts with every combination
of authorization statuses and the second with a valid and a pending one, the
pending one being for the challenge both have. The clocks of `waits` let a
timeout fall inside a pass or poll, between two, and on their boundary. In
`provider_state` two calls and three changes of the account are what it takes to
fill a cache twice from different zones; pages of one entry and a `MaxPages` of 2
put three entries on both sides of the limit; a token of life 1 is shorter than
the margin and one of 4 longer. Two lifetimes of `upkeep` are three times
a threshold, the third a unit less. `MaxCalls`, `MaxLate`, `MaxSaves`,
`MaxCrashes`, `MaxChanges`, `MaxEntries`, `MaxTime`, `MaxTokens`, `MaxClock` and
`MaxNow` are bounds of the models only; `MaxAttempts` is the code's.

### Fairness

Safety runs assume none. `EveryLockServed`: the runtime polls woken futures,
and a guard is eventually dropped, since every request made under it has a
timeout. `EveryCallReturns`: requests time out, polling has a deadline, and the
lock is fair (strong fairness of taking it: tokio's mutex is FIFO, see `mutex`);
nothing is assumed of the server, whose actions may never settle.
`EverySolveTornDown`: each `await` of a solve ends, for the same reasons and
because polling the CA has a retry policy, and the runtime runs the tasks
spawned on it; dropping, shutting down and late arrivals are not fair.
`EveryWaitEnds`: lookups and requests end and sleeps pass; the record need not
appear and the change need not settle.

## 4. Proofs

Every safety property that a passing run checks is a theorem as well: the run
shows it on its instance, the theorem for every value of the constants that
meets the assumptions below. The bounds (`MaxCalls`, `MaxLate`, ...) are
constants like others: a theorem holds for each value of them.

| Module | Theorem (the property it states) | For all |
|---|---|---|
| `KeyedMutexProofs` | `MutexExcludes` (`MutualExclusion`), `TableIsExact` (`OneMutexPerKey`), `TableStaysSmall` (`TableBounded`), `PermitIsNeverLost` (`PermitNotLost`), `MutexRefinesLock` (`ImplementsKeyedLock`) | finite sets of tasks; keys, mutexes |
| `RrsetProviderProofs` | `RrsetMergeIsFresh` (`MergeIsFresh`), `RrsetTtlKept` (`TtlKept`), `RrsetForeignKept` (`ForeignKept`; `Undisturbed`), `RrsetLosesNoUpdate` (`NoLostUpdate`; `Shielded`), `RrsetRefinesTxtRecord` (`ImplementsTxtRecord`; `Shielded`) | tasks, values, calls, late requests; each of the six providers |
| `RecordProviderProofs` | `RecordForeignUntouched` (`ForeignUntouched`), `RecordOkIsStored` (`OkIsStored`), `RecordOnePerValue` (`OneRecordPerValue`; `Shielded`), `RecordRefinesTxtRecord` (`ImplementsTxtRecord`; `Shielded`) | the same |
| `UpdateProviderProofs` | `HetznerTtlAccepted` (`TtlAccepted`; `Alone`), `UpdateRefinesTxtRecord` (`ImplementsTxtRecord`) | the same; both providers |
| `SolverProofs` | `SolversForgetNothing` (`NothingForgotten`), `SolversProofStaysInPlace` (`ProofStaysInPlace`), `SolversReadyWaitsForAll` (`DnsReadyWaitsForAll`), each from a theorem about either solver (`DnsForgetsNothing`, `TlsForgetsNothing`, ...) | solves, authorizations, items shared in any way, late requests |
| `TimingProofs` | `PropagationIsComplete` (`OkMeansServed`), `PropagationEndsInTime` (`OvershootBounded`), `LateVerdictIsReal` (`LateIsReal`), `ChangeWaitEndsInTime` (`ChangeWaitBounded`), `TokenOneExchange` (`OneExchange`), `TokenRefusalIsReal` (`RefusalIsReal`), `TokenRefusedIsForgotten` (`RefusedIsForgotten`), `ClockSignedWithApiTime` (`SignedWithApiTime`) | finite sets of nameservers; tasks; timings, backoffs, lifetimes, margins, skews |
| `ZoneProofs` | `FoundZoneOwns` (`FoundZoneOwnsName`), `LookupMissesNothing` (`NothingMissed`), `CleanupSameZone` (`SameZone`) | names, zones, changes of the account, page sizes, page limits, calls; each of the ten providers |
| `AccountRenewalProofs` | `StoreNeverTruncated` (`NeverTruncated`), `TempFileIsMine` (`TempIsMine`); `RenewalInTime` (`NeverExpired`), `RenewalNotEarly` (`NotEarly`), `RenewalGatesAgree` (`GatesAgree`), `RenewalDaysMatch` (`DaysMatchGate`) | threads, processes, saves, crashes; lifetimes, gates and poll intervals that leave time for the loop |

Six theorems have a condition on the provider, named after the property above.
The runs meet it by their constants:

- `Undisturbed` (whole sets): nobody else writes, or the provider is Google
  Cloud DNS. A read and a write in two requests cannot see a third party.
- `Shielded` (whole sets): moreover no request outlives its caller, again
  except for Google Cloud DNS. Without it `rrset_late` is a counterexample.
- `Shielded` (a record per value): if requests may come late, the API refuses a
  second record of the same value (Infomaniak, Porkbun).
- `Alone` (Hetzner): nobody else writes. The TTL is decided from a read.

*The lock.* Mutual exclusion is not inductive: a task that enters could get a
fresh mutex if the table had forgotten the one in use. `IInv` adds that every
task in `lock` or with a guard has the mutex the table has for its key
(`OneMutexPerKey`), that keys do not share mutexes (`KeysIndependent`), and that a guard goes with
the permit of its mutex. `RetainedFacts` is the heart: the prune, which looks
at reference counts only, keeps every entry some task refers to. The
refinement and the bound on the table use the same invariant. That a permit is
not lost needs the queue as well (`Queued`): it holds each waiter once, and
only waiters of its mutex. Assumed: finitely many tasks; `NoTask` and `NoMutex`
are no tasks and mutexes.

*Whole sets.* The three provider modules are proved alike: lemmas about the
operators of each provider (what `Plan` writes back for each kind of set), then
a classification of the steps (a write is sent, applied, left behind, or
nothing happens to the set), then one lemma per kind and invariant instead of
one per action. `Basic` has the types, the lock (`Locked`) and the form of
requests, and which calls had their effect (`DoneInv`). `UpdateInv` says that a request on its way holds the values of the
set with the effect of its own call: of the server's set for five providers,
which the lock keeps true, and of the set named in the request for Google's,
which the server compares. `OthersInv` says the same of foreign entries and
their TTL. The refinement needs all three.

*A record per value.* A request may only name a record that belongs to its call
(`Owned`), if it still exists: ids are never used again, so a replayed or late
delete cannot hit another record. That alone gives `ForeignUntouched`.
`OkIsStored` is about a loop of deletes that may fail anywhere: `CoverInv` says
that a call that listed with nothing in flight for its value has every record
with that value in the request it makes or in the rest of the loop, and
`PromiseInv` that nothing is at work on a value that was promised. `OneInv`
needs in addition that such a call is `sure` (`SureInv`). The refinement rests
on all of them. Attempting it found an error in the specification: with two
late requests, a cleanup may find that a late one deleted the record it was
about to delete, and returns Ok without having had an effect. `TxtRecord` did not
allow that, and the run, with one late request, did not reach it. Now a late
effect may do the work of a call in progress (`Relieved`).

*Updates.* The server merges, so nothing has to be fresh. `IInv` says that a
request out, or late, is the update of its call, and that an action that
succeeded had its effect. `TtlInv`: a TTL is only sent along with the value
that creates the set, and then the set has that TTL until it is gone.

Assumed in the three: `NoTask` is no task, there is a value, and values and
foreign values are disjoint.

*The solvers.* `NothingForgotten` needs to know that the item of a `present` in
progress was pushed before (`SolverInv`), so that whatever the call leaves
behind is in a list, and that a solve has either a guard or a spawned task.
Each operation of the guard is proved once, as a lemma on lists; both solvers'
proofs cite them. `ProofStaysInPlace` follows from whose items a step takes
away: a guard lists only items of its own order (`OwnItems`) and only a solve
that is being torn down cleans up (`TakesOnlyOwn`). `ReadyWaitsForAll` needs
that the guard has one record per token placed, plus the one being presented,
and that the queue is empty once the wait begins (`OrderInv`). The theorems
about `Solvers` combine those about the two solvers. Assumed: `N` is a natural
number and `ItemOf` gives every authorization an item.

*Propagation.* `Progress` says that each target was confirmed, is waiting in
this pass, or was put aside for the next; `Clock` bounds the time by what is
left of the pass (`Within`), and `OneMoreLookup` is its arithmetic. Assumed: finitely many
nameservers, natural timings.

*Polled changes.* An answer that says "pending" may be old when the clock is
looked at; `Fresh` says how old, no older than its request. `Budget` says what
the attempts and cycles so far may have cost. Assumed: natural timings.

*Access token.* `ExchangeLocked` ties an exchange to the mutex. A refusal says
something about the past, so `HandOf` keeps, for each call, how fresh its token
was when it was taken (`TakenInTime`), and `CachedInTime` that the cache gives
out no token later than its `refresh_at` allows, nor one that was refused.

*Clock offset.* A sample of the API's time is as old as its answer took at most
(`SampleRecent`), so the offset measured from it is right to within that delay
as long as the local clock was not set (`OffsetRight`).

*Zones.* `ZoneInv` has one conjunct per way to miss something. A walk up the
labels has passed no zone that was there all along (`NotPassed`), and the zone
Hetzner finds first is the only one that owns the name, since of two zones that
own a name one is inside the other (`Nested`). A listing has
read each such entry, or has it on a page still to come (`ReadOrAhead`): an
entry's `Rank` does not fall while nothing before it is deleted, which is where
page numbers need their exception and Google's continuation tokens do not. A
cached zone owns its key and was as close as any (`CachedRight`). A zone that
is settled stays in the cache, and calls under way for the name have not looked
there yet (`SettledInv`). Per action, one lemma shows that its answer is right
(`AnswerRight`) and what it keeps. Assumed: positive page sizes and limits,
names of at least two labels, `Nothing` is no cache entry.

*Account store.* The temp name of a save is the process id with a counter value
already used up (`NameTaken`), and running processes have different ids, so the
saves under way have different names (`NamesDiffer`) and each holds the file it
opened (`FileHeld`); what is renamed is complete and flushed. Assumed: `Nothing`
is neither a file nor a name.

*Renewal.* `NeverExpired` says nothing of the issuances that may still fail.
`TimeLeft` does: after `f` failures the certificate has more left than
`MaxFailures + 1 - f` rounds of a wait and an issuance. `RenewalAssumption` is
what makes it true, and is the condition a caller has to meet: a third of each
lifetime, and each threshold in use, cover `Reserve`, the time of all rounds.

Only model-checked: the liveness properties `EveryLockServed`,
`EveryCallReturns`, `EverySolveTornDown` and `EveryWaitEnds`, since fairness and
`ENABLED` are out of the prover's reach; and the four findings, which are
counterexamples.

## 5. Limits

- Providers: one record, hence one lock key, at a time. Resolving the zone, the
  token and OVH's clock offset are one step there that succeeds or fails, and
  listings are complete or fail; what happens inside is in `ZoneResolution`,
  `TokenCache` and `ApiClock`. The length of waits is in `ChangePoll`.
- That calls of whole-set and per-record providers return is not checked as a
  liveness property; attempts are bounded, and every step of a call leads on. `update` checks it with the same retries.
- `TtlKept` and `TtlAccepted` speak of sets to which nobody else writes. In
  `rrset` others write to Google's set, so its TTL is covered by the theorem
  (`RrsetTtlKept`) and not by the run. When a third party makes or deletes
  Hetzner's set between the read and the update, the API may refuse the update;
  the call then fails.
- `OkIsStored` excepts a call that listed the records while an earlier request
  for its value was still in flight.
- `OkMeansServed` speaks of a time during the wait: a nameserver that confirmed
  is not asked again.
- `NothingForgotten` excepts a record created by a request that was in flight
  when its future was dropped and arrived after the cleanup. Such a record
  stays; nothing in the process knows of it.
- `ProofStaysInPlace` excepts a challenge that the CA hands to two orders: it is
  one record to both, and the first solve to end removes it.
- `NothingMissed` has three exceptions: a lookup in which a SOA query failed; a
  listing read by page number from which an entry was deleted meanwhile, where
  the entries behind it move up and one may be skipped (`bunny.rs:201`); and
  Cloudflare's ZoneNotFound for a zone that went between its SOA answer and the
  question for its id, which leaves out the zones further up (`cloudflare.rs:184`).
- The zones that DNS shows to `find_zone` are the zones of the account. That DNS
  has a zone the account never had is not modelled.
- `SameZone` holds once a call for the name ended with no other running. Two
  first calls at once may find different zones if one is created between them.
- `SignedWithApiTime` excepts a local clock that was set after the offset was
  measured. It is measured once per provider object.
- `RefusalIsReal` takes the answer with a token to arrive within `MaxLatency`.
- `TempIsMine` assumes that running processes have different ids. Two
  containers that share the file but not a PID namespace may have equal ones.

### Not modelled

- `error.rs` and the exports of `lib.rs`: types without state.
- `testing.rs` and the example: callers of the library.
- Builders of configurations, and providers that were given their zone, which
  skip the search for it.
- Bytes: challenge certificates, JSON, PEM and X.509, JWT, TSIG, and the
  signatures of AWS and OVH. They are functions of their inputs, long
  computations that TLC cannot enumerate and that test vectors do check.
- Case and trailing dots of names, and the TTL that deSEC raises to its minimum.
- A composition of the solvers with the detailed providers. The solvers use the
  outcomes that `TxtRecord` allows, and each provider module implements
  `TxtRecord`; the product of both is too large for TLC.

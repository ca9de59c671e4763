# Verification of vialis-motor

TLA+ models of the engine that simulates bus lines and plans their detours, the
TLC runs that check them and theorems about them checked by TLAPS.  Source paths
are relative to the repository's root.

## The system

A Go HTTP service over PostGIS/pgRouting.  Most of it is sequential and
stateless: a handler decodes a request, one service calculates, the result is
encoded.  The behaviour that is hard to get right is in the detours, which share
state between requests and combine four sources (the route, the road graph, the
traffic, the stop policy), and in the data the service stands on, which is
rebuilt under it.

| Component | State | Operations | Correct when |
|---|---|---|---|
| `internal/traffic/tomtom` `tileCache`, `Client` | per process: tiles, LRU list, bytes, downloads in flight | `Snapshot`, `load`, `invalidate` | one download per tile, nobody left waiting, no bad or old tile served, errors name their cause |
| `rateGate` (same package) | per process: the next slot | `wait` | downloads are spaced, live callers progress |
| `internal/simulation/detour/selector.go` | per call: two best prefixes per stop | `Select` | feasible, best, fails only if nothing is feasible |
| `internal/simulation/detour` `Service.Plan`, `reconstructRoute` | per call: intervals, plans, replacements | `Plan` | the right stops served, the original route kept outside the search area, replaced inside, without gap |
| `internal/database/postgres` `DetourRepository` and its SQL | per transaction: the temporary graph | `Analyze`, `Route` | one consistent graph, paths avoid the cut, errors are true |
| `sql/calles` | the road network, its restrictions, the active load | reload | atomic for readers, ends |
| `internal/simulation` | per call | `Simulate`, `Compare`, `CompareDetour` | both estimations of one state of the data, the error is the cause |
| `traveltime`, `demand`, `revenue`, `route` | none | estimators, `Validate` | deterministic, defined at every boundary |
| `internal/lines`, `internal/combinaciones` and their repositories | none | `List`, `Get`, `FindSimilar`, `FindRanking` | pages are windows of one list, exported lines can be simulated, shortlists keep the best |
| `sql/recorridos`, `sql/viajes` (derivations) | transfer graph, trips with transfers, ranking of pairs of lines | three scripts that may run again | the ranking is the split of the trips, the columns of a row agree |
| `internal/database/bootstrap`, `cmd/initdb` | the schema `vialis` | `Run` | complete or recognisably not; no two at once |
| `internal/httpapi`, `cmd/api` | the server | handlers, shutdown | every accepted request is answered |

Interactions.  `POST /detours` runs `Service.Plan` under
`config.SimulationTimeout`: `Analyze` (one statement) → `Client.Snapshot` (the
only shared memory between requests) → `Route` (one transaction) → `Select` per
interval → `reconstructRoute` → `CompareDetour` (two concurrent estimations).
Every download passes the one rate gate of the process.  The database is written
by `initdb`, by the manual reload of the streets and by the scripts that derive
the ranking of transfers, which an operator may run again on a database in use.
`PROJECT.json` lists every component with what is and is not modelled, and every
hazard of the code at its line.

## Modules

| Module | Models | Depends on |
|---|---|---|
| `TileCache` | the operations of `tileCache` inside its mutex | |
| `SharedDownloads` | what `load` promises: downloads of a key are shared, never doubled, and every caller is answered | |
| `TrafficClient` | concurrent `Snapshot` calls on one client | extends `TileCache`, implements `SharedDownloads` |
| `RateGate` | `rateGate.wait` | |
| `Server` | the requests of the HTTP process under its deadlines, `main` from start to end | extends `RateGate` |
| `DetourSelector` | `Select` | |
| `Sequencing` | loops in ascending order and those that keep some of what they go over | |
| `DetourPlan` | `Service.Plan`, `mergeInsidePieces`, `reconstructRoute` | extends `Sequencing`, instantiates `DetourSelector` for the selections of an interval |
| `RoadGraph` | `Analyze` and `Route` against a reload of the streets | |
| `InitDB` | `bootstrap.Run` and the scripts it executes, run twice at once, crashed and repeated | |
| `Estimators` | the calculations of `route.Validate`, `demand`, `traveltime`, `revenue` and the fares of a detour, as operators | |
| `Comparison` | one `Simulate`, `Compare` or `CompareDetour` | extends `Estimators`, `Sequencing` |
| `Paging` | what the listings share: keys under ORDER BY, LIMIT and OFFSET, the clamp of a size | extends `Sequencing` |
| `Transfers` | `conexiones_recorridos.sql`, `combinaciones_od.sql`, `combinaciones_lineas.sql` | extends `Paging` |
| `Lines` | `lines.Get` and `lines.FindSimilar` with their queries | extends `Paging` |
| `Catalogue` | the three scripts run again under clients that page, get and compare | extends `Transfers`, `Lines` |
| `TrafficClientProofs`, `DetourSelectorProofs`, `DetourPlanProofs`, `RoadGraphProofs`, `InitDBProofs`, `ComparisonProofs`, `ApiProofs` | theorems | each extends its module; `ApiProofs` those of `Catalogue` and of `Server`, which share no variable |
| `Collections` | lemmas that several of them need: least elements, ascending order, sums, sequences, ORDER BY | |
| `MC*` | instances for TLC | |

### TileCache, TrafficClient

`entries`, `recent`, `usedBytes` and `flights` are the fields of `tileCache`.  A
goroutine is a pair (request, tile); `pc[r][t]` is where it stands.  `load` is
split where the code unlocks: `LoadHit`/`LoadJoins`/`LoadLeads` are its first
critical section, `FetchSucceeds`/`FetchFails` the download outside the mutex,
`Publish` the second critical section with the closing of `done`,
`FollowerServed`/`FollowerCancelled` the follower's `select`.  Then
`LoadFailed`, `Undecodable` (with `invalidate`) or `Decoded` end the goroutine,
and `Finish` is `group.Wait` and the age check.  `context` is the HTTP request's
context, `group` the errgroup's.  `client.now()` is read before the mutex is
taken, so the instant it gives lies anywhere from the start of the goroutine to
the step.  A body is its length, its expiry and whether `Decode` accepts it.

`Loads` maps this onto `SharedDownloads`: a key holds what the cache would serve,
expired entries included until they are dropped; the download of a key runs from
`LoadLeads` to `Publish`, although its result is known before; a goroutine is
"answered" from the moment `load` returns.  `LoadsAreShared` is the abstract
specification as a property.

### RateGate, Server

`next` is the gate's field, `slot` the start time `wait` computed, `gate` where
its caller is.  `Enter` is the critical section, `Pass` the timer, `AfterCancel`
the end of contexts.  `Server` drives it with the downloads of its requests.  A
connection carries one request of a kind (a kind stands for every endpoint with
its control: `simulation` also for `/comparisons` and `/lines/similar`):
`Connect`, `HeadersArrive` or `HeadersFail`,
`BodyArrives` or `BodyFails` (`decodeBody`), then a handler that ends by
`Succeed`, `FailAlone`, `FailDownloads`, `TimeOut` (its `withTimeout`) or
`Leave` (the client closed), through the error writer of its endpoint
(`writeLineError` and the others), and `Deliver` says whether net/http can still
write the answer.  `Signal`, `Drain`, `Kill` and `ListenFails` are `main`.
Time is a counter: `Tick` waits for whatever is due, since a timer that fires
late makes every deadline meaningless; what happens within a tick happens in any
order.  Computations last as long as they like up to their deadline.

### DetourSelector

`SkipForced`, `Open`, `Extend`, `Close` are the loops of `Select` over end stops
and connections (taken in any order, since the repository's order is not
specified), `Choose` the last loop, `Return` the result.  A state of the dynamic
program is its kept stops and its seconds; `connection` maps a pair of stops to
a time or `NoPath`.  `Tolerance` is `travelTimeTieToleranceSeconds` and `Seconds`
the times an edge may take.  `Unit` is what times would be multiples of without
floating-point noise: only the properties use it.  `NoiseIsSmall` is the comment
of the tolerance, "numerical noise, not a meaningful traffic-time advantage",
made precise: the noise of a whole path stays within the tolerance, and two
tolerances are less than a unit.  The instance satisfies it, and `SelectionIsBest`
compares times without their noise.

### DetourPlan

A location on the route is an integer: segment order times `Parts` plus the
part of the segment.  `Init` is any search area (any set of parts) and any
classification of the stops in which only stops inside the area are forced or
optional, as the policy requires of its radii.  `Merge` is one turn of
`mergeInsidePieces`, `Build` one of `buildIntervalPlans`, `SelectInterval` or
`SelectionFails` one of `Plan`'s loop, `Sew` is `reconstructRoute`.  What
`Select` may keep is any feasible set of `DetourSelector` on the pairs
`intervalPairs` asks for, so that the module does not depend on travel times.
Two errors of the code never occur and the runs confirm it: an interval always
has two nodes, so `buildIntervalPlans` never fails, and `Select` leaves two
stops or anchors per interval.  `locationTolerance` (1e-9) separates no
locations of the model.

### RoadGraph

`calles` maps an `id_calle`, a position, to a street; a reload gives every id
anew, as `RESTART IDENTITY` does.  Table locks follow from where a request and
the reload stand: `InTransaction` is the ACCESS SHARE lock that `Route` keeps
from its first statement to its end, `CallesLocked` and `RestriccionesLocked`
are the ACCESS EXCLUSIVE locks of `TRUNCATE`, taken in the order it names the
tables.  `Deadlock` is PostgreSQL's detector, which may abort either side.
`Candidates` are the ways past the cut between one pair of points; any drivable
one may be the fastest.

### InitDB

`Pipeline` is `steps()` with every step broken into its transactions: a script is
one (`runScript`), a COPY of a file is one, `importStreets` is the two of
osm2pgrouting, which commits on a connection of its own, between two of ours.  A
transaction says which tables it creates, drops and creates, reads, empties
and writes, and what refuses it: `Accepts` and `After` are PostgreSQL.  The
contents of a table are 0 (empty), 1 (what the inputs give) or 2 (anything else,
such as rows copied twice).  Two of the seven GTFS files stand for all.

`Start` is `Run` once it has its connection and files, `Guard` and `Drop` the
two statements of `prepareSchema`, `CreateSchema` is `init_db.sql`, `Execute`
commits the next transaction, `StatementFails` is a refusal by the database and
`Crash` everything else that ends a run: SIGINT, a lost connection, a malformed
row, a missing tool, at any moment.  Nothing but the database keeps two
processes apart.  Two history variables say what a run may have met:
`accompanied`, another run under way; `overlapped`, a DROP SCHEMA between the
run and its tables.

### Estimators, Comparison

`Estimators` has one operator per function of the estimators: `assignCells`,
`DemandByStopPair` (the SQL), `consolidateRoutes`, `weightedMedian`,
`pairDistance`, `tariffForDistance`, `detourFareTravelTime`.  Stops and segments
are counted from 1; distances, weights and paces are integers and `Unit` makes
`estimatedSeconds` round.  A path is the two stops it joins and its length; what
is near what is a relation of the database.

`Comparison` is the control around them.  `Estimate` starts a goroutine per
route; `FindCells`, `FindPairs`, `Widen` (one corridor) and `FindGlobal` are its
queries in their order, each with the computation that follows it up to the next
query; `QueryFails` ends it, which cancels the other's.  `pending` is the list of
segments without paces, as in `resolveLocalPaces`, and `Target` is where an
answer for a position of that list is stored.  `Wait` is `group.Wait`, which
cancels the group's context whatever happened; `Charge` is `service.result` of
one route, under the caller's context.  `UpdateTariffs` is an administrator
loading `sql/tarifas/insertar_tarifas_vigentes.sql` anew.  `Simulate` is a group
of one goroutine.  Two errors of the code never occur and `NeverFailsInternally`
says so: the checks that the stops of demand, segments and fares match.  What
the repository must return to `orderMeasuredSegments` it does, one measurement
per requested segment, and its rejections are left out.

### Paging, Transfers, Lines, Catalogue

`Conexiones`, `CombinacionesOD` and `CombinacionesLineas` are the three INSERTs,
each built of one operator per CTE (`Directo`, `Itinerarios`, `Atribucion`,
`Dominante`, `Pico`).  What is near what is a relation and a walk has its metres.
The code divides the trips of a flow by the number of its itineraries, in double
precision; here they are counted in `Parts` of a trip, a number that every count
up to `MaximumAlternatives` divides.  The second half of
`Transfers` says the same from journeys (board, change at the transfer point,
alight) instead of from first and last stops; the runs compare the two.

`Get` is the service from the rows of `find_line.sql` to the exported route or
the reason there is none; `Aligned` and `GapError` are
`AlignStoredPathEndpoints`, `ValidRoute` what `route.Validate` asks of the
result.  A position is a point of a small grid, and two positions are 0 metres
apart only when they are one: what `DistanceMeters` cannot tell apart is one
position.  `Shortlists` is
`find_similar_lines.sql` under the limit; how much of one line runs along
another is an input.

`Catalogue` has the tables as variables.  `script` is the statement that runs
next: psql commits each one, so `TruncateConexiones`, `InsertConexiones`,
`TruncateOD` and `InsertOD` are separate and `Rank`, a transaction, is one;
`Stop` leaves what is committed.  Only `combinaciones_lineas.sql` sets
`ON_ERROR_STOP`: in the other two `InsertFails` leaves the table empty and the next
statement runs (`failed`).
`walk` is a client that reads a listing page by
page: `Ask` is the first request, `TurnPage` the next, each one statement on the
tables of its moment.  Rows with equal keys come in any order (`Orders`).
`CatalogueAssumption` is what `ddl.sql` keeps of the tables: hours, cells and
lines that exist or are NULL, no `nro_parada` twice in a line, ids that tell
candidates apart.  The
two listings, which have limits of their own (50 and 200 lines, 10 and 50
transfers), share one pair of sizes.

## Runs

| Run | Question | Instance |
|---|---|---|
| `traffic_shared` | Do the shared cache and the downloads stay consistent in every interleaving, and is every answered snapshot fresh? | 2 requests, each for any of 2 tiles or both, a short body and a long one that expires early and does not decode, room for both short bodies but not for a long and a short one, failed downloads, a clock that outruns the TTL; no caller gives up |
| `traffic_liveness` | Is every snapshot answered, and with its own error, when callers give up? | 2 requests for the same 2 tiles, room for 1 tile, contexts that are cancelled and downloads that fail at any point, a single body, fair goroutines |
| `detour_selector` | Is the selection feasible and the best of all paths? | every input over 4 stops with times 0, noise and 10 |
| `detour_plan` | Is the variant sewn right and does every valid plan succeed? | 5 stops, half segments: all 255 search areas, up to 4 intervals, all classifications, all selections |
| `road_graph` | Are graphs consistent, errors true and waits finite under a reload? | 2 requests, 1 reload that renumbers or loses streets, 2 cuts, traffic with and without gaps |
| `road_graph_trace` | Does the trace name the graph the variant was found on? **No** | 1 request, 1 reload |
| `init_db` | Does a run that succeeds leave a complete database, does a lone one always recover, is a complete database safe without `--reset`? | 2 processes started 4 times, with and without `--reset`, crashing anywhere |
| `comparison` | Is the error the cause, are paces, demand and fares those the data give, in every interleaving of the two estimations? | 11 calls over 3 stops (a longer way, an omitted stop, other orders, invalid routes), 3 databases with ties, gaps and invalid references, 3 tables of tariffs and one update |
| `comparison_tariffs` | Are both routes charged by one table of tariffs? **No** | the same |
| `server` | Are downloads spaced, timely requests answered, stops graceful, and does every connection end? | 2 connections at any of 4 kinds of endpoint, 3 downloads, deadlines of 1 to 3 ticks that leave an answer less time than a body may take, as the real ones do (5 s and 10 s), a signal or a failing listener up to tick 3 |
| `catalogue` | Is the ranking the split of the trips, whatever was stopped and run again, and empty after a refused INSERT? Are its columns of one trip, its pages of one list, exports and shortlists faithful? | 5 lines over 8 stops (a circular one, one against the flow), 5 cells, 2 hours, 3 surveys with ties, unknown factors and flows with too many alternatives; every path of two positions between two stops of a 12-place grid, with an alignment tolerance above the endpoint tolerance |
| `catalogue_peak` | Is the peak hour of a pair its busiest? **No** | the same |

Bounds.  Two requests are enough for the roles of the cache: leader and
follower of a tile at once leader and follower of the other; a third request
would be another follower.  Two tiles make one snapshot succeed and fail in
parts and make the LRU list evict, by its bytes in `traffic_shared` and by its
count in `traffic_liveness`.  In `detour_plan` the stops and segments are
enough for a lost stop at an end, between two intervals and on the border of
one.  In `road_graph` one reload suffices for stale ids (reads never span two),
and the failing and restarting of a reload is not bounded.  In `init_db` four
starts allow a crashed run, a repeated one, a `--reset` and another run beside
any of them; the theorems lift both bounds.  In `comparison` two corridors are
one to widen into and the last, two segments are one resolved and one pending,
and the references have lines whose order differs between scenarios, a line with
two fragments, a line with invalid paces and a corridor with none.
In `server` two connections
are one that waits and one that is cut or cancelled, and three downloads let two
of one request and one of another meet at the gate; `LastArrival`, `LastSignal`
and `MaxTime` bound the clock, and by `MaxTime` both connections have run through
every deadline; the theorems lift these bounds.  In `catalogue` one walk and one
load meet in every order, page sizes of 1 to 3 cut lists of up to five lines and
pairs, and the surveys hold each filter and tie of the scripts.

Each invariant and property is paired in `PROJECT.json` with a mutated
definition that violates it.

The three runs that fail are findings, whose lines `PROJECT.json` quotes: the
trace of a variant can name another load than the one it was found on; a
comparison can charge its two routes by two tables of tariffs; the peak hour of a
pair of lines is that of its largest single flow.

Six more configurations each violate one documented promise and are kept to be
run by hand (`tlc -config X.cfg M`):

| Configuration | Promise | What happens |
|---|---|---|
| `TrafficDeadline.cfg` (`MCTrafficClient`) | a 504 says that the calculation of this request took too long (`docs/openapi.yaml:549`) | a follower gets the error of the leader whose context ended (`cache.go:66-67`) |
| `DetourPlanEnds.cfg` (`MCDetourPlan`) | "Si se pierde la primera o la última parada, la variante arranca o termina antes" (`docs/arquitectura_motor.md:1512`) | an interval whose only stops are forced terminals has one node, `Select` finds nothing and the answer is "no detour" (`service.go:163`) |
| `InitDBOverlap.cfg` (`MCInitDB`) | the package builds a database the engine can query (`bootstrap.go:1-3`) | a `--reset` between two transactions of another run lets that one end without an error on empty tables (`bootstrap.go:403`) |
| `CatalogueBackwards.cfg` (`MCCatalogue`) | "Leave reversed paths untouched so route validation can reject them" (`alignment.go:56`) | validation takes a path for reversed only when each end is near the opposite stop (`validation.go:131-134`): one that runs backwards and has both ends near its own stops is exported as it is |
| `CatalogueSides.cfg` (`MCCatalogue`) | the zones are "the cell that concentrates the most trips on each side" (`combinaciones.go:112-113`, "la celda que mas viajes concentra de cada lado" in `combinaciones_lineas.sql:302` and `ddl.sql:369`) | both zones are those of the largest single flow (`combinaciones_lineas.sql:218-221`, "del MISMO viaje"), which `ZonesAreOneFlow` shows: another cell may have more trips in several flows |
| `ServerSlowBody.cfg` (`MCServer`) | "SimulationTimeout must remain below WriteTimeout to allow an HTTP timeout response" (`config/parameters.go:28`) | the first starts after the body, the second after the headers: a body slower than their difference loses its 504 |

## Fairness

`TrafficClient!FairSpec`: weak fairness of every goroutine (the Go scheduler
runs what is runnable, the gate's timer fires, the HTTP client has a timeout)
and of `Finish`.  Nothing is assumed of callers, of their contexts, or of the
clock.  `RoadGraph!Fairness`: weak fairness of the reload's statements and of the
deadlock detector; strong fairness of a request's statements, because
PostgreSQL queues lock requests in their order and a request is not overtaken by
one reload after the other.  The timeout of a request is not assumed to come:
the requests end without it.
`Server!FairSpec`: weak fairness of whatever is due (header and body deadlines,
`withTimeout`, the gate's timers), of `main` in Shutdown and of the clock.
Nothing is assumed of clients, nor that a computation ends before its deadline.

## Proofs

The theorems hold for every value of the constants under the modules' named
assumptions.

* `TypeCorrect` (`TrafficClientProofs`): `TypeOK`, strengthened by
  `FollowersFollow` (a follower's leader is another request), because a
  follower copies what its leader holds.
* `OneDownloadPerTile`: `SingleFlight`, `NoFlightForStored` and
  `FollowersHaveLeader` are inductive together: the flight table names exactly
  the goroutine between the critical sections, so publishing or joining cannot
  strand anybody.
* `DownloadsAreShared`: under these invariants every action of `TrafficClient`
  is a step of `SharedDownloads` or a stutter, by one lemma per action; an
  eviction, an invalidation or a dropped entry is `Forget`.
* `RootCauseIsReported`: from `RootCauseInv`, which follows a cancellation from
  the errgroup through goroutine and call to the answer.
* `BadTilesLeave`, `SnapshotsAreFresh`: from invariants on what a goroutine
  holds (`ResultInv`, `PairInv`); the second is an action property.
* `CacheStaysConsistent`: from `StoreInv`, the entries
  stored are those of a list without repetition, and the bytes are their sum; each
  of adding, dropping and evicting keeps it, and so does the loop of evictions.

* `SelectionsAreFeasible` (`DetourSelectorProofs`): from `Sound`, every state of
  the dynamic program is a path that keeps the required stops so far.
* `FailuresAreReal`: from `Exhaustive`, a stop without a state ends no feasible
  prefix; it needs that a feasible path loses its last stop and stays feasible
  (`PathShortens`).
* `SelectionsAreBest`: from `Optimal`, each state of the dynamic program is the
  best of all the paths it stands for: those of one stop that end there, those of
  at least two, and, for the stop that is open, those through the connections
  tried so far.  Bellman's principle is that a path made longer stays preferred
  (`ContinuedIsBest`), which needs the sums of legs one leg longer and the order
  of the comparison total and transitive; the latter holds because noise adds up to less
  than what decides (`NoiseAddsUp`, `UnitsDecide`).  Its hypothesis is
  `NoiseIsSmall`, a statement about the travel times that validation does not
  enforce; without it a chain of near ties can make the comparison intransitive.

* `PlanInvariant` (`DetourPlanProofs`): `PlanInv`, for a route of any length.  An
  interval is exactly a run of merged pieces, apart from the others
  (`IntervalsInv`); its plan is a function of it (`PlansInv`); and the
  replacements so far are in the order of the route, within their intervals, over
  no stop that is kept, and leave out of an interval only what lies before the first
  or after the last stop kept (`ReplacementsInv`).  The last clause is what
  makes the sewing provable: a terminal that is lost leaves part of an interval
  without replacement, and that part is outside the variant.
* `CandidatesRouted`, `StopsServed`, `NoInternalError`, `SewingIsExact` and
  `TypeCorrect` follow from `PlanInv`.  `StopsServed` needs that a forced stop is
  near the area (`ForcedNear`) and so a node or a border of an interval;
  `NoInternalError` that sorting replacements that are in order changes nothing;
  `SewingIsExact` that the slices between consecutive replacements leave no gap.

* `TypeCorrect`, `GraphsAreOfOneLoad` (`RoadGraphProofs`): from `GraphInv`, a
  request in its transaction has the streets of `calles` in its graph, because
  `LockCalles` waits for it; so the restrictions it then reads are theirs.
* `VariantsAvoidTheCut`: from `VariantInv`, on top of `GraphInv`; the filter of
  the last statement is enough for the streets, the one load for the turns.
* `AnalysesAreOfTheirLoad`: from `AnalysisInv`, no analysis is of a later load
  than the active one, and its blocked ids stay right for a graph of its load.
* `ErrorsAreTrue`: from `ErrorInv` on top of `AnalysisInv`; when the blocked ids
  are the graph's, what is drivable is what is passable (`DrivableIsPassable`).
* `TypeCorrect` (`InitDBProofs`): `TypeOK`, strengthened by how far a run in
  each phase can be (`RunInv`).
* `OneBuilderAlways`, `BuiltIsComplete`, `CompleteIsKept`: from `SoleInv`, a run
  that no DROP SCHEMA came near and that is past `ddl.sql` finds exactly the
  tables made and filled up to its place (`Progress`), because `ddl.sql` refuses
  every other run there.  `TransactionsInPlace` is what makes it inductive: each
  transaction reads what earlier ones fill and empties nothing they filled
  (`InPlace`), so the database accepts it and goes on by one place (`Advances`).
* `AloneAlwaysRecovers`: from `AloneInv` on top of `SoleInv`; a lone run starts
  `ddl.sql` in an empty schema.

* `CausesAreReported`, `CancelledCallsFail` (`ComparisonProofs`): from
  `CauseInv`, the group's context is cancelled only by the caller, by an error
  that is kept already, or by `Wait`, when no goroutine works under it.
* `StopsAlwaysMatch`: from `StopInv`, past validation the cells and pairs of a
  route are of its stops, in order; `FareSegmentsAreBetweenStops` says that the
  segments of a variant, and those a detour is charged by, are between them.
* `DetoursPayTheOriginal`: from `FareInv`; the segments a detour is charged by are
  sums of the original's, so the sum of sums along a pair is the sum of the
  original's lengths.
* `NarrowestIsChosen`: from `SearchInv`, a segment is waiting and no corridor
  searched so far suffices for it, or found in the first that does, or left to the
  network; what `Target` relates is a position of the shrinking list to a segment.
* `LinesAreBalanced`: the loop of `weightedMedian` stops where both halves of the
  weight are reached, whatever the ties.
* `TripsCountOnce`: from `CountInv`; a cell has one stop because
  `candidatePrecedes` is total, so the cells, pairs and trips of the sums are
  disjoint.  What stops contribute adds up to the totals by sums over the two
  ends of the pairs.
* `TypeCorrect`: from `TypeInv`, which needs the search: where the goroutines are
  says which corridor comes next and whose segments are pending.

  These assume of the database what `ddl.sql` declares (`DatabaseOK`, and bands
  with bounds and fares that are not negative) and that its relations are finite.

* `TablesAreDerived` (`ApiProofs`): `TablesInv`, inductive as it stands; whatever
  was stopped, the scripts start over from the first statement, so a table whose
  statement is done holds what the survey gives, or nothing when its INSERT was
  refused.
* `RankingStaysTheSplit`: from `TablesInv` the ranking at rest is
  `CombinacionesLineas` of the survey, or of an empty table, which is empty
  (`TablesAtRest`); the rest is about that operator.  An
  itinerary is a journey (`ItinerariesAreJourneys`: who can board before the change
  can board at the first stop near the origin), so the attribution of an hour is
  the split of a flow (`SharesAreAttributed`); the sums of the rows are regrouped by
  pair, hour and flow with `TotalByParts` and `TotalScaled`.
* `ZonesStayOneFlow`: the largest element under ORDER BY of the volumes, which are
  the shares (`DominanteIsLargest`).
* `PagesStayTheRanking`: from `WalkInv` on top of `TablesInv`.  A walk that nothing
  disturbed has seen a beginning of the one list its keys allow (`IsWalk`): the keys
  of `ListKey` and `RankKey` tell rows apart, so the database has one order
  (`ListOrder`, `RankOrder`), two windows of it meet (`WindowsMeet`), and the join
  after the LIMIT drops nothing: where there is a ranking, `conexiones` is derived.  The limit is positive, so an
  empty page is past the end.
* `ShortlistsAreBest`: from `ReplyInv`; the order of the ranks is one, so a window of
  a longer window is the shorter one (`WindowOfWindow`).
* `ExportsStayFaithful`: from `ReplyInv`, an answer is `Get` of a stored line.  What
  alignment and validation let through is sound or runs backwards unmoved
  (`ExportedIsSound`), what is sound passes both (`SoundIsExported`), which needs that
  a path between two positions has a length (`LengthIsPositive`), and stops named by
  themselves or by their sequence number have different names (`NamesAreUnique`).

* `DownloadsStaySpaced`, `GateKeepsPace` (`ApiProofs`): from `GateInv`, `next`
  is one interval after the last slot, so a new slot is after all of them
  (`BookingsStay`: only `Enter` books and nothing gives a booking back).
* `TimelyRequestsAreAnswered`, `StopsAreGraceful`: from `TimeInv`, no connection
  outlives the deadline it is under, because the clock waits for what is due.  It
  assumes ReadHeaderTimeout <= ReadTimeout <= WriteTimeout (5, 10 and 30 s).

Sums.  `SumFunction` and `MapThenSumSet` choose a recursive function, and the
prover cannot do induction with an operator.  `Collections` proves what is needed
without: a sum of naturals over a finite set is the number of points under its
graph, which satisfies the recursion, whose solution is unique; what holds of
sizes of unions, parts and subsets then holds of the sums.

`Collections` also has what ORDER BY leaves: a finite set under a strict order has a
least element (`MinimalElement`), and where no two keys are equal there is one
sorted sequence of it (`SortedOnce`).

Only model-checked: liveness (`RequestsAnswered`, `NobodyWaitsForever`,
`ConnectionsEnd`), which is out of the prover's reach.  Every invariant, every action
property and the refinement of the passing runs have a theorem.

## Not modelled

Geometry (distances on the globe, line slices, snapping, overlap of lines), the
matching and estimation of traffic speeds, the decoding of vector tiles and the
tile cover, confidence labels, the import of GTFS, trips and streets into rows,
text search, and formats and messages: floating-point or textual computations
without state.  Keep-alive connections and the startup checks of the API.  A re-run of
`transformar_gtfs.sql` or a `--reset` under readers: `InitDB` has the tables they
empty, `Catalogue` the readers of the other scripts.  `PROJECT.json` gives the
reason per component.

## Plan

1. An abstract specification of `Plan` for clients that see only its answer.
2. `Server` composed with `TrafficClient`: the leader of a download that is cut
   by the server.
3. The selection with noise that the tolerance does not bound: which of two near
   paths `Select` keeps, and how far from the best.

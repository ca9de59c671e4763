---------------------------- MODULE TrafficClient ----------------------------
(***************************************************************************)
(* Client.Snapshot of internal/traffic/tomtom/client.go, called by every   *)
(* POST /detours request of the process on one shared Client: each request *)
(* starts one goroutine per tile in an errgroup, the goroutines meet in    *)
(* the shared tileCache, and the first of them to download a tile (the     *)
(* leader) publishes its result to the others (the followers).             *)
(*                                                                         *)
(* The goroutine of request r for tile t is written r, t below.  A request *)
(* makes one Snapshot call, so r also names the cacheCall that r, t leads. *)
(***************************************************************************)
EXTENDS TileCache

CONSTANTS
  Requests,        \* POST /detours requests
  Selections,      \* the sets of tiles they may ask for
  ContextEnds,     \* how their contexts may end early
  MaxTime,         \* bound on the clock
  DownloadErrors   \* errors a failed download carries: see FetchErrors

ASSUME ClientAssumption ==
  /\ NoLeader \notin Requests
  /\ Selections \subseteq (SUBSET Tiles) \ {{}}
  /\ ContextEnds \subseteq {"canceled", "deadline"}
  /\ MaxTime \in Nat
  /\ DownloadErrors \subseteq {"unavailable", "deadline"}

VARIABLES
  now,        \* Client.now()
  wanted,     \* request -> normalizeTiles(tiles), {} before the call
  startedAt,  \* request -> when its goroutines were started
  context,    \* request -> state of the HTTP request's own context
  group,      \* request -> state of groupContext, derived from it
  groupErr,   \* request -> the error the errgroup keeps
  pc,         \* where goroutine r, t is
  leader,     \* the request whose download r, t shares
  got, err,   \* the (entry, error) pair r, t holds; call.entry, call.err for a leader
  closed,     \* whether call.done of the call that r, t leads is closed
  answer      \* request -> what Snapshot returned

local == <<pc, leader, got, err, closed>>
calls == <<wanted, startedAt, context, group, groupErr, answer>>
vars  == <<entries, recent, usedBytes, flights, now, calls, local>>

Done == {"ok", "failed"}
Downloading == {"fetching", "fetched"}
ContextErrors == {"canceled", "deadline"}
Errors == {"unavailable"} \cup ContextErrors

Init ==
  /\ CacheInit
  /\ now = 1
  /\ wanted = [r \in Requests |-> {}]
  /\ startedAt = [r \in Requests |-> 0]
  /\ context = [r \in Requests |-> "live"]
  /\ group = [r \in Requests |-> "live"]
  /\ groupErr = [r \in Requests |-> "none"]
  /\ pc = [r \in Requests |-> [t \in Tiles |-> "idle"]]
  /\ leader = [r \in Requests |-> [t \in Tiles |-> NoLeader]]
  /\ got = [r \in Requests |-> [t \in Tiles |-> NoEntry]]
  /\ err = [r \in Requests |-> [t \in Tiles |-> "none"]]
  /\ closed = [r \in Requests |-> [t \in Tiles |-> FALSE]]
  /\ answer = [r \in Requests |-> "none"]

GoTo(r, t, place) == pc' = [pc EXCEPT ![r][t] = place]

\* Mutant of Kept: the group keeps the last error.
KeptLast(previous, e) == e

(* errgroup: the group keeps its first error.                               *)
Kept(previous, e) == IF previous = "none" THEN e ELSE previous

(* The goroutine returns e to its errgroup, which cancels groupContext.     *)
Fail(r, t, e) ==
  /\ GoTo(r, t, "failed")
  /\ groupErr' = [groupErr EXCEPT ![r] = Kept(@, e)]
  /\ group' = [group EXCEPT ![r] = IF @ = "live" THEN "canceled" ELSE @]

(* The handler calls Snapshot for a set of tiles: one goroutine per tile.   *)
Start(r) ==
  /\ wanted[r] = {}
  /\ \E W \in Selections :
       /\ wanted' = [wanted EXCEPT ![r] = W]
       /\ pc' = [pc EXCEPT ![r] = [t \in Tiles |-> IF t \in W THEN "started" ELSE "idle"]]
  /\ startedAt' = [startedAt EXCEPT ![r] = now]
  /\ UNCHANGED <<store, flights, now, context, group, groupErr, answer, leader, got, err, closed>>

-----------------------------------------------------------------------------
(* tileCache.load, first critical section.  client.now() was read at some   *)
(* instant between the start of the goroutine and the moment it got the     *)
(* mutex.                                                                   *)
LoadHit(r, t) ==
  /\ pc[r][t] = "started"
  /\ \E at \in startedAt[r] .. now : Servable(entries[t], at)
  /\ Touch(t)
  /\ got' = [got EXCEPT ![r][t] = entries[t]]
  /\ GoTo(r, t, "loaded")
  /\ UNCHANGED <<flights, now, calls, leader, err, closed>>

\* Mutant of DropExpired: an expired entry is skipped but not removed.
SkipExpired(t) == UNCHANGED store

DropExpired(t) == Discard(t)

(* A miss drops the entry of t if it has expired; a call in flight is       *)
(* joined, and otherwise the goroutine leads a new one.                     *)
Misses(r, t) ==
  /\ pc[r][t] = "started"
  /\ \E at \in startedAt[r] .. now : ~ Servable(entries[t], at)
  /\ DropExpired(t)

LoadJoins(r, t) ==
  /\ Misses(r, t)
  /\ flights[t] # NoLeader
  /\ leader' = [leader EXCEPT ![r][t] = flights[t]]
  /\ GoTo(r, t, "follower")
  /\ UNCHANGED <<flights, now, calls, got, err, closed>>

LoadLeads(r, t) ==
  /\ Misses(r, t)
  /\ flights[t] = NoLeader
  /\ flights' = [flights EXCEPT ![t] = r]
  /\ GoTo(r, t, "fetching")
  /\ UNCHANGED <<now, calls, leader, got, err, closed>>

(* load returns the pair (entry, e) to the goroutine of r, t.               *)
Return(r, t, entry, e) ==
  /\ got' = [got EXCEPT ![r][t] = entry]
  /\ err' = [err EXCEPT ![r][t] = e]
  /\ GoTo(r, t, "loaded")

(* The follower's select: its own group is cancelled, or the call is done.  *)
FollowerCancelled(r, t) ==
  /\ pc[r][t] = "follower"
  /\ group[r] # "live"
  /\ Return(r, t, NoEntry, group[r])
  /\ UNCHANGED <<store, flights, now, calls, leader, closed>>

FollowerServed(r, t) ==
  LET l == leader[r][t] IN
  /\ pc[r][t] = "follower"
  /\ closed[l][t]
  /\ Return(r, t, got[l][t], err[l][t])
  /\ UNCHANGED <<store, flights, now, calls, leader, closed>>

-----------------------------------------------------------------------------
(* The leader's fetch, outside the mutex: it waits for the rate gate        *)
(* and downloads the tile, and ends with (entry, error).                    *)
Fetched(r, t, entry, e) ==
  /\ got' = [got EXCEPT ![r][t] = entry]
  /\ err' = [err EXCEPT ![r][t] = e]
  /\ GoTo(r, t, "fetched")
  /\ UNCHANGED <<store, flights, now, calls, leader, closed>>

(* A cancellation may come too late to stop the download.                   *)
FetchSucceeds(r, t) ==
  /\ pc[r][t] = "fetching"
  /\ \E body \in Bodies : Fetched(r, t, [body |-> body, fetchedAt |-> now], "none")

(* A status other than 200, a network error, the client's own Timeout or a  *)
(* body over Limits.MaximumTileBytes is "unavailable"; a Timeout while the   *)
(* body is read is in net/http a DeadlineExceeded, when DownloadErrors says  *)
(* so.  Once groupContext is done, the gate's wait or the HTTP request ends  *)
(* with its Err().                                                          *)
FetchErrors(r) == DownloadErrors \cup ({group[r]} \ {"live"})

FetchFails(r, t) ==
  /\ pc[r][t] = "fetching"
  /\ \E e \in FetchErrors(r) : Fetched(r, t, NoEntry, e)

\* Mutant of Settle: the followers of a failed download are not woken.
SettleSilently(r, t) ==
  /\ flights' = [flights EXCEPT ![t] = NoLeader]
  /\ closed' = [closed EXCEPT ![r][t] = err[r][t] = "none"]

(* The call leaves the table of flights and its followers are woken.        *)
Settle(r, t) ==
  /\ flights' = [flights EXCEPT ![t] = NoLeader]
  /\ closed' = [closed EXCEPT ![r][t] = TRUE]

(* tileCache.load, second critical section.                                 *)
Publish(r, t) ==
  /\ pc[r][t] = "fetched"
  /\ IF err[r][t] = "none" THEN Add(t, got[r][t]) ELSE UNCHANGED store
  /\ Settle(r, t)
  /\ GoTo(r, t, "loaded")
  /\ UNCHANGED <<now, calls, leader, got, err>>

-----------------------------------------------------------------------------
(* What the goroutine does with the pair load returned.                     *)
LoadFailed(r, t) ==
  /\ pc[r][t] = "loaded"
  /\ err[r][t] # "none"
  /\ Fail(r, t, err[r][t])
  /\ UNCHANGED <<store, flights, now, wanted, startedAt, context, answer, leader, got, err, closed>>

\* Mutant of Invalidate: the entry that Decode refused stays in the cache.
InvalidateNothing(t) == UNCHANGED store

(* invalidate: whatever entry is stored for the key by now is removed.      *)
Invalidate(t) == Discard(t)

(* Decode refuses the tile.                                                 *)
Undecodable(r, t) ==
  /\ pc[r][t] = "loaded"
  /\ err[r][t] = "none"
  /\ ~ got[r][t].body.decodes
  /\ Invalidate(t)
  /\ Fail(r, t, "unavailable")
  /\ UNCHANGED <<flights, now, wanted, startedAt, context, answer, leader, got, err, closed>>

Decoded(r, t) ==
  /\ pc[r][t] = "loaded"
  /\ err[r][t] = "none"
  /\ got[r][t].body.decodes
  /\ GoTo(r, t, "ok")
  /\ UNCHANGED <<store, flights, now, calls, leader, got, err, closed>>

\* Mutant of SnapshotFetchedAt: the newest tile dates the snapshot.
NewestFetchedAt(r) == Max({got[r][t].fetchedAt : t \in wanted[r]})

(* The oldest tile dates the snapshot.                                      *)
SnapshotFetchedAt(r) == Min({got[r][t].fetchedAt : t \in wanted[r]})

(* group.Wait returns: the first error of the group, or the snapshot unless *)
(* it is older than Ttl.                                                    *)
Finish(r) ==
  /\ wanted[r] # {}
  /\ answer[r] = "none"
  /\ \A t \in wanted[r] : pc[r][t] \in Done
  /\ answer' = [answer EXCEPT ![r] =
       CASE groupErr[r] # "none" -> groupErr[r]
         [] groupErr[r] = "none" /\ now - SnapshotFetchedAt(r) > Ttl -> "stale"
         [] OTHER -> "ok"]
  /\ UNCHANGED <<store, flights, now, wanted, startedAt, context, group, groupErr, local>>

-----------------------------------------------------------------------------
(* The caller's context ends while Snapshot runs: the client disconnects,   *)
(* or SimulationTimeout passes.                                             *)
EndContext(r) ==
  /\ wanted[r] # {}
  /\ answer[r] = "none"
  /\ context[r] = "live"
  /\ \E c \in ContextEnds :
       /\ context' = [context EXCEPT ![r] = c]
       /\ group' = [group EXCEPT ![r] = IF @ = "live" THEN c ELSE @]
  /\ UNCHANGED <<store, flights, now, wanted, startedAt, groupErr, answer, local>>

Tick ==
  /\ now < MaxTime
  /\ now' = now + 1
  /\ UNCHANGED <<store, flights, calls, local>>

Answered == \A r \in Requests : answer[r] # "none"

(* All the requests of the instance have been answered.                     *)
Terminated == Answered /\ UNCHANGED vars

Load(r, t) == LoadHit(r, t) \/ LoadJoins(r, t) \/ LoadLeads(r, t)

Follow(r, t) == FollowerCancelled(r, t) \/ FollowerServed(r, t)

Fetch(r, t) == FetchSucceeds(r, t) \/ FetchFails(r, t)

Consume(r, t) == LoadFailed(r, t) \/ Undecodable(r, t) \/ Decoded(r, t)

Goroutine(r, t) ==
  Load(r, t) \/ Follow(r, t) \/ Fetch(r, t) \/ Publish(r, t) \/ Consume(r, t)

Next ==
  \/ \E r \in Requests : Start(r) \/ Finish(r) \/ EndContext(r)
  \/ \E r \in Requests, t \in Tiles : Goroutine(r, t)
  \/ Tick
  \/ Terminated

Spec == Init /\ [][Next]_vars

(* A goroutine that can run does: the scheduler runs every runnable         *)
(* goroutine, the gate's timer fires, and the HTTP client's Timeout ends    *)
(* every download.  Nothing is assumed of callers, contexts or the clock.   *)
FairSpec ==
  /\ Spec
  /\ \A r \in Requests : WF_vars(Finish(r))
  /\ \A r \in Requests, t \in Tiles : WF_vars(Goroutine(r, t))

-----------------------------------------------------------------------------
TypeOK ==
  /\ entries \in [Tiles -> Entry \cup {NoEntry}]
  /\ flights \in [Tiles -> Requests \cup {NoLeader}]
  /\ now \in Nat
  /\ wanted \in [Requests -> SUBSET Tiles]
  /\ startedAt \in [Requests -> Nat]
  /\ context \in [Requests -> {"live"} \cup ContextErrors]
  /\ group \in [Requests -> {"live"} \cup ContextErrors]
  /\ groupErr \in [Requests -> {"none"} \cup Errors]
  /\ pc \in [Requests -> [Tiles -> {"idle", "started", "follower", "loaded"}
                                    \cup Downloading \cup Done]]
  /\ leader \in [Requests -> [Tiles -> Requests \cup {NoLeader}]]
  /\ got \in [Requests -> [Tiles -> Entry \cup {NoEntry}]]
  /\ err \in [Requests -> [Tiles -> {"none"} \cup Errors]]
  /\ closed \in [Requests -> [Tiles -> BOOLEAN]]
  /\ answer \in [Requests -> {"none", "ok", "stale"} \cup Errors]

LoadState(place) ==
  IF place \in Downloading THEN "downloading"
  ELSE IF place \in {"loaded"} \cup Done THEN "answered"
  ELSE IF place = "follower" THEN "sharing"
  ELSE IF place = "started" THEN "asking" ELSE "out"

loadState == [r \in Requests |-> [t \in Tiles |-> LoadState(pc[r][t])]]

loadAnswer ==
  [r \in Requests |-> [t \in Tiles |->
     IF LoadState(pc[r][t]) = "answered" THEN [entry |-> got[r][t], error |-> err[r][t]]
     ELSE [entry |-> NoEntry, error |-> "none"]]]

Loads == INSTANCE SharedDownloads WITH
  Callers <- Requests, Keys <- Tiles, Entries <- Entry, NoCaller <- NoLeader,
  stored <- entries, running <- flights, source <- leader,
  state <- loadState, answer <- loadAnswer

(* What callers of load may count on (SharedDownloads): whatever expiries,  *)
(* invalidations, evictions, failures and cancellations come in between, a  *)
(* tile is downloaded once at a time and never while it is stored, and      *)
(* whoever shares a download gets the outcome that its leader got.          *)
LoadsAreShared == Loads!Spec

(* A tile that does not decode does not outlive the goroutines that loaded *)
(* it: as long as it is stored, one of them has yet to decode and          *)
(* invalidate it, so no later request is condemned by a bad download.      *)
UndecodableIsTransient ==
  \A t \in Tiles :
    entries[t] # NoEntry /\ ~ entries[t].body.decodes =>
      \E r \in Requests : pc[r][t] = "loaded" /\ got[r][t] = entries[t]

(* The error of a snapshot is the root cause.  A request whose own context *)
(* is live is told of a cancellation or a deadline only when one of its    *)
(* tiles was downloaded by another request (or the provider's slow body    *)
(* says so): never because one of its own tiles failed and the errgroup    *)
(* cancelled the others.                                                   *)
CancellationIsForeign ==
  \A r \in Requests :
    answer[r] \in ContextErrors \ DownloadErrors /\ context[r] = "live" =>
      \E t \in wanted[r] : leader[r][t] \in Requests \ {r}

(* A snapshot is answered only from tiles that decode and that are all at  *)
(* most Ttl old at that moment, however long the gate, the downloads of    *)
(* the slower tiles or a shared call took.                                 *)
AnswersAreFresh ==
  [][\A r \in Requests : answer[r] = "none" /\ answer'[r] = "ok" =>
       \A t \in wanted[r] : /\ got[r][t].body.decodes
                             /\ now - got[r][t].fetchedAt <= Ttl]_vars

(* The 504 of POST /detours says "El calculo supero                        *)
(* config.SimulationTimeout" (docs/openapi.yaml): a request is told of a   *)
(* deadline only when its own passed.  The code does not keep this.        *)
DeadlineIsOwn == \A r \in Requests : answer[r] = "deadline" => context[r] = "deadline"

(* Every snapshot that is requested is answered: no goroutine waits for    *)
(* ever for a leader, for the mutex or for its group.                      *)
RequestsAnswered ==
  \A r \in Requests : wanted[r] # {} ~> answer[r] # "none"
=============================================================================

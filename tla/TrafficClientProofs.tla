------------------------- MODULE TrafficClientProofs -------------------------
(* Theorems of TrafficClient for every set of requests, tiles and bodies.   *)
EXTENDS TrafficClient, Collections

(***************************************************************************)
(* TypeOK is inductive once it also says that a follower's leader is a     *)
(* request: FollowerServed reads the call of that leader.                  *)
(***************************************************************************)
FollowersFollow ==
  \A r \in Requests, t \in Tiles : pc[r][t] = "follower" => leader[r][t] \in Requests

TypeInv == TypeOK /\ FollowersFollow

LEMMA TypeInit == Init => TypeInv
  BY CacheAssumption, ClientAssumption
  DEF Init, CacheInit, TypeInv, FollowersFollow, TypeOK, Entry, Errors, ContextErrors, Done, Downloading

LEMMA StoreSteps ==
  ASSUME TypeOK, NEW t \in Tiles
  PROVE  /\ Touch(t) => entries' = entries
         /\ Discard(t) => entries' = [entries EXCEPT ![t] = NoEntry]
         /\ \A entry \in Entry \cup {NoEntry} : Add(t, entry) =>
              /\ entries' \in [Tiles -> Entry \cup {NoEntry}]
              /\ \A k \in Tiles \ {t} : entries'[k] \in {NoEntry, entries[k]}
              /\ entries'[t] \in {NoEntry, entries[t], entry}
  BY DEF TypeOK, Touch, Discard, Add, store

(* The type part, action by action.  FollowerServed is the one that needs   *)
(* FollowersFollow.                                                         *)
LEMMA TypeOKStep == TypeInv /\ [Next]_vars => TypeOK'
<1> SUFFICES ASSUME TypeOK, FollowersFollow, [Next]_vars PROVE TypeOK'
  BY DEF TypeInv
<1> USE DEF TypeOK, Errors, ContextErrors, Downloading, Done
<1>1. ASSUME NEW r \in Requests, Start(r) PROVE TypeOK'
  BY <1>1, ClientAssumption DEF Start, store
<1>2. ASSUME NEW r \in Requests, Finish(r) PROVE TypeOK'
  BY <1>2 DEF Finish, store, local
<1>3. ASSUME NEW r \in Requests, EndContext(r) PROVE TypeOK'
  BY <1>3, ClientAssumption DEF EndContext, store, local
<1>4. ASSUME NEW r \in Requests, NEW t \in Tiles, Goroutine(r, t) PROVE TypeOK'
  <2>1. CASE LoadHit(r, t)
    BY <2>1, StoreSteps DEF LoadHit, GoTo, calls, Servable
  <2>2. CASE LoadJoins(r, t)
    BY <2>2, StoreSteps DEF LoadJoins, Misses, DropExpired, GoTo, calls
  <2>3. CASE LoadLeads(r, t)
    BY <2>3, StoreSteps DEF LoadLeads, Misses, DropExpired, GoTo, calls
  <2>4. CASE FollowerCancelled(r, t)
    BY <2>4 DEF FollowerCancelled, Return, GoTo, store, calls
  <2>5. CASE FollowerServed(r, t)
    BY <2>5 DEF FollowerServed, Return, GoTo, store, calls, FollowersFollow
  <2>6. CASE FetchSucceeds(r, t)
    BY <2>6 DEF FetchSucceeds, Fetched, GoTo, store, calls, Entry
  <2>7. CASE FetchFails(r, t)
    <3>1. PICK e \in FetchErrors(r) : Fetched(r, t, NoEntry, e)
      BY <2>7 DEF FetchFails
    <3>2. e \in Errors
      BY ClientAssumption DEF FetchErrors
    <3> QED
      BY <3>1, <3>2 DEF Fetched, GoTo, store, calls
  <2>8. CASE Publish(r, t)
    <3>1. entries' \in [Tiles -> Entry \cup {NoEntry}]
      BY <2>8, StoreSteps DEF Publish, store
    <3> QED
      BY <2>8, <3>1 DEF Publish, Settle, GoTo, calls
  <2>9. CASE LoadFailed(r, t)
    BY <2>9 DEF LoadFailed, Fail, Kept, GoTo, store
  <2>10. CASE Undecodable(r, t)
    <3>1. entries' \in [Tiles -> Entry \cup {NoEntry}]
      BY <2>10, StoreSteps DEF Undecodable, Invalidate
    <3> QED
      BY <2>10, <3>1 DEF Undecodable, Fail, Kept, GoTo
  <2>11. CASE Decoded(r, t)
    BY <2>11 DEF Decoded, GoTo, store, calls
  <2> QED
    BY <1>4, <2>1, <2>2, <2>3, <2>4, <2>5, <2>6, <2>7, <2>8, <2>9, <2>10, <2>11
    DEF Goroutine, Load, Follow, Fetch, Consume
<1>5. CASE Tick
  BY <1>5 DEF Tick, store, calls, local
<1>6. CASE UNCHANGED vars
  BY <1>6 DEF vars, calls, local
<1> QED
  BY <1>1, <1>2, <1>3, <1>4, <1>5, <1>6 DEF Next, Terminated

(* Only LoadJoins makes a follower, of the leader that flights names.       *)
LEMMA FollowersFollowStep == TypeInv /\ [Next]_vars => FollowersFollow'
<1> SUFFICES ASSUME TypeOK, FollowersFollow, [Next]_vars,
                    NEW q \in Requests, NEW k \in Tiles, pc'[q][k] = "follower"
             PROVE  leader'[q][k] \in Requests
  BY DEF TypeInv, FollowersFollow
<1> USE DEF TypeOK, FollowersFollow
<1>1. ASSUME NEW r \in Requests, Start(r) PROVE leader'[q][k] \in Requests
  BY <1>1 DEF Start
<1>2. ASSUME NEW r \in Requests, Finish(r) \/ EndContext(r) PROVE leader'[q][k] \in Requests
  BY <1>2 DEF Finish, EndContext, local
<1>3. ASSUME NEW r \in Requests, NEW t \in Tiles, Goroutine(r, t)
      PROVE  leader'[q][k] \in Requests
  <2>1. CASE LoadJoins(r, t)
    BY <2>1 DEF LoadJoins, Misses, GoTo
  <2>2. CASE ~ LoadJoins(r, t)
    <3>1. leader' = leader
      BY <1>3, <2>2 DEF Goroutine, Load, LoadHit, LoadLeads, Follow, FollowerCancelled,
         FollowerServed, Fetch, FetchSucceeds, FetchFails, Fetched, Publish, Consume,
         LoadFailed, Undecodable, Decoded
    <3>2. \E place \in {"fetching", "fetched", "loaded", "ok", "failed"} : GoTo(r, t, place)
      BY <1>3, <2>2 DEF Goroutine, Load, LoadHit, LoadLeads, Follow, FollowerCancelled,
         FollowerServed, Return, Fetch, FetchSucceeds, FetchFails, Fetched, Publish, Consume,
         LoadFailed, Undecodable, Decoded, Fail
    <3>3. pc[q][k] = "follower"
      BY <3>2 DEF GoTo
    <3> QED
      BY <3>1, <3>3
  <2> QED
    BY <2>1, <2>2
<1>4. CASE Tick \/ UNCHANGED vars
  BY <1>4 DEF Tick, vars, local
<1> QED
  BY <1>1, <1>2, <1>3, <1>4 DEF Next, Terminated

LEMMA TypeStep == TypeInv /\ [Next]_vars => TypeInv'
  BY TypeOKStep, FollowersFollowStep DEF TypeInv

(* Every value of the model keeps its type, for any instance.              *)
THEOREM TypeCorrect == Spec => []TypeOK
<1>1. TypeInv => TypeOK
  BY DEF TypeInv
<1> QED
  BY <1>1, TypeInit, TypeStep, PTL DEF Spec
-----------------------------------------------------------------------------
(***************************************************************************)
(* One download per tile.  SingleFlight and NoFlightForStored need each    *)
(* other and TypeOK only; FollowersHaveLeader needs both to know that the  *)
(* call a follower joins is another request's and is settled by it.        *)
(***************************************************************************)
(* Concurrent loads of a tile share one download: at any time the only     *)
(* goroutine between the two critical sections of load for a tile is the    *)
(* leader that flights names, whatever expiries, invalidations, evictions  *)
(* and cancellations come in between.                                      *)
SingleFlight ==
  \A r \in Requests, t \in Tiles : pc[r][t] \in Downloading <=> flights[t] = r

(* A tile is never downloaded while the cache holds it: neither a leader's *)
(* re-check nor a second copy is needed when the download is published.    *)
NoFlightForStored == \A t \in Tiles : flights[t] # NoLeader => entries[t] = NoEntry

(* No lost wake-up: a goroutine that waits for another's call either finds *)
(* it closed or its leader is still on the way to close it.                *)
FollowersHaveLeader ==
  \A r \in Requests, t \in Tiles :
    pc[r][t] = "follower" =>
      LET l == leader[r][t] IN
      l \in Requests \ {r} /\ (closed[l][t] \/ flights[t] = l)

FlightInv == SingleFlight /\ NoFlightForStored /\ FollowersHaveLeader

(* Goroutines exist only for the tiles of a call that has begun.            *)
OnlyWanted == \A r \in Requests, t \in Tiles : pc[r][t] # "idle" => t \in wanted[r]

(* A goroutine's step moves a goroutine that has been started.              *)
LEMMA GoroutineMoves ==
  ASSUME TypeOK, NEW r \in Requests, NEW t \in Tiles, Goroutine(r, t)
  PROVE  /\ pc[r][t] \in {"started", "follower", "fetching", "fetched", "loaded"}
         /\ \E place \in {"follower", "fetching", "fetched", "loaded", "ok", "failed"} :
              pc' = [pc EXCEPT ![r][t] = place]
         /\ UNCHANGED <<now, wanted, startedAt, context, answer>>
<1>1. CASE Load(r, t)
  BY <1>1 DEF Load, LoadHit, LoadJoins, LoadLeads, Misses, GoTo, calls
<1>2. CASE Follow(r, t)
  BY <1>2 DEF Follow, FollowerCancelled, FollowerServed, Return, GoTo, calls
<1>3. CASE Fetch(r, t)
  BY <1>3 DEF Fetch, FetchSucceeds, FetchFails, Fetched, GoTo, calls
<1>4. CASE Publish(r, t)
  BY <1>4 DEF Publish, GoTo, calls
<1>5. CASE Consume(r, t)
  BY <1>5 DEF Consume, LoadFailed, Undecodable, Decoded, Fail, GoTo, calls
<1> QED
  BY <1>1, <1>2, <1>3, <1>4, <1>5 DEF Goroutine

LEMMA OnlyWantedInit == Init => OnlyWanted
  BY DEF Init, OnlyWanted

LEMMA OnlyWantedStep == TypeOK /\ OnlyWanted /\ [Next]_vars => OnlyWanted'
<1> SUFFICES ASSUME TypeOK, OnlyWanted, [Next]_vars PROVE OnlyWanted'
  OBVIOUS
<1> USE DEF TypeOK, OnlyWanted
<1>1. ASSUME NEW r \in Requests, Start(r) PROVE OnlyWanted'
  BY <1>1 DEF Start
<1>2. ASSUME NEW r \in Requests, Finish(r) \/ EndContext(r) PROVE OnlyWanted'
  BY <1>2 DEF Finish, EndContext, local
<1>3. ASSUME NEW r \in Requests, NEW t \in Tiles, Goroutine(r, t) PROVE OnlyWanted'
  <2>1. pc[r][t] # "idle" /\ wanted' = wanted
    BY <1>3, GoroutineMoves
  <2>2. PICK place : pc' = [pc EXCEPT ![r][t] = place]
    BY <1>3, GoroutineMoves
  <2> QED
    BY <2>1, <2>2
<1>4. CASE Tick \/ UNCHANGED vars
  BY <1>4 DEF Tick, vars, calls, local
<1> QED
  BY <1>1, <1>2, <1>3, <1>4 DEF Next, Terminated

LEMMA FlightInit == Init => FlightInv
  BY ClientAssumption
  DEF Init, CacheInit, FlightInv, SingleFlight, NoFlightForStored, FollowersHaveLeader, Downloading

(* Steps that neither settle, start nor join a call.                        *)
LEMMA FlightFrame ==
  ASSUME TypeOK, FlightInv, UNCHANGED <<flights, leader, closed>>,
         \A t \in Tiles : entries'[t] \in {NoEntry, entries[t]},
         \A r \in Requests, t \in Tiles :
           /\ pc'[r][t] \in Downloading <=> pc[r][t] \in Downloading
           /\ pc'[r][t] = "follower" => pc[r][t] = "follower"
  PROVE  FlightInv'
  BY DEF FlightInv, SingleFlight, NoFlightForStored, FollowersHaveLeader

LEMMA FlightStep == TypeInv /\ OnlyWanted /\ FlightInv /\ [Next]_vars => FlightInv'
<1> SUFFICES ASSUME TypeOK, OnlyWanted, FlightInv, [Next]_vars PROVE FlightInv'
  BY DEF TypeInv
<1> USE DEF TypeOK, Downloading, Done
<1>1. ASSUME NEW r \in Requests, Start(r) PROVE FlightInv'
  <2>1. \A k \in Tiles : pc[r][k] = "idle"
    BY <1>1 DEF Start, OnlyWanted
  <2>2. \A q \in Requests, k \in Tiles :
          \/ pc'[q][k] = pc[q][k]
          \/ pc[q][k] = "idle" /\ pc'[q][k] = "started"
    BY <1>1, <2>1 DEF Start
  <2> QED
    BY <1>1, <2>2, FlightFrame DEF Start, store
<1>2. ASSUME NEW r \in Requests, Finish(r) \/ EndContext(r) PROVE FlightInv'
  BY <1>2, FlightFrame DEF Finish, EndContext, store, local
<1>3. ASSUME NEW r \in Requests, NEW t \in Tiles, Goroutine(r, t) PROVE FlightInv'
  <2>1. CASE LoadHit(r, t)
    BY <2>1, StoreSteps, FlightFrame DEF LoadHit, GoTo
  <2>2. CASE LoadJoins(r, t)
    <3>1. /\ pc[r][t] = "started" /\ pc' = [pc EXCEPT ![r][t] = "follower"]
          /\ flights[t] # NoLeader /\ flights' = flights /\ closed' = closed
          /\ leader' = [leader EXCEPT ![r][t] = flights[t]]
      BY <2>2 DEF LoadJoins, Misses, GoTo
    <3>2. entries' = [entries EXCEPT ![t] = NoEntry]
      BY <2>2, StoreSteps DEF LoadJoins, Misses, DropExpired
    <3>3. SingleFlight' /\ NoFlightForStored'
      BY <3>1, <3>2 DEF FlightInv, SingleFlight, NoFlightForStored
    <3>4. flights[t] \in Requests \ {r}
      <4>1. flights[t] # r
        BY <3>1 DEF FlightInv, SingleFlight
      <4>2. flights[t] \in Requests
        BY <3>1
      <4> QED
        BY <4>1, <4>2
    <3>5. FollowersHaveLeader'
      BY <3>1, <3>4 DEF FlightInv, FollowersHaveLeader
    <3> QED
      BY <3>3, <3>5 DEF FlightInv
  <2>3. CASE LoadLeads(r, t)
    <3>1. /\ pc[r][t] = "started" /\ pc' = [pc EXCEPT ![r][t] = "fetching"]
          /\ flights[t] = NoLeader /\ flights' = [flights EXCEPT ![t] = r]
          /\ UNCHANGED <<closed, leader>>
      BY <2>3 DEF LoadLeads, Misses, GoTo
    <3>2. entries' = [entries EXCEPT ![t] = NoEntry]
      BY <2>3, StoreSteps DEF LoadLeads, Misses, DropExpired
    <3>3. SingleFlight' /\ NoFlightForStored'
      BY <3>1, <3>2, ClientAssumption DEF FlightInv, SingleFlight, NoFlightForStored
    <3>4. FollowersHaveLeader'
      BY <3>1, ClientAssumption DEF FlightInv, FollowersHaveLeader
    <3> QED
      BY <3>3, <3>4 DEF FlightInv
  <2>4. CASE FollowerCancelled(r, t)
    BY <2>4, FlightFrame DEF FollowerCancelled, Return, GoTo, store
  <2>5. CASE FollowerServed(r, t)
    BY <2>5, FlightFrame DEF FollowerServed, Return, GoTo, store
  <2>6. CASE FetchSucceeds(r, t)
    BY <2>6, FlightFrame DEF FetchSucceeds, Fetched, GoTo, store
  <2>7. CASE FetchFails(r, t)
    BY <2>7, FlightFrame DEF FetchFails, Fetched, GoTo, store
  <2>8. CASE Publish(r, t)
    <3>1. /\ pc[r][t] = "fetched" /\ pc' = [pc EXCEPT ![r][t] = "loaded"]
          /\ flights' = [flights EXCEPT ![t] = NoLeader]
          /\ closed' = [closed EXCEPT ![r][t] = TRUE] /\ leader' = leader
          /\ Add(t, got[r][t]) \/ UNCHANGED entries
      BY <2>8 DEF Publish, Settle, GoTo, store
    <3>2. \A k \in Tiles \ {t} : entries'[k] \in {NoEntry, entries[k]}
      BY <3>1, StoreSteps, SMTT(20)
    <3>3. flights[t] = r
      BY <3>1 DEF FlightInv, SingleFlight
    <3>4. SingleFlight' /\ NoFlightForStored'
      BY <3>1, <3>2, <3>3, ClientAssumption DEF FlightInv, SingleFlight, NoFlightForStored
    <3>5. FollowersHaveLeader'
      BY <3>1, <3>3 DEF FlightInv, FollowersHaveLeader
    <3> QED
      BY <3>4, <3>5 DEF FlightInv
  <2>9. CASE LoadFailed(r, t)
    BY <2>9, FlightFrame DEF LoadFailed, Fail, GoTo, store
  <2>10. CASE Undecodable(r, t)
    BY <2>10, StoreSteps, FlightFrame DEF Undecodable, Invalidate, Fail, GoTo
  <2>11. CASE Decoded(r, t)
    BY <2>11, FlightFrame DEF Decoded, GoTo, store
  <2> QED
    BY <1>3, <2>1, <2>2, <2>3, <2>4, <2>5, <2>6, <2>7, <2>8, <2>9, <2>10, <2>11
    DEF Goroutine, Load, Follow, Fetch, Consume
<1>4. CASE Tick \/ UNCHANGED vars
  BY <1>4, FlightFrame DEF Tick, vars, store, local
<1> QED
  BY <1>1, <1>2, <1>3, <1>4 DEF Next, Terminated

(* Concurrent loads of a tile share one download, which is never a         *)
(* download of a tile the cache holds, and whoever waits for it is served  *)
(* by another request's goroutine that has settled it or will.             *)
THEOREM OneDownloadPerTile == Spec => [](SingleFlight /\ NoFlightForStored /\ FollowersHaveLeader)
<1>1. FlightInv => SingleFlight /\ NoFlightForStored /\ FollowersHaveLeader
  BY DEF FlightInv
<1>2. TypeInv => TypeOK
  BY DEF TypeInv
<1> QED
  BY <1>1, <1>2, TypeInit, TypeStep, OnlyWantedInit, OnlyWantedStep, FlightInit, FlightStep, PTL DEF Spec
-----------------------------------------------------------------------------
(***************************************************************************)
(* The pair (entry, error) of a goroutine: empty until load has a result,  *)
(* and never both an entry and an error.                                   *)
(***************************************************************************)
PairInv ==
  \A r \in Requests, t \in Tiles :
    /\ pc[r][t] \in {"idle", "started", "follower", "fetching"} => err[r][t] = "none"
    /\ err[r][t] # "none" => got[r][t] = NoEntry

LEMMA PairInit == Init => PairInv
  BY DEF Init, PairInv

LEMMA PairStep == TypeInv /\ OnlyWanted /\ PairInv /\ [Next]_vars => PairInv'
<1> SUFFICES ASSUME TypeOK, FollowersFollow, OnlyWanted, PairInv, [Next]_vars PROVE PairInv'
  BY DEF TypeInv
<1> USE DEF TypeOK, PairInv
<1>1. ASSUME NEW r \in Requests, Start(r) PROVE PairInv'
  BY <1>1 DEF Start, OnlyWanted
<1>2. ASSUME NEW r \in Requests, Finish(r) \/ EndContext(r) PROVE PairInv'
  BY <1>2 DEF Finish, EndContext, local
<1>3. ASSUME NEW r \in Requests, NEW t \in Tiles, Goroutine(r, t) PROVE PairInv'
  <2> USE DEF GoTo
  <2>1. CASE LoadHit(r, t)
    BY <2>1 DEF LoadHit
  <2>2. CASE LoadJoins(r, t) \/ LoadLeads(r, t)
    <3>1. pc[r][t] = "started" /\ UNCHANGED <<got, err>>
      BY <2>2 DEF LoadJoins, LoadLeads, Misses
    <3>2. pc' = [pc EXCEPT ![r][t] = "follower"] \/ pc' = [pc EXCEPT ![r][t] = "fetching"]
      BY <2>2 DEF LoadJoins, LoadLeads
    <3>3. \A q \in Requests, k \in Tiles :
            pc'[q][k] = pc[q][k] \/ pc[q][k] = "started"
      <4>1. CASE pc' = [pc EXCEPT ![r][t] = "follower"]
        BY <3>1, <4>1
      <4>2. CASE pc' = [pc EXCEPT ![r][t] = "fetching"]
        BY <3>1, <4>2
      <4> QED
        BY <3>2, <4>1, <4>2
    <3> QED
      BY <3>1, <3>3
  <2>3. CASE FollowerCancelled(r, t)
    BY <2>3 DEF FollowerCancelled, Return
  <2>4. CASE FollowerServed(r, t)
    BY <2>4 DEF FollowerServed, Return, FollowersFollow
  <2>5. CASE FetchSucceeds(r, t)
    <3>1. PICK body \in Bodies : Fetched(r, t, [body |-> body, fetchedAt |-> now], "none")
      BY <2>5 DEF FetchSucceeds
    <3> QED
      BY <3>1 DEF Fetched
  <2>6. CASE FetchFails(r, t)
    <3>1. PICK e \in FetchErrors(r) : Fetched(r, t, NoEntry, e)
      BY <2>6 DEF FetchFails
    <3> QED
      BY <3>1 DEF Fetched
  <2>7. CASE Publish(r, t) \/ Consume(r, t)
    <3>1. UNCHANGED <<got, err>>
      BY <2>7 DEF Publish, Consume, LoadFailed, Undecodable, Decoded
    <3>2. PICK place \in {"loaded", "ok", "failed"} : pc' = [pc EXCEPT ![r][t] = place]
      BY <2>7 DEF Publish, Consume, LoadFailed, Undecodable, Decoded, Fail
    <3>3. \A q \in Requests, k \in Tiles :
            pc'[q][k] \in {"idle", "started", "follower", "fetching"} => pc'[q][k] = pc[q][k]
      BY <3>2
    <3> QED
      BY <3>1, <3>3
  <2> QED
    BY <1>3, <2>1, <2>2, <2>3, <2>4, <2>5, <2>6, <2>7 DEF Goroutine, Load, Follow, Fetch, Consume
<1>4. CASE Tick \/ UNCHANGED vars
  BY <1>4 DEF Tick, vars, local
<1> QED
  BY <1>1, <1>2, <1>3, <1>4 DEF Next, Terminated

-----------------------------------------------------------------------------
(***************************************************************************)
(* The root cause.  groupContext of a live request is only cancelled by a  *)
(* failure the group has kept, so a goroutine that meets that cancellation *)
(* comes too late to be the group's error; what is left is an error that   *)
(* came with another request's call.                                       *)
(***************************************************************************)
Cancels == ContextErrors \ DownloadErrors

Foreign(r, t) == leader[r][t] \in Requests \ {r}

RootCauseInv ==
  /\ \A r \in Requests : context[r] = "live" /\ group[r] # "live" => groupErr[r] # "none"
  /\ \A r \in Requests, t \in Tiles :
       /\ pc[r][t] \in {"fetched", "loaded"} /\ err[r][t] \in Cancels
       /\ context[r] = "live" /\ groupErr[r] = "none"
       => Foreign(r, t)
  /\ \A r \in Requests :
       groupErr[r] \in Cancels /\ context[r] = "live" => \E t \in wanted[r] : Foreign(r, t)
  /\ \A r \in Requests : answer[r] \in Errors => groupErr[r] = answer[r]

LEMMA RootCauseInit == Init => RootCauseInv
  BY DEF Init, RootCauseInv, Cancels, ContextErrors, Errors

(* Steps after which no error is new: none is returned, kept or answered.   *)
LEMMA RootCauseFrame ==
  ASSUME TypeOK, RootCauseInv, UNCHANGED <<group, groupErr, context, wanted, answer, err>>,
         \A r \in Requests, t \in Tiles :
           /\ pc'[r][t] \in {"fetched", "loaded"} /\ err[r][t] # "none"
                => pc[r][t] \in {"fetched", "loaded"}
           /\ Foreign(r, t) => Foreign(r, t)'
  PROVE  RootCauseInv'
<1>1. ASSUME NEW r \in Requests, NEW t \in Tiles,
             pc'[r][t] \in {"fetched", "loaded"}, err'[r][t] \in Cancels,
             context'[r] = "live", groupErr'[r] = "none"
      PROVE  Foreign(r, t)'
  BY <1>1 DEF RootCauseInv, Cancels, ContextErrors
<1>2. ASSUME NEW r \in Requests, groupErr'[r] \in Cancels, context'[r] = "live"
      PROVE  \E t \in wanted'[r] : Foreign(r, t)'
  <2>1. PICK t \in wanted[r] : Foreign(r, t)
    BY <1>2 DEF RootCauseInv
  <2> QED
    BY <2>1 DEF TypeOK
<1> QED
  BY <1>1, <1>2 DEF RootCauseInv, Cancels

(* Steps that give goroutine r, t a pair with an error that is foreign, or  *)
(* the state of a cancelled group, or a download's own failure.             *)
LEMMA RootCauseReturn ==
  ASSUME TypeOK, RootCauseInv, NEW r \in Requests, NEW t \in Tiles, NEW e,
         UNCHANGED <<group, groupErr, context, wanted, answer, leader>>,
         err' = [err EXCEPT ![r][t] = e],
         NEW place, pc' = [pc EXCEPT ![r][t] = place],
         e \in Cancels => Foreign(r, t) \/ (group[r] # "live" /\ e = group[r])
  PROVE  RootCauseInv'
<1> USE DEF TypeOK
<1>1. \A q \in Requests, k \in Tiles : Foreign(q, k)' = Foreign(q, k)
  BY DEF Foreign
<1>2. ASSUME NEW q \in Requests, NEW k \in Tiles,
             pc'[q][k] \in {"fetched", "loaded"}, err'[q][k] \in Cancels,
             context[q] = "live", groupErr[q] = "none"
      PROVE  Foreign(q, k)
  <2>1. CASE q = r /\ k = t
    BY <1>2, <2>1 DEF RootCauseInv
  <2>2. CASE ~ (q = r /\ k = t)
    BY <1>2, <2>2 DEF RootCauseInv
  <2> QED
    BY <2>1, <2>2
<1> QED
  BY <1>1, <1>2 DEF RootCauseInv, Cancels

LEMMA RootCauseFail ==
  ASSUME TypeOK, OnlyWanted, RootCauseInv, NEW r \in Requests, NEW t \in Tiles, NEW e \in Errors,
         pc[r][t] = "loaded", Fail(r, t, e),
         e = "unavailable" \/ e = err[r][t],
         UNCHANGED <<context, wanted, answer, leader, err>>
  PROVE  RootCauseInv'
<1> USE DEF TypeOK
<1>1. \A q \in Requests, k \in Tiles : Foreign(q, k)' = Foreign(q, k)
  BY DEF Foreign
<1>2. /\ pc' = [pc EXCEPT ![r][t] = "failed"]
      /\ \A q \in Requests : groupErr'[q] = IF q = r THEN Kept(groupErr[q], e) ELSE groupErr[q]
      /\ \A q \in Requests : q # r => group'[q] = group[q]
  BY DEF Fail, GoTo
<1>3. \A q \in Requests : groupErr[q] # "none" => groupErr'[q] = groupErr[q]
  BY <1>2 DEF Kept
<1>4. groupErr'[r] # "none"
  BY <1>2 DEF Kept, Errors, ContextErrors
<1>5. \A q \in Requests : context'[q] = "live" /\ group'[q] # "live" => groupErr'[q] # "none"
  BY <1>2, <1>3, <1>4 DEF RootCauseInv
<1>6. \A q \in Requests, k \in Tiles :
       /\ pc'[q][k] \in {"fetched", "loaded"} /\ err'[q][k] \in Cancels
       /\ context'[q] = "live" /\ groupErr'[q] = "none"
       => Foreign(q, k)
  BY <1>2, <1>3 DEF RootCauseInv
<1>7. ASSUME NEW q \in Requests, groupErr'[q] \in Cancels, context[q] = "live"
      PROVE  \E k \in wanted[q] : Foreign(q, k)
  <2>1. CASE q = r /\ groupErr[r] = "none"
    <3>1. groupErr'[r] = e /\ e = err[r][t]
      BY <1>2, <1>7, <2>1 DEF Kept, Cancels, ContextErrors
    <3>2. Foreign(r, t)
      BY <1>7, <2>1, <3>1 DEF RootCauseInv
    <3> QED
      BY <2>1, <3>2 DEF OnlyWanted
  <2>2. CASE ~ (q = r /\ groupErr[r] = "none")
    BY <1>2, <1>3, <1>7, <2>2 DEF RootCauseInv
  <2> QED
    BY <2>1, <2>2
<1>8. \A q \in Requests : answer'[q] \in Errors => groupErr'[q] = answer'[q]
  BY <1>3 DEF RootCauseInv, Errors, ContextErrors
<1> QED
  BY <1>1, <1>5, <1>6, <1>7, <1>8 DEF RootCauseInv, Cancels

LEMMA RootCauseStep ==
  TypeInv /\ FlightInv /\ OnlyWanted /\ PairInv /\ RootCauseInv /\ [Next]_vars => RootCauseInv'
<1> SUFFICES ASSUME TypeOK, FlightInv, OnlyWanted, PairInv, RootCauseInv, [Next]_vars PROVE RootCauseInv'
  BY DEF TypeInv
<1> USE DEF TypeOK
<1>1. ASSUME NEW r \in Requests, Start(r) PROVE RootCauseInv'
  <2>1. /\ \A k \in Tiles : pc[r][k] = "idle"
        /\ UNCHANGED <<context, group, groupErr, answer, leader, err>>
        /\ \A q \in Requests : q # r => pc'[q] = pc[q] /\ wanted'[q] = wanted[q]
        /\ \A k \in Tiles : pc'[r][k] \in {"started", "idle"}
        /\ wanted[r] = {}
    BY <1>1 DEF Start, OnlyWanted
  <2>2. \A q \in Requests : groupErr[q] \in Cancels /\ context[q] = "live" => q # r
    BY <2>1 DEF RootCauseInv
  <2> QED
    BY <2>1, <2>2 DEF RootCauseInv, Foreign, Cancels
<1>2. ASSUME NEW r \in Requests, Finish(r) PROVE RootCauseInv'
  BY <1>2 DEF Finish, local, RootCauseInv, Foreign, Cancels, Errors, ContextErrors
<1>3. ASSUME NEW r \in Requests, EndContext(r) PROVE RootCauseInv'
  <2>1. /\ context'[r] # "live"
        /\ \A q \in Requests : q # r => context'[q] = context[q] /\ group'[q] = group[q]
        /\ UNCHANGED <<wanted, groupErr, answer, pc, leader, err>>
    BY <1>3, ClientAssumption DEF EndContext, local
  <2> QED
    BY <2>1 DEF RootCauseInv, Foreign, Cancels
<1>4. ASSUME NEW r \in Requests, NEW t \in Tiles, Goroutine(r, t) PROVE RootCauseInv'
  <2> USE DEF GoTo
  <2>1. CASE LoadHit(r, t)
    <3>1. err[r][t] = "none"
      BY <2>1 DEF LoadHit, PairInv
    <3> QED
      BY <2>1, <3>1, RootCauseFrame DEF LoadHit, calls, Foreign
  <2>2. CASE LoadJoins(r, t)
    BY <2>2, RootCauseFrame DEF LoadJoins, Misses, calls, Foreign, FlightInv, SingleFlight, Downloading
  <2>3. CASE LoadLeads(r, t)
    BY <2>3, RootCauseFrame DEF LoadLeads, calls, Foreign
  <2>4. CASE FollowerCancelled(r, t)
    BY <2>4, RootCauseReturn DEF FollowerCancelled, Return, calls
  <2>5. CASE FollowerServed(r, t)
    BY <2>5, RootCauseReturn DEF FollowerServed, Return, calls, Foreign, FlightInv, FollowersHaveLeader
  <2>6. CASE FetchSucceeds(r, t)
    <3>1. "none" \notin Cancels
      BY DEF Cancels, ContextErrors
    <3>2. PICK body \in Bodies : Fetched(r, t, [body |-> body, fetchedAt |-> now], "none")
      BY <2>6 DEF FetchSucceeds
    <3> QED
      BY <3>1, <3>2, RootCauseReturn DEF Fetched, calls
  <2>7. CASE FetchFails(r, t)
    <3>1. PICK e \in FetchErrors(r) : Fetched(r, t, NoEntry, e)
      BY <2>7 DEF FetchFails
    <3>2. e \in Cancels => group[r] # "live" /\ e = group[r]
      BY <3>1 DEF FetchErrors, Cancels
    <3> QED
      BY <3>1, <3>2, RootCauseReturn DEF Fetched, calls
  <2>8. CASE Publish(r, t)
    BY <2>8, RootCauseFrame DEF Publish, calls, Foreign
  <2>9. CASE LoadFailed(r, t)
    BY <2>9, RootCauseFail DEF LoadFailed, Errors
  <2>10. CASE Undecodable(r, t)
    BY <2>10, RootCauseFail DEF Undecodable, Errors
  <2>11. CASE Decoded(r, t)
    BY <2>11, RootCauseFrame DEF Decoded, calls, Foreign
  <2> QED
    BY <1>4, <2>1, <2>2, <2>3, <2>4, <2>5, <2>6, <2>7, <2>8, <2>9, <2>10, <2>11
    DEF Goroutine, Load, Follow, Fetch, Consume
<1>5. CASE Tick \/ UNCHANGED vars
  BY <1>5, RootCauseFrame DEF Tick, vars, calls, local, Foreign
<1> QED
  BY <1>1, <1>2, <1>3, <1>4, <1>5 DEF Next, Terminated

(* A request whose context is live is told of a cancellation or a deadline *)
(* only if one of its tiles came from another request's call (or the       *)
(* provider itself said so): an errgroup that fails for a reason of its    *)
(* own never reports the cancellation that followed.                       *)
THEOREM RootCauseIsReported == Spec => []CancellationIsForeign
<1>1. RootCauseInv => CancellationIsForeign
  BY DEF RootCauseInv, CancellationIsForeign, Foreign, Cancels, Errors
<1>2. TypeInv => TypeOK
  BY DEF TypeInv
<1> QED
  BY <1>1, <1>2, TypeInit, TypeStep, OnlyWantedInit, OnlyWantedStep, FlightInit, FlightStep,
     PairInit, PairStep, RootCauseInit, RootCauseStep, PTL DEF Spec

-----------------------------------------------------------------------------
(***************************************************************************)
(* A stored entry that does not decode has a goroutine that will remove    *)
(* it: the one that stored it, or one that has hit it since.               *)
(***************************************************************************)
LEMMA TransientInit == Init => UndecodableIsTransient
  BY DEF Init, CacheInit, UndecodableIsTransient

(* Steps that store nothing new and take no goroutine away from its pair.   *)
LEMMA TransientFrame ==
  ASSUME TypeOK, UndecodableIsTransient,
         \A t \in Tiles : entries'[t] \in {NoEntry, entries[t]},
         \A r \in Requests, t \in Tiles :
           pc[r][t] = "loaded" /\ got[r][t] # NoEntry /\ ~ got[r][t].body.decodes =>
             (pc'[r][t] = "loaded" /\ got'[r][t] = got[r][t]) \/ entries'[t] = NoEntry
  PROVE  UndecodableIsTransient'
  BY DEF UndecodableIsTransient

LEMMA TransientStep ==
  TypeInv /\ OnlyWanted /\ PairInv /\ UndecodableIsTransient /\ [Next]_vars => UndecodableIsTransient'
<1> SUFFICES ASSUME TypeOK, OnlyWanted, PairInv, UndecodableIsTransient, [Next]_vars
             PROVE  UndecodableIsTransient'
  BY DEF TypeInv
<1> USE DEF TypeOK
<1>1. ASSUME NEW r \in Requests, Start(r) PROVE UndecodableIsTransient'
  <2>1. \A k \in Tiles : pc[r][k] = "idle"
    BY <1>1 DEF Start, OnlyWanted
  <2> QED
    BY <1>1, <2>1, TransientFrame DEF Start, store
<1>2. ASSUME NEW r \in Requests, Finish(r) \/ EndContext(r) PROVE UndecodableIsTransient'
  BY <1>2, TransientFrame DEF Finish, EndContext, store, local
<1>3. ASSUME NEW r \in Requests, NEW t \in Tiles, Goroutine(r, t)
      PROVE  UndecodableIsTransient'
  <2> USE DEF GoTo
  <2>1. CASE LoadHit(r, t)
    BY <2>1, StoreSteps, TransientFrame DEF LoadHit
  <2>2. CASE LoadJoins(r, t) \/ LoadLeads(r, t)
    <3>1. pc[r][t] = "started" /\ got' = got /\ Discard(t)
      BY <2>2 DEF LoadJoins, LoadLeads, Misses, DropExpired
    <3>2. PICK place \in {"follower", "fetching"} : pc' = [pc EXCEPT ![r][t] = place]
      BY <2>2 DEF LoadJoins, LoadLeads
    <3>3. \A q \in Requests, k \in Tiles : pc[q][k] = "loaded" => pc'[q][k] = "loaded"
      BY <3>1, <3>2
    <3>4. \A k \in Tiles : entries'[k] \in {NoEntry, entries[k]}
      BY <3>1, StoreSteps
    <3> QED
      BY <3>1, <3>3, <3>4, TransientFrame
  <2>3. CASE FollowerCancelled(r, t)
    BY <2>3, TransientFrame DEF FollowerCancelled, Return, store
  <2>4. CASE FollowerServed(r, t)
    BY <2>4, TransientFrame DEF FollowerServed, Return, store
  <2>5. CASE FetchSucceeds(r, t)
    BY <2>5, TransientFrame DEF FetchSucceeds, Fetched, store
  <2>6. CASE FetchFails(r, t)
    BY <2>6, TransientFrame DEF FetchFails, Fetched, store
  <2>7. CASE Publish(r, t)
    <3>1. /\ pc[r][t] = "fetched" /\ pc' = [pc EXCEPT ![r][t] = "loaded"] /\ got' = got
          /\ Add(t, got[r][t]) \/ UNCHANGED entries
      BY <2>7 DEF Publish, store
    <3>2. /\ \A k \in Tiles \ {t} : entries'[k] \in {NoEntry, entries[k]}
          /\ entries'[t] \in {NoEntry, entries[t], got[r][t]}
      BY <3>1, StoreSteps
    <3>3. \A q \in Requests, k \in Tiles :
            pc[q][k] = "loaded" => pc'[q][k] = "loaded" /\ got'[q][k] = got[q][k]
      BY <3>1
    <3>4. pc'[r][t] = "loaded" /\ got'[r][t] = got[r][t]
      BY <3>1
    <3> QED
      BY <3>2, <3>3, <3>4, SMTT(20) DEF UndecodableIsTransient
  <2>8. CASE LoadFailed(r, t)
    BY <2>8, TransientFrame DEF LoadFailed, Fail, store, PairInv
  <2>9. CASE Undecodable(r, t)
    BY <2>9, StoreSteps, TransientFrame DEF Undecodable, Invalidate, Fail
  <2>10. CASE Decoded(r, t)
    BY <2>10, TransientFrame DEF Decoded, store
  <2> QED
    BY <1>3, <2>1, <2>2, <2>3, <2>4, <2>5, <2>6, <2>7, <2>8, <2>9, <2>10
    DEF Goroutine, Load, Follow, Fetch, Consume
<1>4. CASE Tick \/ UNCHANGED vars
  BY <1>4, TransientFrame DEF Tick, vars, store, local
<1> QED
  BY <1>1, <1>2, <1>3, <1>4 DEF Next, Terminated

(* A tile that does not decode is stored only while a goroutine that        *)
(* loaded it is about to decode and invalidate it.                          *)
THEOREM BadTilesLeave == Spec => []UndecodableIsTransient
<1>1. TypeInv => TypeOK
  BY DEF TypeInv
<1> QED
  BY <1>1, TypeInit, TypeStep, OnlyWantedInit, OnlyWantedStep, PairInit, PairStep,
     TransientInit, TransientStep, PTL DEF Spec
-----------------------------------------------------------------------------
(***************************************************************************)
(* Freshness.  A goroutine that has ended well holds an entry that decodes *)
(* and one that has failed has left its error with the group, so Finish    *)
(* dates the snapshot from entries only.  A follower is served from a call *)
(* that is closed, hence from a pair that has its result.                  *)
(***************************************************************************)
HasResult(r, t) == err[r][t] = "none" => got[r][t] # NoEntry

ResultInv ==
  \A r \in Requests, t \in Tiles :
    /\ pc[r][t] \in {"fetched", "loaded", "ok", "failed"} => HasResult(r, t)
    /\ closed[r][t] => pc[r][t] \in {"loaded", "ok", "failed"}
    /\ pc[r][t] = "ok" => err[r][t] = "none" /\ got[r][t].body.decodes
    /\ pc[r][t] = "failed" => groupErr[r] # "none"

LEMMA ResultInit == Init => ResultInv
  BY DEF Init, ResultInv, HasResult

(* Steps of goroutine r, t that leave it with a pair it has yet to consume. *)
LEMMA ResultReturn ==
  ASSUME TypeOK, ResultInv, UNCHANGED <<groupErr, closed>>,
         NEW r \in Requests, NEW t \in Tiles, ~ closed[r][t] \/ pc[r][t] = "fetched",
         NEW place \in {"fetched", "loaded"}, pc' = [pc EXCEPT ![r][t] = place],
         NEW entry, got' = [got EXCEPT ![r][t] = entry],
         NEW e, err' = [err EXCEPT ![r][t] = e],
         e = "none" => entry # NoEntry
  PROVE  ResultInv'
<1> USE DEF TypeOK
<1>1. ~ closed[r][t]
  BY DEF ResultInv
<1>2. \A q \in Requests, k \in Tiles :
        \/ pc'[q][k] = pc[q][k] /\ got'[q][k] = got[q][k] /\ err'[q][k] = err[q][k]
        \/ q = r /\ k = t
  OBVIOUS
<1>3. pc'[r][t] = place /\ got'[r][t] = entry /\ err'[r][t] = e
  OBVIOUS
<1> QED
  BY <1>1, <1>2, <1>3 DEF ResultInv, HasResult

(* Steps that change no pair.                                               *)
LEMMA ResultFrame ==
  ASSUME TypeOK, ResultInv, UNCHANGED <<got, err>>,
         \A r \in Requests : groupErr[r] # "none" => groupErr'[r] # "none",
         \A r \in Requests, t \in Tiles :
           \/ /\ pc'[r][t] = pc[r][t]
              /\ closed'[r][t] = closed[r][t]
           \/ /\ pc[r][t] \in {"idle", "started"}
              /\ pc'[r][t] \in {"started", "follower", "fetching"}
              /\ closed'[r][t] = closed[r][t]
           \/ /\ pc[r][t] \in {"fetched", "loaded"}
              /\ \/ pc'[r][t] = "loaded"
                 \/ pc'[r][t] = "ok" /\ err[r][t] = "none" /\ got[r][t].body.decodes
                 \/ pc'[r][t] = "failed" /\ groupErr'[r] # "none"
  PROVE  ResultInv'
  BY DEF ResultInv, HasResult

LEMMA ResultStep == TypeInv /\ OnlyWanted /\ ResultInv /\ [Next]_vars => ResultInv'
<1> SUFFICES ASSUME TypeOK, FollowersFollow, OnlyWanted, ResultInv, [Next]_vars PROVE ResultInv'
  BY DEF TypeInv
<1> USE DEF TypeOK
<1>1. ASSUME NEW r \in Requests, Start(r) PROVE ResultInv'
  <2>1. \A k \in Tiles : pc[r][k] = "idle"
    BY <1>1 DEF Start, OnlyWanted
  <2>2. \A q \in Requests, k \in Tiles :
          \/ pc'[q][k] = pc[q][k]
          \/ pc[q][k] = "idle" /\ pc'[q][k] = "started"
    BY <1>1, <2>1 DEF Start
  <2> QED
    BY <1>1, <2>2, ResultFrame DEF Start
<1>2. ASSUME NEW r \in Requests, Finish(r) \/ EndContext(r) PROVE ResultInv'
  BY <1>2, ResultFrame DEF Finish, EndContext, local
<1>3. ASSUME NEW r \in Requests, NEW t \in Tiles, Goroutine(r, t) PROVE ResultInv'
  <2> USE DEF GoTo
  <2>1. CASE LoadHit(r, t)
    <3>1. /\ pc[r][t] = "started" /\ entries[t] # NoEntry /\ UNCHANGED <<groupErr, closed, err>>
          /\ pc' = [pc EXCEPT ![r][t] = "loaded"] /\ got' = [got EXCEPT ![r][t] = entries[t]]
      BY <2>1 DEF LoadHit, Servable, calls
    <3>2. err' = [err EXCEPT ![r][t] = err[r][t]] /\ ~ closed[r][t]
      BY <3>1 DEF ResultInv
    <3> QED
      BY <3>1, <3>2, ResultReturn
  <2>2. CASE LoadJoins(r, t) \/ LoadLeads(r, t)
    <3>1. pc[r][t] = "started" /\ UNCHANGED <<got, err, closed, groupErr>>
      BY <2>2 DEF LoadJoins, LoadLeads, Misses, calls
    <3>2. PICK place \in {"follower", "fetching"} : pc' = [pc EXCEPT ![r][t] = place]
      BY <2>2 DEF LoadJoins, LoadLeads
    <3>3. \A q \in Requests, k \in Tiles :
            \/ pc'[q][k] = pc[q][k]
            \/ pc[q][k] = "started" /\ pc'[q][k] \in {"follower", "fetching"}
      BY <3>1, <3>2
    <3> QED
      BY <3>1, <3>3, ResultFrame
  <2>3. CASE FollowerCancelled(r, t)
    <3>1. ~ closed[r][t] /\ group[r] # "none"
      BY <2>3 DEF FollowerCancelled, ResultInv, ContextErrors
    <3> QED
      BY <2>3, <3>1, ResultReturn DEF FollowerCancelled, Return, calls
  <2>4. CASE FollowerServed(r, t)
    <3> DEFINE l == leader[r][t]
    <3>1. /\ pc[r][t] = "follower" /\ closed[l][t] /\ UNCHANGED <<groupErr, closed>>
          /\ pc' = [pc EXCEPT ![r][t] = "loaded"]
          /\ got' = [got EXCEPT ![r][t] = got[l][t]] /\ err' = [err EXCEPT ![r][t] = err[l][t]]
      BY <2>4 DEF FollowerServed, Return, calls
    <3>2. l \in Requests
      BY <3>1 DEF FollowersFollow
    <3>3. ~ closed[r][t] /\ (err[l][t] = "none" => got[l][t] # NoEntry)
      BY <3>1, <3>2 DEF ResultInv, HasResult
    <3> HIDE DEF l
    <3> QED
      BY <3>1, <3>3, ResultReturn
  <2>5. CASE FetchSucceeds(r, t)
    <3>1. PICK body \in Bodies : Fetched(r, t, [body |-> body, fetchedAt |-> now], "none")
      BY <2>5 DEF FetchSucceeds
    <3>2. [body |-> body, fetchedAt |-> now] # NoEntry
      BY CacheAssumption
    <3>3. ~ closed[r][t]
      BY <2>5 DEF FetchSucceeds, ResultInv
    <3> QED
      BY <3>1, <3>2, <3>3, ResultReturn DEF Fetched, calls
  <2>6. CASE FetchFails(r, t)
    <3>1. PICK e \in FetchErrors(r) : Fetched(r, t, NoEntry, e)
      BY <2>6 DEF FetchFails
    <3>2. e # "none" /\ ~ closed[r][t]
      BY <2>6, ClientAssumption DEF FetchErrors, FetchFails, ResultInv, ContextErrors
    <3> QED
      BY <3>1, <3>2, ResultReturn DEF Fetched, calls
  <2>7. CASE Publish(r, t)
    BY <2>7, ResultFrame DEF Publish, Settle, calls
  <2>8. CASE LoadFailed(r, t)
    BY <2>8, ResultFrame DEF LoadFailed, Fail, Kept
  <2>9. CASE Undecodable(r, t)
    BY <2>9, ResultFrame DEF Undecodable, Fail, Kept
  <2>10. CASE Decoded(r, t)
    BY <2>10, ResultFrame DEF Decoded, calls
  <2> QED
    BY <1>3, <2>1, <2>2, <2>3, <2>4, <2>5, <2>6, <2>7, <2>8, <2>9, <2>10
    DEF Goroutine, Load, Follow, Fetch, Consume
<1>4. CASE Tick \/ UNCHANGED vars
  BY <1>4, ResultFrame DEF Tick, vars, calls, local
<1> QED
  BY <1>1, <1>2, <1>3, <1>4 DEF Next, Terminated

(* A snapshot is answered only from tiles that decode and are at most Ttl   *)
(* old at the moment of the answer.                                         *)
THEOREM SnapshotsAreFresh == Spec => AnswersAreFresh
<1> DEFINE Fresh(r) == answer[r] = "none" /\ answer'[r] = "ok" =>
                         \A t \in wanted[r] : /\ got[r][t].body.decodes
                                               /\ now - got[r][t].fetchedAt <= Ttl
<1>1. TypeInv /\ ResultInv /\ [Next]_vars => [\A r \in Requests : Fresh(r)]_vars
  <2> SUFFICES ASSUME TypeOK, ResultInv, [Next]_vars, NEW r \in Requests,
                      answer[r] = "none", answer'[r] = "ok", NEW t \in wanted[r]
               PROVE  got[r][t].body.decodes /\ now - got[r][t].fetchedAt <= Ttl
    BY DEF TypeInv
  <2> USE DEF TypeOK
  <2>1. Finish(r)
    <3>1. \A q \in Requests : Start(q) \/ EndContext(q) => answer' = answer
      BY DEF Start, EndContext
    <3>2. \A q \in Requests, k \in Tiles : Goroutine(q, k) => answer' = answer
      BY GoroutineMoves
    <3>3. Tick \/ UNCHANGED vars => answer' = answer
      BY DEF Tick, vars, calls
    <3>4. ASSUME NEW q \in Requests, Finish(q) PROVE q = r
      BY <3>4 DEF Finish
    <3> QED
      BY <3>1, <3>2, <3>3, <3>4 DEF Next, Terminated
  <2>2. /\ groupErr[r] = "none" /\ wanted[r] # {}
        /\ ~ (now - SnapshotFetchedAt(r) > Ttl)
        /\ \A k \in wanted[r] : pc[r][k] \in Done
    BY <2>1 DEF Finish, Errors, ContextErrors
  <2>3. \A k \in wanted[r] : got[r][k] \in Entry /\ got[r][k].body.decodes
    BY <2>2 DEF ResultInv, HasResult, Done
  <2> DEFINE S == {got[r][k].fetchedAt : k \in wanted[r]}
  <2>4. S \in SUBSET Nat /\ S # {} /\ got[r][t].fetchedAt \in S
    BY <2>2, <2>3 DEF Entry
  <2>5. ~ (now - Min(S) > Ttl)
    BY <2>2 DEF SnapshotFetchedAt
  <2> HIDE DEF S
  <2>6. Min(S) \in Nat /\ Min(S) <= got[r][t].fetchedAt /\ got[r][t].fetchedAt \in Nat
    BY <2>4, MinIsLeast
  <2>7. now \in Nat /\ Ttl \in Nat
    BY CacheAssumption
  <2>8. \A m, f, n, d \in Nat : ~ (n - m > d) /\ m <= f => n - f <= d
    OBVIOUS
  <2> QED
    BY <2>3, <2>5, <2>6, <2>7, <2>8
<1>2. TypeInv => TypeOK
  BY DEF TypeInv
<1> QED
  BY <1>1, <1>2, TypeInit, TypeStep, OnlyWantedInit, OnlyWantedStep, ResultInit, ResultStep, PTL
  DEF Spec, AnswersAreFresh
-----------------------------------------------------------------------------
(***************************************************************************)
(* The goroutines implement SharedDownloads.  A step of a goroutine moves  *)
(* its place, and with it its abstract state and answer; the invariants    *)
(* above give the guards: nothing is stored while a download runs, and a   *)
(* closed call was answered.                                               *)
(***************************************************************************)
LEMMA StateMoves ==
  ASSUME TypeOK, NEW r \in Requests, NEW t \in Tiles, NEW place,
         GoTo(r, t, place)
  PROVE  /\ Loads!Enter(r, t, LoadState(place))
         /\ loadState[r][t] = LoadState(pc[r][t])
  BY DEF TypeOK, GoTo, Loads!Enter, loadState

LEMMA AnswerStays ==
  ASSUME TypeOK, NEW r \in Requests, NEW t \in Tiles, NEW place,
         GoTo(r, t, place),
         LoadState(place) = "answered" <=> LoadState(pc[r][t]) = "answered",
         \A q \in Requests, k \in Tiles :
           LoadState(pc'[q][k]) = "answered" => got'[q][k] = got[q][k] /\ err'[q][k] = err[q][k]
  PROVE  loadAnswer' = loadAnswer
  BY DEF TypeOK, GoTo, loadAnswer

LEMMA AnswerMoves ==
  ASSUME TypeOK, NEW r \in Requests, NEW t \in Tiles, NEW place,
         GoTo(r, t, place), LoadState(place) = "answered",
         TypeOK',
         \A q \in Requests, k \in Tiles :
           q # r \/ k # t => got'[q][k] = got[q][k] /\ err'[q][k] = err[q][k]
  PROVE  Loads!Answer(r, t, [entry |-> got'[r][t], error |-> err'[r][t]])
<1> DEFINE value(p, g, e) == IF LoadState(p) = "answered" THEN [entry |-> g, error |-> e]
                             ELSE [entry |-> NoEntry, error |-> "none"]
<1>1. loadAnswer' = [q \in Requests |-> [k \in Tiles |-> value(pc'[q][k], got'[q][k], err'[q][k])]]
  BY DEF loadAnswer
<1>2. loadAnswer = [q \in Requests |-> [k \in Tiles |-> value(pc[q][k], got[q][k], err[q][k])]]
  BY DEF loadAnswer
<1>3. \A q \in Requests, k \in Tiles :
        q # r \/ k # t => value(pc'[q][k], got'[q][k], err'[q][k]) = value(pc[q][k], got[q][k], err[q][k])
  BY DEF TypeOK, GoTo
<1>4. value(pc'[r][t], got'[r][t], err'[r][t]) = [entry |-> got'[r][t], error |-> err'[r][t]]
  BY DEF TypeOK, GoTo
<1> HIDE DEF value
<1>5. /\ loadAnswer[r] = [k \in Tiles |-> value(pc[r][k], got[r][k], err[r][k])]
      /\ loadAnswer'[r] = [k \in Tiles |-> value(pc'[r][k], got'[r][k], err'[r][k])]
  BY <1>1, <1>2
<1>6. loadAnswer'[r] = [loadAnswer[r] EXCEPT ![t] = [entry |-> got'[r][t], error |-> err'[r][t]]]
  BY <1>3, <1>4, <1>5
<1>7. \A q \in Requests \ {r} : loadAnswer'[q] = loadAnswer[q]
  BY <1>1, <1>2, <1>3
<1>8. loadAnswer' = [loadAnswer EXCEPT ![r] = [loadAnswer[r] EXCEPT ![t] =
                         [entry |-> got'[r][t], error |-> err'[r][t]]]]
  BY <1>1, <1>2, <1>6, <1>7
<1>9. Loads!Enter(r, t, "answered")
  BY StateMoves
<1> QED
  BY <1>8, <1>9 DEF Loads!Answer

LEMMA LoadsInit == Init => Loads!Init
  BY DEF Init, CacheInit, Loads!Init, Loads!NoAnswer, loadState, loadAnswer, LoadState, Downloading, Done

LEMMA LoadsStep ==
  TypeInv /\ TypeOK' /\ OnlyWanted /\ FlightInv /\ PairInv /\ ResultInv /\ [Next]_vars
    => [Loads!Next]_(Loads!vars)
<1> SUFFICES ASSUME TypeOK, TypeOK', OnlyWanted, FlightInv, PairInv, ResultInv, [Next]_vars
             PROVE  [Loads!Next]_(Loads!vars)
  BY DEF TypeInv
<1>0. entries' \in [Tiles -> Entry \cup {NoEntry}]
  BY DEF TypeOK
<1>1. ASSUME NEW r \in Requests, Start(r) PROVE Loads!Ask(r)
  <2>1. PICK W \in SUBSET Tiles :
          pc' = [pc EXCEPT ![r] = [t \in Tiles |-> IF t \in W THEN "started" ELSE "idle"]]
    BY <1>1, ClientAssumption DEF Start
  <2>2. \A t \in Tiles : pc[r][t] = "idle"
    BY <1>1 DEF Start, OnlyWanted, TypeOK
  <2>3. \A t \in Tiles : loadState[r][t] = "out"
    BY <2>2 DEF loadState, LoadState, Downloading, Done
  <2>4. loadState' = [loadState EXCEPT ![r] = [t \in Tiles |-> IF t \in W THEN "asking" ELSE "out"]]
    <3>1. \A q \in Requests \ {r} : loadState'[q] = loadState[q]
      BY <2>1 DEF loadState, TypeOK
    <3>2. \A t \in Tiles : LoadState(pc'[r][t]) = IF t \in W THEN "asking" ELSE "out"
      BY <2>1 DEF LoadState, Downloading, Done, TypeOK
    <3>3. loadState'[r] = [t \in Tiles |-> IF t \in W THEN "asking" ELSE "out"]
      BY <3>2 DEF loadState
    <3> QED
      BY <3>1, <3>3 DEF loadState
  <2>5. loadAnswer' = loadAnswer
    <3>1. UNCHANGED <<got, err>>
      BY <1>1 DEF Start
    <3>2. \A q \in Requests, k \in Tiles :
            LoadState(pc'[q][k]) = "answered" <=> LoadState(pc[q][k]) = "answered"
      BY <2>1, <2>2 DEF LoadState, Downloading, Done, TypeOK
    <3> QED
      BY <3>1, <3>2 DEF loadAnswer
  <2> QED
    BY <1>1, <2>3, <2>4, <2>5 DEF Loads!Ask, Start, store
<1>2. ASSUME NEW r \in Requests, Finish(r) \/ EndContext(r) PROVE UNCHANGED Loads!vars
  BY <1>2 DEF Finish, EndContext, store, local, Loads!vars, loadState, loadAnswer
<1>3. ASSUME NEW r \in Requests, NEW t \in Tiles, Goroutine(r, t) PROVE [Loads!Next]_(Loads!vars)
  <2>0. \/ Loads!Hit(r, t) \/ Loads!Lead(r, t) \/ Loads!Join(r, t) \/ Loads!GiveUp(r, t)
               \/ Loads!Share(r, t) \/ Loads!Complete(r, t) \/ Loads!Forget
               => Loads!Next
    BY DEF Loads!Next
  <2>1. CASE LoadHit(r, t)
    <3>1. /\ pc[r][t] = "started" /\ GoTo(r, t, "loaded")
          /\ UNCHANGED <<entries, flights, leader, err>>
          /\ got' = [got EXCEPT ![r][t] = entries[t]] /\ entries[t] # NoEntry
      BY <2>1, StoreSteps DEF LoadHit, GoTo, Servable
    <3>2. LoadState("loaded") = "answered" /\ LoadState("started") = "asking"
      BY DEF LoadState, Downloading, Done
    <3>3. got'[r][t] = entries[t] /\ err'[r][t] = "none"
      BY <3>1 DEF TypeOK, PairInv
    <3>0. \A q \in Requests, k \in Tiles :
            q # r \/ k # t => got'[q][k] = got[q][k] /\ err'[q][k] = err[q][k]
      BY <3>1 DEF TypeOK
    <3>4. Loads!Answer(r, t, [entry |-> entries[t], error |-> "none"])
      BY <3>0, <3>1, <3>2, <3>3, AnswerMoves
    <3>9. Loads!Enter(r, t, LoadState("loaded")) /\ loadState[r][t] = LoadState("started")
      BY <3>1, StateMoves
    <3>5. Loads!Hit(r, t)
      BY <3>1, <3>2, <3>4, <3>9 DEF Loads!Hit
    <3> QED
      BY <2>0, <3>5
  <2>2. CASE LoadJoins(r, t)
    <3>1. /\ pc[r][t] = "started" /\ GoTo(r, t, "follower")
          /\ flights[t] # NoLeader
          /\ leader' = [leader EXCEPT ![r][t] = flights[t]]
          /\ UNCHANGED <<flights, got, err>>
          /\ entries' = [entries EXCEPT ![t] = NoEntry]
      BY <2>2, StoreSteps DEF LoadJoins, Misses, DropExpired
    <3>2. entries' = entries
      BY <3>1 DEF TypeOK, FlightInv, NoFlightForStored
    <3>3. LoadState("follower") = "sharing" /\ LoadState("started") = "asking"
      BY DEF LoadState, Downloading, Done
    <3>4. loadAnswer' = loadAnswer
      BY <3>1, <3>3, AnswerStays
    <3>9. Loads!Enter(r, t, LoadState("follower")) /\ loadState[r][t] = LoadState("started")
      BY <3>1, StateMoves
    <3>5. Loads!Join(r, t)
      BY <3>1, <3>2, <3>3, <3>4, <3>9 DEF Loads!Join
    <3> QED
      BY <2>0, <3>5
  <2>3. CASE LoadLeads(r, t)
    <3>1. /\ pc[r][t] = "started" /\ GoTo(r, t, "fetching")
          /\ flights[t] = NoLeader /\ flights' = [flights EXCEPT ![t] = r]
          /\ UNCHANGED <<leader, got, err>>
          /\ entries' = [entries EXCEPT ![t] = NoEntry]
      BY <2>3, StoreSteps DEF LoadLeads, Misses, DropExpired
    <3>2. entries' = Loads!Without({t})
      BY <3>1 DEF TypeOK, Loads!Without
    <3>3. LoadState("fetching") = "downloading" /\ LoadState("started") = "asking"
      BY DEF LoadState, Downloading, Done
    <3>4. loadAnswer' = loadAnswer
      BY <3>1, <3>3, AnswerStays
    <3>9. Loads!Enter(r, t, LoadState("fetching")) /\ loadState[r][t] = LoadState("started")
      BY <3>1, StateMoves
    <3>5. Loads!Lead(r, t)
      BY <3>1, <3>2, <3>3, <3>4, <3>9 DEF Loads!Lead
    <3> QED
      BY <2>0, <3>5
  <2>4. CASE FollowerCancelled(r, t)
    <3>1. /\ pc[r][t] = "follower" /\ GoTo(r, t, "loaded")
          /\ UNCHANGED <<entries, flights, leader>>
          /\ got' = [got EXCEPT ![r][t] = NoEntry] /\ err' = [err EXCEPT ![r][t] = group[r]]
          /\ group[r] \in Errors
      BY <2>4 DEF FollowerCancelled, Return, store, TypeOK, Errors
    <3>2. LoadState("loaded") = "answered" /\ LoadState("follower") = "sharing"
      BY DEF LoadState, Downloading, Done
    <3>3. got'[r][t] = NoEntry /\ err'[r][t] = group[r]
      BY <3>1 DEF TypeOK
    <3>0. \A q \in Requests, k \in Tiles :
            q # r \/ k # t => got'[q][k] = got[q][k] /\ err'[q][k] = err[q][k]
      BY <3>1 DEF TypeOK
    <3>4. Loads!Answer(r, t, [entry |-> NoEntry, error |-> group[r]])
      BY <3>0, <3>1, <3>2, <3>3, AnswerMoves
    <3>9. Loads!Enter(r, t, LoadState("loaded")) /\ loadState[r][t] = LoadState("follower")
      BY <3>1, StateMoves
    <3>5. Loads!GiveUp(r, t)
      BY <3>1, <3>2, <3>4, <3>9 DEF Loads!GiveUp
    <3> QED
      BY <2>0, <3>5
  <2>5. CASE FollowerServed(r, t)
    <3> DEFINE l == leader[r][t]
    <3>1. /\ pc[r][t] = "follower" /\ GoTo(r, t, "loaded")
          /\ closed[l][t]
          /\ UNCHANGED <<entries, flights, leader>>
          /\ got' = [got EXCEPT ![r][t] = got[l][t]] /\ err' = [err EXCEPT ![r][t] = err[l][t]]
      BY <2>5 DEF FollowerServed, Return, store
    <3>2. LoadState("loaded") = "answered" /\ LoadState("follower") = "sharing"
      BY DEF LoadState, Downloading, Done
    <3>3. got'[r][t] = got[l][t] /\ err'[r][t] = err[l][t]
      BY <3>1 DEF TypeOK
    <3>4. l \in Requests /\ LoadState(pc[l][t]) = "answered"
      BY <3>1 DEF FlightInv, FollowersHaveLeader, ResultInv, LoadState, Downloading, Done
    <3>5. /\ loadState[l][t] = "answered"
          /\ loadAnswer[l][t] = [entry |-> got[l][t], error |-> err[l][t]]
      BY <3>4 DEF loadState, loadAnswer
    <3>0. \A q \in Requests, k \in Tiles :
            q # r \/ k # t => got'[q][k] = got[q][k] /\ err'[q][k] = err[q][k]
      BY <3>1 DEF TypeOK
    <3>6. Loads!Answer(r, t, loadAnswer[l][t])
      BY <3>0, <3>1, <3>2, <3>3, <3>5, AnswerMoves
    <3>9. Loads!Enter(r, t, LoadState("loaded")) /\ loadState[r][t] = LoadState("follower")
      BY <3>1, StateMoves
    <3>7. Loads!Share(r, t)
      BY <3>1, <3>2, <3>5, <3>6, <3>9 DEF Loads!Share
    <3> QED
      BY <2>0, <3>7
  <2>6. CASE Fetch(r, t)
    <3>1. /\ pc[r][t] = "fetching" /\ GoTo(r, t, "fetched")
          /\ UNCHANGED <<entries, flights, leader>>
          /\ \E g, e : got' = [got EXCEPT ![r][t] = g] /\ err' = [err EXCEPT ![r][t] = e]
      BY <2>6 DEF Fetch, FetchSucceeds, FetchFails, Fetched, store
    <3>2. LoadState("fetching") = "downloading" /\ LoadState("fetched") = "downloading"
      BY DEF LoadState, Downloading, Done
    <3>3. \A q \in Requests, k \in Tiles :
            LoadState(pc'[q][k]) = "answered" => got'[q][k] = got[q][k] /\ err'[q][k] = err[q][k]
      BY <3>1, <3>2 DEF TypeOK, GoTo
    <3>4. loadAnswer' = loadAnswer
      BY <3>1, <3>2, <3>3, AnswerStays
    <3>5. loadState' = loadState
      <4>1. LoadState("fetched") = LoadState(pc[r][t])
        BY <3>1, <3>2
      <4>2. Loads!Enter(r, t, LoadState(pc[r][t]))
        BY <3>1, <4>1, StateMoves
      <4> QED
        BY <4>2 DEF Loads!Enter, loadState
    <3> QED
      BY <3>1, <3>4, <3>5 DEF Loads!vars
  <2>7. CASE Publish(r, t)
    <3>1. /\ pc[r][t] = "fetched" /\ GoTo(r, t, "loaded")
          /\ flights' = [flights EXCEPT ![t] = NoLeader]
          /\ UNCHANGED <<leader, got, err>>
          /\ IF err[r][t] = "none" THEN Add(t, got[r][t]) ELSE UNCHANGED entries
      BY <2>7 DEF Publish, Settle, store
    <3>2. LoadState("loaded") = "answered" /\ LoadState("fetched") = "downloading"
      BY DEF LoadState, Downloading, Done
    <3> DEFINE a == [entry |-> got[r][t], error |-> err[r][t]]
    <3>3. a \in Loads!Outcomes
      <4>1. got[r][t] \in Entry \cup {NoEntry} /\ err[r][t] \in {"none"} \cup Errors
        BY DEF TypeOK
      <4>2. err[r][t] = "none" => got[r][t] # NoEntry
        BY <3>1 DEF ResultInv, HasResult
      <4>3. err[r][t] # "none" => got[r][t] = NoEntry
        BY DEF PairInv
      <4> QED
        BY <4>1, <4>2, <4>3 DEF Loads!Outcomes
    <3>4. Loads!Answer(r, t, a)
      BY <3>1, <3>2, AnswerMoves
    <3>5. loadAnswer'[r][t] = a
      BY <3>1, <3>2 DEF loadAnswer, TypeOK, GoTo
    <3>6. \E D \in SUBSET Tiles :
            entries' \in {Loads!Without(D), [Loads!Without(D) EXCEPT ![t] = a.entry]}
      <4>0. got[r][t] \in Entry \cup {NoEntry}
        BY DEF TypeOK
      <4>1. \A k \in Tiles \ {t} : entries'[k] \in {NoEntry, entries[k]}
        BY <3>1, <4>0, StoreSteps
      <4>2. entries'[t] \in {NoEntry, entries[t], got[r][t]}
        BY <3>1, <4>0, StoreSteps
      <4> DEFINE D == {k \in Tiles : entries'[k] = NoEntry}
      <4>3. \A k \in Tiles \ {t} : entries'[k] = Loads!Without(D)[k]
        BY <4>1 DEF Loads!Without
      <4>4. entries[t] = NoEntry
        BY <3>1, ClientAssumption DEF FlightInv, SingleFlight, NoFlightForStored, Downloading
      <4>5. CASE entries'[t] = NoEntry
        <5>1. entries' = Loads!Without(D \cup {t})
          BY <1>0, <4>3, <4>5 DEF Loads!Without
        <5> QED
          BY <5>1
      <4>6. CASE entries'[t] = got[r][t]
        <5>1. entries' = [Loads!Without(D) EXCEPT ![t] = got[r][t]]
          BY <1>0, <4>3, <4>6 DEF Loads!Without
        <5> QED
          BY <5>1
      <4> QED
        BY <4>2, <4>4, <4>5, <4>6
    <3>7. flights[t] = r
      BY <3>1 DEF FlightInv, SingleFlight, Downloading
    <3> HIDE DEF a
    <3>9. Loads!Enter(r, t, LoadState("loaded")) /\ loadState[r][t] = LoadState("fetched")
      BY <3>1, StateMoves
    <3>8. Loads!Complete(r, t)
      BY <3>1, <3>2, <3>3, <3>4, <3>5, <3>6, <3>7, <3>9
      DEF Loads!Complete
    <3> QED
      BY <2>0, <3>8
  <2>8. CASE Consume(r, t)
    <3>1. /\ pc[r][t] = "loaded"
          /\ GoTo(r, t, "ok") \/ GoTo(r, t, "failed")
          /\ UNCHANGED <<flights, leader, got, err>>
          /\ UNCHANGED entries \/ Discard(t)
      BY <2>8 DEF Consume, LoadFailed, Undecodable, Decoded, Fail, Invalidate, store
    <3>2. LoadState("loaded") = "answered" /\ LoadState("ok") = "answered" /\ LoadState("failed") = "answered"
      BY DEF LoadState, Downloading, Done
    <3>3. loadAnswer' = loadAnswer /\ loadState' = loadState
      <4>1. PICK place \in {"ok", "failed"} : GoTo(r, t, place)
        BY <3>1
      <4>2. LoadState(place) = LoadState(pc[r][t])
        BY <3>1, <3>2, <4>1
      <4>3. loadAnswer' = loadAnswer
        BY <3>1, <4>1, <4>2, AnswerStays
      <4>4. Loads!Enter(r, t, LoadState(pc[r][t]))
        BY <4>1, <4>2, StateMoves
      <4> QED
        BY <4>3, <4>4 DEF Loads!Enter, loadState
    <3>4. \A k \in Tiles : entries'[k] \in {NoEntry, entries[k]}
      BY <3>1, StoreSteps DEF TypeOK
    <3> DEFINE D == {k \in Tiles : entries'[k] = NoEntry}
    <3>6. entries' = Loads!Without(D)
      BY <1>0, <3>4 DEF Loads!Without
    <3>7. Loads!Forget
      BY <3>1, <3>3, <3>6 DEF Loads!Forget
    <3> QED
      BY <2>0, <3>7
  <2> QED
    BY <1>3, <2>1, <2>2, <2>3, <2>4, <2>5, <2>6, <2>7, <2>8 DEF Goroutine, Load, Follow
<1>4. CASE Tick \/ UNCHANGED vars
  BY <1>4 DEF Tick, vars, store, calls, local, Loads!vars, loadState, loadAnswer
<1> QED
  BY <1>1, <1>2, <1>3, <1>4 DEF Next, Terminated, Loads!Next

(* Loading through the cache is the shared downloading of SharedDownloads.  *)
THEOREM DownloadsAreShared == Spec => LoadsAreShared
<1>1. TypeInv => TypeOK
  BY DEF TypeInv
<1> QED
  BY <1>1, TypeInit, TypeStep, OnlyWantedInit, OnlyWantedStep, FlightInit, FlightStep,
     PairInit, PairStep, ResultInit, ResultStep, LoadsInit, LoadsStep, PTL
  DEF Spec, LoadsAreShared, Loads!Spec
-----------------------------------------------------------------------------
(***************************************************************************)
(* The cache.  The map, the LRU list and the byte counter are updated      *)
(* separately: each of getLocked, addLocked, invalidate and removeLocked   *)
(* keeps them in agreement, and addLocked's loop ends within both limits.  *)
(***************************************************************************)
Sizes(stored) == [t \in Tiles |-> SizeOf(stored[t])]

LEMMA BytesAreTotals ==
  ASSUME NEW stored \in [Tiles -> Entry \cup {NoEntry}], NEW S \in SUBSET Tiles, IsFiniteSet(S)
  PROVE  /\ \A t \in S : Sizes(stored)[t] \in Nat
         /\ Bytes(stored, S) = Total(Sizes(stored), S)
<1>1. \A t \in Tiles : SizeOf(stored[t]) \in Nat /\ Sizes(stored)[t] = SizeOf(stored[t])
  BY CacheAssumption DEF SizeOf, Entry, Sizes
<1> DEFINE Solves(sum) ==
             sum = [s \in SUBSET S |->
                      IF s = {} THEN 0
                      ELSE Sizes(stored)[CHOOSE x \in s : TRUE] + sum[s \ {CHOOSE x \in s : TRUE}]]
           Folds(sum) ==
             sum = [s \in SUBSET S |->
                      IF s = {} THEN 0
                      ELSE SizeOf(stored[CHOOSE x \in s : TRUE]) + sum[s \ {CHOOSE x \in s : TRUE}]]
<1>2. \A t \in S : Sizes(stored)[t] \in Nat
  BY <1>1
<1>3. (\E sum : Solves(sum)) /\ \A sum : Solves(sum) => sum[S] = Total(Sizes(stored), S)
  BY <1>2, SumRecursion
<1>4. ASSUME NEW sum PROVE Solves(sum) <=> Folds(sum)
  <2>1. \A s \in SUBSET S : s # {} =>
          Sizes(stored)[CHOOSE x \in s : TRUE] = SizeOf(stored[CHOOSE x \in s : TRUE])
    BY <1>1
  <2> QED
    BY <2>1
<1>5. Bytes(stored, S) = (CHOOSE sum : Folds(sum))[S]
  BY DEF Bytes, MapThenSumSet, MapThenFoldSet
<1> HIDE DEF Solves, Folds
<1>6. Solves(CHOOSE sum : Folds(sum))
  BY <1>3, <1>4
<1> QED
  BY <1>2, <1>3, <1>5, <1>6

StoreInv ==
  /\ recent \in Seq(Tiles) /\ Distinct(recent)
  /\ ToSet(recent) = Stored
  /\ usedBytes = Bytes(entries, Stored)
  /\ Len(recent) <= Maximum
  /\ usedBytes <= MaximumBytes

LEMMA StoreFinite == ASSUME StoreInv PROVE IsFiniteSet(Stored) /\ Cardinality(Stored) = Len(recent)
  BY DistinctLength DEF StoreInv

LEMMA StoreInit == Init => StoreInv
<1> SUFFICES ASSUME Init PROVE StoreInv
  OBVIOUS
<1>1. Stored = {} /\ recent = <<>> /\ usedBytes = 0
  BY DEF Init, CacheInit, Stored
<1>2. entries \in [Tiles -> Entry \cup {NoEntry}]
  BY DEF Init, CacheInit
<1>3. Bytes(entries, Stored) = 0
  BY <1>1, <1>2, BytesAreTotals, TotalOfNothing, FS_EmptySet
<1>4. recent \in Seq(Tiles) /\ Distinct(recent) /\ ToSet(recent) = {} /\ Len(recent) = 0
  BY <1>1 DEF Distinct, ToSet
<1> QED
  BY <1>1, <1>3, <1>4, CacheAssumption DEF StoreInv

(* A hit only moves its tile to the front.                                  *)
LEMMA TouchKeepsStore ==
  ASSUME TypeOK, StoreInv, NEW t \in Stored, Touch(t)
  PROVE  StoreInv'
<1>1. t \in Tiles /\ t \in ToSet(recent)
  BY DEF Stored, StoreInv
<1> DEFINE rest == RemoveFirst(recent, t)
<1>2. /\ rest \in Seq(Tiles) /\ Distinct(rest)
      /\ ToSet(rest) = ToSet(recent) \ {t} /\ Len(rest) = Len(recent) - 1
  BY <1>1, RemoveFromDistinct DEF StoreInv
<1>3. /\ Cons(t, rest) \in Seq(Tiles) /\ Distinct(Cons(t, rest))
      /\ ToSet(Cons(t, rest)) = ToSet(rest) \cup {t} /\ Len(Cons(t, rest)) = Len(rest) + 1
  BY <1>1, <1>2, ConsToDistinct
<1>4. Len(recent) \in Nat
  BY ElementsOf DEF StoreInv
<1>5. recent' = Cons(t, rest) /\ entries' = entries /\ usedBytes' = usedBytes
  BY DEF Touch
<1>6. ToSet(recent') = Stored /\ Len(recent') = Len(recent)
  <2>1. Stored = (ToSet(recent) \ {t}) \cup {t} /\ Len(recent) - 1 + 1 = Len(recent)
    BY <1>1, <1>4 DEF StoreInv
  <2> HIDE DEF rest
  <2> QED
    BY <1>2, <1>3, <1>5, <2>1
<1> QED
  BY <1>3, <1>5, <1>6 DEF StoreInv, Stored

(* removeLocked takes the same entry out of all three, if there is one.     *)
LEMMA DiscardKeepsStore ==
  ASSUME TypeOK, StoreInv, NEW t \in Tiles, Discard(t)
  PROVE  StoreInv'
<1> DEFINE rest == RemoveFirst(recent, t)
           left == Stored \ {t}
<1>1. /\ rest \in Seq(Tiles) /\ Distinct(rest) /\ ToSet(rest) = left
      /\ Len(rest) = IF t \in ToSet(recent) THEN Len(recent) - 1 ELSE Len(recent)
  BY RemoveFromDistinct DEF StoreInv
<1>2. /\ recent' = rest /\ entries' = [entries EXCEPT ![t] = NoEntry]
      /\ usedBytes' = usedBytes - SizeOf(entries[t])
  BY DEF Discard
<1>3. entries \in [Tiles -> Entry \cup {NoEntry}] /\ entries' \in [Tiles -> Entry \cup {NoEntry}]
  BY <1>2 DEF TypeOK
<1>4. Stored' = left
  BY <1>2, <1>3 DEF Stored
<1>5. IsFiniteSet(Stored) /\ IsFiniteSet(left) /\ Stored \in SUBSET Tiles /\ left \in SUBSET Tiles
  <2>1. IsFiniteSet(Stored) /\ Stored \in SUBSET Tiles
    BY StoreFinite DEF Stored
  <2> QED
    BY <2>1, FS_Subset
<1>6. /\ Bytes(entries, Stored) = Total(Sizes(entries), Stored)
      /\ Bytes(entries', left) = Total(Sizes(entries'), left)
      /\ \A k \in Stored : Sizes(entries)[k] \in Nat
      /\ Total(Sizes(entries), left) \in Nat
  BY <1>3, <1>5, BytesAreTotals, TotalType
<1>7. Total(Sizes(entries'), left) = Total(Sizes(entries), left)
  <2>1. \A k \in left : Sizes(entries')[k] = Sizes(entries)[k]
    BY <1>2, <1>3, <1>5 DEF Sizes
  <2> QED
    BY <2>1, TotalOfEqual
<1>8. Total(Sizes(entries), Stored) = Total(Sizes(entries), left) + SizeOf(entries[t])
  <2>1. CASE t \in Stored
    <3>1. Stored = left \cup {t} /\ t \notin left
      BY <2>1
    <3>2. Total(Sizes(entries), left \cup {t}) = Total(Sizes(entries), left) + Sizes(entries)[t]
      <4>1. \A k \in left \cup {t} : Sizes(entries)[k] \in Nat
        BY <1>6, <3>1
      <4> QED
        BY <1>5, <3>1, <4>1, TotalWithOne
    <3> QED
      BY <3>1, <3>2 DEF Sizes
  <2>2. CASE t \notin Stored
    <3>1. left = Stored /\ SizeOf(entries[t]) = 0
      BY <2>2 DEF Stored, SizeOf
    <3> QED
      BY <1>6, <3>1
  <2> QED
    BY <2>1, <2>2
<1>9. SizeOf(entries[t]) \in Nat
  BY <1>3, CacheAssumption DEF SizeOf, Entry
<1>10. usedBytes' = Bytes(entries', left) /\ usedBytes' <= MaximumBytes
  BY <1>2, <1>6, <1>7, <1>8, <1>9, CacheAssumption DEF StoreInv
<1>11. Len(recent') <= Maximum
  <2>1. Len(recent) \in Nat
    BY ElementsOf DEF StoreInv
  <2> QED
    BY <1>1, <1>2, <2>1, CacheAssumption DEF StoreInv
<1> QED
  BY <1>1, <1>2, <1>4, <1>10, <1>11 DEF StoreInv

(* addLocked: whatever it evicts, what is left is counted, and its loop     *)
(* stops within the limits, at an empty cache if need be.                   *)
LEMMA AddKeepsStore ==
  ASSUME TypeOK, StoreInv, NEW t \in Tiles, NEW entry \in Entry, Add(t, entry)
  PROVE  StoreInv'
<1> DEFINE rest   == RemoveFirst(recent, t)
           order  == Cons(t, rest)
           placed == [entries EXCEPT ![t] = entry]
           total  == usedBytes - SizeOf(entries[t]) + SizeOf(entry)
           Back(m) == {order[i] : i \in Len(order) - m + 1 .. Len(order)}
           Fits(m) == ~ Overfull(Len(order) - m, total - Bytes(placed, Back(m)))
           n == Min({m \in 0 .. Len(order) : Fits(m)})
           others == Stored \ {t}
           all == Stored \cup {t}
<1>1. CASE entry.body.size > MaximumBytes
  <2>1. UNCHANGED store
    BY <1>1 DEF Add
  <2> QED
    BY <2>1 DEF store, StoreInv, Stored
<1>2. CASE ~ (entry.body.size > MaximumBytes)
  <2>1. /\ entries' = [k \in Tiles |-> IF k \in Back(n) THEN NoEntry ELSE placed[k]]
        /\ recent' = SubSeq(order, 1, Len(order) - n)
        /\ usedBytes' = total - Bytes(placed, Back(n))
    BY <1>2 DEF Add
  <2>2. /\ order \in Seq(Tiles) /\ Distinct(order) /\ ToSet(order) = all
        /\ Len(order) \in Nat
    <3>1. rest \in Seq(Tiles) /\ Distinct(rest) /\ ToSet(rest) = others
      BY RemoveFromDistinct DEF StoreInv
    <3>2. order \in Seq(Tiles) /\ Distinct(order) /\ ToSet(order) = others \cup {t}
      BY <3>1, ConsToDistinct
    <3> QED
      BY <3>2, ElementsOf
  <2>3. /\ entries \in [Tiles -> Entry \cup {NoEntry}]
        /\ placed \in [Tiles -> Entry \cup {NoEntry}]
    BY DEF TypeOK
  <2>4. /\ IsFiniteSet(others) /\ IsFiniteSet(all)
        /\ others \in SUBSET Tiles /\ all \in SUBSET Tiles
    <3>1. IsFiniteSet(all)
      BY <2>2, DistinctLength
    <3> QED
      BY <3>1, FS_Subset DEF Stored
  <2>5. \A m \in 0 .. Len(order) : Back(m) \in SUBSET all
    BY <2>2, ElementsOf
  <2>6. \A S \in SUBSET all :
          /\ IsFiniteSet(S)
          /\ Bytes(placed, S) = Total(Sizes(placed), S) /\ Total(Sizes(placed), S) \in Nat
          /\ \A k \in S : Sizes(placed)[k] \in Nat
    BY <2>3, <2>4, FS_Subset, BytesAreTotals, TotalType
  <2>7. total = Total(Sizes(placed), all)
    <3>1. Total(Sizes(entries), others) = Total(Sizes(placed), others)
      <4>1. \A k \in others : Sizes(entries)[k] = Sizes(placed)[k]
        BY <2>3, <2>4 DEF Sizes
      <4> QED
        BY <4>1, TotalOfEqual
    <3>2. Total(Sizes(placed), all) = Total(Sizes(placed), others) + SizeOf(entry)
      <4>1. all = others \cup {t} /\ t \notin others
        OBVIOUS
      <4>2. Total(Sizes(placed), others \cup {t}) = Total(Sizes(placed), others) + Sizes(placed)[t]
        <5>1. \A k \in others \cup {t} : Sizes(placed)[k] \in Nat
          BY <2>6, <4>1
        <5> HIDE DEF placed, others
        <5> QED
          BY <2>4, <4>1, <5>1, TotalWithOne
      <4>3. Sizes(placed)[t] = SizeOf(entry)
        BY <2>3 DEF Sizes
      <4> QED
        BY <4>1, <4>2, <4>3
    <3>3. usedBytes = Total(Sizes(entries), others) + SizeOf(entries[t])
      <4>1. IsFiniteSet(Stored) /\ Stored \in SUBSET Tiles
        BY StoreFinite DEF Stored
      <4>2. /\ usedBytes = Total(Sizes(entries), Stored)
            /\ \A k \in Stored : Sizes(entries)[k] \in Nat
        BY <2>3, <4>1, BytesAreTotals DEF StoreInv
      <4>3. CASE t \in Stored
        <5>1. Stored = others \cup {t} /\ t \notin others
          BY <4>3
        <5>2. Total(Sizes(entries), others \cup {t}) = Total(Sizes(entries), others) + Sizes(entries)[t]
          BY <2>4, <4>2, <5>1, TotalWithOne
        <5> QED
          BY <4>2, <5>1, <5>2 DEF Sizes
      <4>4. CASE t \notin Stored
        <5>1. others = Stored /\ SizeOf(entries[t]) = 0
          BY <4>4 DEF Stored, SizeOf
        <5>2. usedBytes \in Nat
          BY <4>1, <4>2, TotalType
        <5> QED
          BY <4>2, <5>1, <5>2
      <4> QED
        BY <4>3, <4>4
    <3>4. SizeOf(entries[t]) \in Nat /\ SizeOf(entry) \in Nat
      BY <2>3, CacheAssumption DEF SizeOf, Entry
    <3>5. Total(Sizes(placed), others) \in Nat
      BY <2>6
    <3> HIDE DEF placed, others, all
    <3> QED
      BY <3>1, <3>2, <3>3, <3>4, <3>5
  <2>8. \A S \in SUBSET all : total - Bytes(placed, S) = Total(Sizes(placed), all \ S)
    <3> SUFFICES ASSUME NEW S \in SUBSET all
                 PROVE  total - Bytes(placed, S) = Total(Sizes(placed), all \ S)
      OBVIOUS
    <3>1. S \cup (all \ S) = all /\ S \cap (all \ S) = {} /\ all \in SUBSET all /\ all \ S \in SUBSET all
      OBVIOUS
    <3>2. Total(Sizes(placed), S \cup (all \ S)) = Total(Sizes(placed), S) + Total(Sizes(placed), all \ S)
      BY <2>6, <3>1, TotalOfUnion
    <3>3. Total(Sizes(placed), S) \in Nat /\ Total(Sizes(placed), all \ S) \in Nat
      BY <2>6, <3>1
    <3>4. Bytes(placed, S) = Total(Sizes(placed), S)
      BY <2>6
    <3> DEFINE sizes == Sizes(placed)
    <3>5. Total(sizes, all) = Total(sizes, S) + Total(sizes, all \ S)
      BY <3>1, <3>2
    <3>6. total - Total(sizes, S) = Total(sizes, all \ S)
      <4> HIDE DEF all, total, sizes
      <4> QED
        BY <2>7, <3>3, <3>5 DEF sizes
    <3> QED
      BY <3>4, <3>6
  <2>9. n \in 0 .. Len(order) /\ Fits(n)
    <3>1. Back(Len(order)) = all
      BY <2>2, ElementsOf
    <3>2. total - Bytes(placed, Back(Len(order))) = 0
      BY <2>8, <3>1, TotalOfNothing
    <3>3. Fits(Len(order))
      BY <2>2, <3>2, CacheAssumption DEF Overfull
    <3> DEFINE M == {m \in 0 .. Len(order) : Fits(m)}
    <3>4. M \in SUBSET Nat /\ M # {}
      <4>1. Len(order) \in 0 .. Len(order) /\ 0 .. Len(order) \subseteq Nat
        BY <2>2
      <4> HIDE DEF Fits, order
      <4>2. Len(order) \in M
        BY <3>3, <4>1
      <4> QED
        BY <4>1, <4>2
    <3> HIDE DEF M
    <3>5. Min(M) \in M
      BY <3>4, MinIsLeast
    <3> QED
      BY <3>5 DEF M
  <2> HIDE DEF n
  <2> DEFINE kept == all \ Back(n)
  <2>10. Stored' = kept
    <3>1. \A k \in Tiles : placed[k] # NoEntry <=> k \in all
      <4>1. entry # NoEntry
        BY CacheAssumption DEF Entry
      <4> QED
        BY <2>3, <4>1 DEF Stored
    <3> QED
      BY <2>1, <2>4, <3>1 DEF Stored
  <2>11. /\ recent' \in Seq(Tiles) /\ Distinct(recent') /\ ToSet(recent') = kept
         /\ Len(recent') = Len(order) - n
    <3>1. Len(order) - n \in 0 .. Len(order)
      BY <2>2, <2>9
    <3> HIDE DEF order
    <3> QED
      BY <2>1, <2>2, <3>1, FrontOfDistinct
  <2>12. usedBytes' = Bytes(entries', kept)
    <3>1. entries' \in [Tiles -> Entry \cup {NoEntry}]
      BY <2>1, <2>3
    <3>2. kept \in SUBSET all /\ kept \in SUBSET Tiles /\ IsFiniteSet(kept)
      BY <2>4, <2>6
    <3>3. Bytes(entries', kept) = Total(Sizes(entries'), kept)
      BY <3>1, <3>2, BytesAreTotals
    <3>4. \A k \in kept : Sizes(entries')[k] = Sizes(placed)[k]
      BY <2>1, <3>2 DEF Sizes
    <3>5. Total(Sizes(entries'), kept) = Total(Sizes(placed), kept)
      BY <3>4, TotalOfEqual
    <3>6. Back(n) \in SUBSET all
      BY <2>5, <2>9
    <3> QED
      BY <2>1, <2>8, <3>3, <3>5, <3>6
  <2>13. Len(recent') <= Maximum /\ usedBytes' <= MaximumBytes
    <3>1. ~ (Len(order) - n > Maximum) /\ ~ (usedBytes' > MaximumBytes)
      BY <2>1, <2>9 DEF Overfull
    <3>2. Len(order) - n \in Int
      BY <2>2, <2>9
    <3>3. usedBytes' \in Int
      <4>1. Back(n) \in SUBSET all
        BY <2>5, <2>9
      <4> QED
        BY <2>1, <2>6, <2>8, <4>1
    <3> QED
      BY <2>11, <3>1, <3>2, <3>3, CacheAssumption
  <2> QED
    BY <2>10, <2>11, <2>12, <2>13 DEF StoreInv
<1> QED
  BY <1>1, <1>2

LEMMA StoreStep == TypeInv /\ ResultInv /\ StoreInv /\ [Next]_vars => StoreInv'
<1> SUFFICES ASSUME TypeOK, ResultInv, StoreInv, [Next]_vars PROVE StoreInv'
  BY DEF TypeInv
<1>1. CASE UNCHANGED store
  BY <1>1 DEF store, StoreInv, Stored
<1>2. ASSUME NEW r \in Requests, NEW t \in Tiles, LoadHit(r, t) PROVE StoreInv'
  <2>1. t \in Stored
    BY <1>2 DEF LoadHit, Servable, Stored
  <2> QED
    BY <1>2, <2>1, TouchKeepsStore DEF LoadHit
<1>3. ASSUME NEW r \in Requests, NEW t \in Tiles, LoadJoins(r, t) \/ LoadLeads(r, t) PROVE StoreInv'
  BY <1>3, DiscardKeepsStore DEF LoadJoins, LoadLeads, Misses, DropExpired
<1>4. ASSUME NEW r \in Requests, NEW t \in Tiles, Publish(r, t) PROVE StoreInv'
  <2>1. CASE err[r][t] = "none"
    <3>1. got[r][t] \in Entry
      BY <1>4, <2>1 DEF Publish, ResultInv, HasResult, TypeOK
    <3> QED
      BY <1>4, <2>1, <3>1, AddKeepsStore DEF Publish
  <2>2. CASE err[r][t] # "none"
    BY <1>1, <1>4, <2>2 DEF Publish
  <2> QED
    BY <2>1, <2>2
<1>5. ASSUME NEW r \in Requests, NEW t \in Tiles, Undecodable(r, t) PROVE StoreInv'
  BY <1>5, DiscardKeepsStore DEF Undecodable, Invalidate
<1>6. \/ UNCHANGED store
      \/ \E r \in Requests, t \in Tiles :
           \/ LoadHit(r, t) \/ LoadJoins(r, t) \/ LoadLeads(r, t)
           \/ Publish(r, t) \/ Undecodable(r, t)
  BY DEF Next, Terminated, Start, Finish, EndContext, Tick, vars, Goroutine, Load, Follow,
     FollowerCancelled, FollowerServed, Fetch, FetchSucceeds, FetchFails, Fetched, Consume,
     LoadFailed, Decoded, store
<1> QED
  BY <1>1, <1>2, <1>3, <1>4, <1>5, <1>6

(* The map, the LRU list and the byte counter always describe the same      *)
(* entries, and never exceed either limit, whatever loads, expiries,        *)
(* evictions and invalidations interleave.                                  *)
THEOREM CacheStaysConsistent == Spec => []StoreConsistent
<1>1. StoreInv => StoreConsistent
  BY StoreFinite DEF StoreInv, StoreConsistent
<1> QED
  BY <1>1, TypeInit, TypeStep, OnlyWantedInit, OnlyWantedStep, ResultInit, ResultStep,
     StoreInit, StoreStep, PTL DEF Spec, TypeInv
=============================================================================

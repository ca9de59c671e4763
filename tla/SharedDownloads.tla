---------------------------- MODULE SharedDownloads ----------------------------
(***************************************************************************)
(* What tileCache.load promises to the goroutines that call it (cache.go), *)
(* without the LRU list, the clock, the contexts or the two critical       *)
(* sections: whoever asks for a key is answered with the stored entry, or  *)
(* with the outcome of a download of that key, its own or one it shares.   *)
(* A download starts only while none of its key runs, it leaves the key    *)
(* empty meanwhile, and nothing enters the store but its outcome.          *)
(***************************************************************************)
CONSTANTS Callers, Keys, Entries, Errors, NoEntry, NoCaller

VARIABLES
  stored,    \* key -> the entry the cache would serve, or NoEntry
  running,   \* key -> the caller that downloads it, or NoCaller
  state,     \* caller -> key -> "out", "asking", "downloading", "sharing" or "answered"
  source,    \* caller -> key -> whose download it shares
  answer     \* caller -> key -> what load returned

vars == <<stored, running, state, source, answer>>

NoAnswer == [entry |-> NoEntry, error |-> "none"]
Outcomes == [entry : Entries, error : {"none"}] \cup [entry : {NoEntry}, error : Errors]

Init ==
  /\ stored = [k \in Keys |-> NoEntry]
  /\ running = [k \in Keys |-> NoCaller]
  /\ state = [c \in Callers |-> [k \in Keys |-> "out"]]
  /\ source = [c \in Callers |-> [k \in Keys |-> NoCaller]]
  /\ answer = [c \in Callers |-> [k \in Keys |-> NoAnswer]]

Without(D) == [k \in Keys |-> IF k \in D THEN NoEntry ELSE stored[k]]

Enter(c, k, s) == state' = [state EXCEPT ![c][k] = s]

Answer(c, k, outcome) ==
  /\ Enter(c, k, "answered")
  /\ answer' = [answer EXCEPT ![c][k] = outcome]

Ask(c) ==
  /\ \A k \in Keys : state[c][k] = "out"
  /\ \E W \in SUBSET Keys :
       state' = [state EXCEPT ![c] = [k \in Keys |-> IF k \in W THEN "asking" ELSE "out"]]
  /\ UNCHANGED <<stored, running, source, answer>>

Hit(c, k) ==
  /\ state[c][k] = "asking"
  /\ stored[k] # NoEntry
  /\ Answer(c, k, [entry |-> stored[k], error |-> "none"])
  /\ UNCHANGED <<stored, running, source>>

Lead(c, k) ==
  /\ state[c][k] = "asking"
  /\ running[k] = NoCaller
  /\ stored' = Without({k})
  /\ running' = [running EXCEPT ![k] = c]
  /\ Enter(c, k, "downloading")
  /\ UNCHANGED <<source, answer>>

Join(c, k) ==
  /\ state[c][k] = "asking"
  /\ running[k] # NoCaller
  /\ source' = [source EXCEPT ![c][k] = running[k]]
  /\ Enter(c, k, "sharing")
  /\ UNCHANGED <<stored, running, answer>>

GiveUp(c, k) ==
  /\ state[c][k] = "sharing"
  /\ \E e \in Errors : Answer(c, k, [entry |-> NoEntry, error |-> e])
  /\ UNCHANGED <<stored, running, source>>

Share(c, k) ==
  /\ state[c][k] = "sharing"
  /\ state[source[c][k]][k] = "answered"
  /\ Answer(c, k, answer[source[c][k]][k])
  /\ UNCHANGED <<stored, running, source>>

(* The download ends; its entry may be refused or make others leave.        *)
Complete(c, k) ==
  /\ state[c][k] = "downloading"
  /\ running[k] = c
  /\ running' = [running EXCEPT ![k] = NoCaller]
  /\ answer'[c][k] \in Outcomes
  /\ Answer(c, k, answer'[c][k])
  /\ \E D \in SUBSET Keys :
       stored' \in {Without(D), [Without(D) EXCEPT ![k] = answer'[c][k].entry]}
  /\ UNCHANGED source

(* Evictions and invalidations.                                             *)
Forget ==
  /\ \E D \in SUBSET Keys : stored' = Without(D)
  /\ UNCHANGED <<running, state, source, answer>>

Next ==
  \/ \E c \in Callers : Ask(c)
  \/ \E c \in Callers, k \in Keys :
       Hit(c, k) \/ Lead(c, k) \/ Join(c, k) \/ GiveUp(c, k) \/ Share(c, k) \/ Complete(c, k)
  \/ Forget

Spec == Init /\ [][Next]_vars
=============================================================================

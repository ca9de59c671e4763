------------------------------- MODULE RateGate -------------------------------
(***************************************************************************)
(* rateGate of internal/traffic/tomtom/client.go: the one place where the  *)
(* downloads of every POST /detours request of the process are spaced.     *)
(* wait hands out a start time under the mutex and then sleeps until it,   *)
(* or until the context of its caller ends; the slot of a caller that gave  *)
(* up is not handed out again.                                             *)
(***************************************************************************)
EXTENDS Integers, FiniteSets

CONSTANTS
  Callers,    \* the downloads that call wait, each once
  Interval    \* time.Second / RequestsPerSecond

ASSUME GateAssumption == Interval \in Nat \ {0}

VARIABLES
  now,        \* time.Now()
  next,       \* gate.next
  gate,       \* caller -> where it is in wait
  slot        \* caller -> the start time it was given

gateVars == <<next, gate, slot>>

GateInit ==
  /\ next = 0
  /\ gate = [c \in Callers |-> "idle"]
  /\ slot = [c \in Callers |-> 0]

(* start: the later of now and next.                                        *)
FirstFree == IF next > now THEN next ELSE now

\* Mutant of NextFree: the interval is counted from now.
NextFreeFromNow(start) == now + Interval

\* Mutant of NextFree: every wait books two intervals.
NextFreeDouble(start) == start + Interval + Interval

NextFree(start) == start + Interval

(* The caller takes the next slot.  When that slot is now, wait returns     *)
(* without a look at the context.                                           *)
Enter(c) ==
  /\ gate[c] = "idle"
  /\ slot' = [slot EXCEPT ![c] = FirstFree]
  /\ next' = NextFree(FirstFree)
  /\ gate' = [gate EXCEPT ![c] = IF FirstFree <= now THEN "passed" ELSE "waiting"]

(* The timer fires.                                                         *)
Pass(c) ==
  /\ gate[c] = "waiting"
  /\ now >= slot[c]
  /\ gate' = [gate EXCEPT ![c] = "passed"]
  /\ UNCHANGED <<next, slot>>

(* ctx.Done(): the context of these callers ended while they waited.        *)
AfterCancel(C) ==
  [c \in Callers |-> IF c \in C /\ gate[c] = "waiting" THEN "cancelled" ELSE gate[c]]

Booked == {c \in Callers : gate[c] # "idle"}

GateTypeOK ==
  /\ now \in Nat
  /\ next \in Nat
  /\ gate \in [Callers -> {"idle", "waiting", "passed", "cancelled"}]
  /\ slot \in [Callers -> Nat]

(* No burst, whoever calls and whoever gives up: two downloads of the       *)
(* process never start less than an interval apart (the provider's rate,   *)
(* TomTomRequestsPerSecond).                                                *)
DownloadsAreSpaced ==
  \A c, d \in Booked : c # d => slot[c] >= slot[d] + Interval \/ slot[d] >= slot[c] + Interval

(* A download waits for the ones booked before it and for nothing else:     *)
(* either it starts when it calls, or the slot one interval before its own *)
(* was taken.                                                               *)
GateNeverIdles ==
  [][\A c \in Callers :
       gate[c] = "idle" /\ gate'[c] # "idle" =>
         slot'[c] = now \/ \E d \in Booked : slot'[c] = slot[d] + Interval]_gateVars
=============================================================================

----------------------------- MODULE ProviderPool -----------------------------
(***************************************************************************)
(* AiProviderPool of app/ai/provider_pool.py: a call takes a snapshot of   *)
(* the providers that are not cooling down, least loaded first, and works  *)
(* through it, waiting at each for one of its places. A transient failure  *)
(* cools the provider down and falls through to the next one.              *)
(*                                                                         *)
(* Readiness is whether an API key is configured and never changes: a      *)
(* provider that is not ready is left out of Serves. A cooldown may have   *)
(* no length (AI_TEXT_PROVIDER_FAILURE_COOLDOWN_SECONDS may be 0).         *)
(***************************************************************************)
EXTENDS AsyncSemaphore

CONSTANTS
  PoolCalls,       (* bound: the calls made                                  *)
  Docked,          (* the providers in docking order                         *)
  SlotConcurrency, (* max_concurrency of each                                *)
  Serves           (* the ready providers that have a call's method          *)

Slots == ToSet(Docked)

(* dock() refuses a name twice, and a concurrency below 1. What no provider
   offers is refused at once and not a call here.                            *)
PoolAssumption ==
  /\ IsFiniteSet(PoolCalls) /\ Docked \in Seq(Slots) /\ IsInjective(Docked)
  /\ SlotConcurrency \in [Slots -> Nat \ {0}]
  /\ Serves \in [PoolCalls -> (SUBSET Slots) \ {{}}]

VARIABLES
  at,       (* how far each call is, or how it has ended                     *)
  plan,     (* its candidates; it waits for the first or is calling it       *)
  tried,    (* last_transient_error is set                                   *)
  sem,      (* the semaphore of each slot                                    *)
  active,   (* active_calls                                                  *)
  cooling,  (* the clock is short of cooldown_until                          *)
  due       (* sleeping calls whose time has come                            *)

poolVars == <<at, plan, tried, sem, active, cooling, due>>

PoolEnds == {"answered", "refused", "failed", "unavailable", "left"}
In(place) == { c \in PoolCalls : at[c] = place }
Slot(c) == Head(plan[c])
(* _cooldown_wait_seconds: whose sleep the cooldown of s may end.            *)
Sleepers(s) == { c \in In("sleeping") : s \in Serves[c] }

-----------------------------------------------------------------------------
(* Stable sort: docking order breaks ties.                                   *)
Before(s, t) ==
  LET position(u) == CHOOSE i \in DOMAIN Docked : Docked[i] = u
      load(u, v) == active[u] * SlotConcurrency[v]
  IN \/ load(s, t) < load(t, s)
     \/ load(s, t) = load(t, s) /\ position(s) < position(t)

Sorted(S) ==
  { p \in [1 .. Cardinality(S) -> S] : \A i, j \in DOMAIN p : i < j => Before(p[i], p[j]) }

(* _candidate_slots: there is one order of them.                             *)
CandidatesIncapable(c) == Sorted(Slots \ cooling) (* mutant: not whether it has the method *)
Candidates(c) == Sorted(Serves[c] \ cooling)

(* The loop over the slots from p up to the next await, in which c first runs
   or releases as m says: slots with a free place that have begun to cool down
   meanwhile are entered and left again.                                     *)
SkipNothing(m, p, i) == FALSE (* mutant: the slot is not looked at again *)
Skip(m, p, i) == ~Locked(m[p[i]]) /\ p[i] \in cooling'
WalkOn(c, m, p) ==
  \E k \in 1 .. Len(p) + 1 :
  LET s == p[k]
      enters == k <= Len(p) /\ ~Locked(m[s])
  IN /\ k <= Len(p) => ~Skip(m, p, k)
     /\ \A j \in 1 .. k - 1 : Skip(m, p, j)
     /\ plan' = [plan EXCEPT ![c] = SubSeq(p, k, Len(p))]
     /\ sem' = IF k <= Len(p) THEN [m EXCEPT ![s] = Acquire(@, c)] ELSE m
     /\ at' = [at EXCEPT ![c] = IF enters THEN "calling"
                                ELSE IF k <= Len(p) THEN "waiting"
                                ELSE IF c \in tried' THEN "failed" ELSE "unavailable"]
     /\ active' = [u \in Slots |-> active[u]
                     + (IF enters /\ u = s THEN 1 ELSE 0)
                     - (IF at[c] = "calling" /\ u = Slot(c) THEN 1 ELSE 0)]

(* _invoke: with every provider cooling down the call sleeps first.          *)
Invoke(c) ==
  /\ at[c] = "new"
  /\ UNCHANGED <<tried, cooling, due>>
  /\ \E p \in Candidates(c) :
       \/ p = <<>> /\ at' = [at EXCEPT ![c] = "sleeping"] /\ UNCHANGED <<plan, sem, active>>
       \/ p # <<>> /\ WalkOn(c, sem, p)

(* The shortest cooldown, as it was when the call went to sleep, is over.    *)
Awake(c) ==
  /\ at[c] = "sleeping" /\ c \in due
  /\ UNCHANGED <<tried, cooling>>
  /\ due' = due \ {c}
  /\ \E p \in Candidates(c) : WalkOn(c, sem, p)

(* A call gets its place, and uses it unless the provider cools down by now. *)
Start(c) ==
  /\ at[c] = "waiting" /\ c \in sem[Slot(c)].woken /\ Slot(c) \notin cooling
  /\ sem' = [sem EXCEPT ![Slot(c)] = Resumed(@, c)]
  /\ at' = [at EXCEPT ![c] = "calling"]
  /\ active' = [active EXCEPT ![Slot(c)] = @ + 1]
  /\ UNCHANGED <<plan, tried, cooling, due>>

PassOver(c) ==
  /\ at[c] = "waiting" /\ c \in sem[Slot(c)].woken /\ Slot(c) \in cooling
  /\ UNCHANGED <<tried, cooling, due>>
  /\ WalkOn(c, [sem EXCEPT ![Slot(c)] = Release(Resumed(@, c), c)], Tail(plan[c]))

-----------------------------------------------------------------------------
(* The provider returns, or raises what is not transient.                    *)
Concluded(c) == sem' = [sem EXCEPT ![Slot(c)] = Release(@, c)]
Conclude(c) ==
  /\ at[c] = "calling"
  /\ \E end \in {"answered", "refused"} : at' = [at EXCEPT ![c] = end]
  /\ Concluded(c)
  /\ active' = [active EXCEPT ![Slot(c)] = @ - 1]
  /\ plan' = [plan EXCEPT ![c] = <<>>]
  /\ UNCHANGED <<tried, cooling, due>>

(* activate_cooldown. A sleeper's time may come before an extended cooldown is
   over.                                                                     *)
ActivateCooldown(s) ==
  \/ UNCHANGED <<cooling, due>>
  \/ /\ cooling' = cooling \cup {s}
     /\ \/ UNCHANGED due
        \/ s \in cooling /\ due' = due \cup Sleepers(s)

FallThroughKeepingPlace(c) == sem (* mutant: the place is not given back *)
FallThrough(c) == [sem EXCEPT ![Slot(c)] = Release(@, c)]
TransientFailure(c) ==
  /\ at[c] = "calling"
  /\ ActivateCooldown(Slot(c))
  /\ tried' = tried \cup {c}
  /\ WalkOn(c, FallThrough(c), Tail(plan[c]))

(* The caller's timeout, or its cancellation, at any await.                  *)
Leave(c) ==
  /\ at[c] \in {"sleeping", "waiting", "calling"}
  /\ at' = [at EXCEPT ![c] = "left"]
  /\ IF at[c] = "sleeping" THEN UNCHANGED sem
     ELSE IF at[c] = "calling" THEN Concluded(c)
     ELSE sem' = [sem EXCEPT ![Slot(c)] = Abandon(@, c)]
  /\ active' = IF at[c] = "calling" THEN [active EXCEPT ![Slot(c)] = @ - 1] ELSE active
  /\ plan' = [plan EXCEPT ![c] = <<>>]
  /\ due' = due \ {c}
  /\ UNCHANGED <<tried, cooling>>

CoolsOff(s) ==
  /\ s \in cooling
  /\ cooling' = cooling \ {s}
  /\ due' = due \cup Sleepers(s)
  /\ UNCHANGED <<at, plan, tried, sem, active>>

-----------------------------------------------------------------------------
PoolInit ==
  /\ at = [c \in PoolCalls |-> "new"]
  /\ plan = [c \in PoolCalls |-> <<>>]
  /\ tried = {}
  /\ sem = [s \in Slots |-> Semaphore(SlotConcurrency[s])]
  /\ active = [s \in Slots |-> 0]
  /\ cooling = {} /\ due = {}

(* Every call has been made and has ended.                                   *)
PoolRests == cooling = {} /\ (\A c \in PoolCalls : at[c] \in PoolEnds) /\ UNCHANGED poolVars

PoolNext ==
  \/ \E c \in PoolCalls :
       \/ Invoke(c) \/ Awake(c) \/ Start(c) \/ PassOver(c)
       \/ Conclude(c) \/ TransientFailure(c) \/ Leave(c)
  \/ \E s \in Slots : CoolsOff(s)
  \/ PoolRests

(* The event loop runs what can run, providers answer or time out, and time
   passes. Nobody needs to call, and no caller needs to give up.             *)
PoolFairness ==
  /\ \A c \in PoolCalls :
       /\ WF_poolVars(Awake(c)) /\ WF_poolVars(Start(c))
       /\ WF_poolVars(PassOver(c)) /\ WF_poolVars(Conclude(c))
  /\ \A s \in Slots : WF_poolVars(CoolsOff(s))

PoolSpec == PoolInit /\ [][PoolNext]_poolVars
PoolFairSpec == PoolSpec /\ PoolFairness

-----------------------------------------------------------------------------
(* Properties. *)

PoolTypes ==
  /\ at \in [PoolCalls -> {"new", "sleeping", "waiting", "calling"} \cup PoolEnds]
  /\ \A c \in PoolCalls : plan[c] \in Seq(Serves[c])
  /\ tried \subseteq PoolCalls /\ due \subseteq In("sleeping")
  /\ DOMAIN sem = Slots /\ \A s \in Slots : sem[s] \in Semaphores(PoolCalls, SlotConcurrency[s])
  /\ active \in [Slots -> Nat] /\ cooling \subseteq Slots

(* Whatever fails, waits or is cancelled where: a place is held exactly by the calls
   under way at that provider, active_calls counts them, and none is lost
   (_invoke 211-229).                                                        *)
PlacesAreCalls ==
  \A s \in Slots :
    LET here(place) == { c \in In(place) : Slot(c) = s }
    IN /\ sem[s].held = here("calling") /\ active[s] = Cardinality(here("calling"))
       /\ Waiters(sem[s]) = here("waiting")
       /\ Conserved(sem[s], SlotConcurrency[s])

(* The accounts of the pool.                                                 *)
PoolInv == PoolTypes /\ PlacesAreCalls

(* A provider that cools down gets no new call, also not from those that chose it, or
   queued for it, before its failure (_invoke 213-214).                      *)
CoolingIsLeftAlone ==
  \A c \in PoolCalls : at[c] # "calling" /\ at'[c] = "calling" => Slot(c)' \notin cooling

(* Every call ends; a call is made once, so from some time on none is under way (_invoke). *)
PoolCallsEnd == <>[](\A c \in PoolCalls : at[c] \in {"new"} \cup PoolEnds)
=============================================================================

--------------------------- MODULE IdempotencyStore ---------------------------
(***************************************************************************)
(* InMemoryIdempotencyStore of app/common/idempotency.py behind the        *)
(* translation retries of app/features/voice_translation/translation.py:   *)
(* a retry whose request id is known is answered with the stored result,   *)
(* retries of one id at the same time share one translation, and a result  *)
(* is kept for a while, as long as there is room.                          *)
(*                                                                         *)
(* An asyncio.Lock hands itself over as a semaphore of one does. An entry  *)
(* whose time is up is removed by the next get or put, whatever its key;   *)
(* nothing sees it before, so it goes here when its time is up.            *)
(***************************************************************************)
EXTENDS AsyncSemaphore

CONSTANTS
  Retries,     (* bound: the calls of retry                                  *)
  Key,         (* the requestId of each                                      *)
  Payload,     (* what each asks to have translated, and for whom            *)
  MaxEntries,  (* AI_VOICE_TRANSLATION_IDEMPOTENCY_MAX_ENTRIES               *)
  NoCall

Keys == { Key[c] : c \in Retries }

StoreAssumption ==
  /\ IsFiniteSet(Retries) /\ NoCall \notin Retries
  /\ Key \in [Retries -> Keys] /\ DOMAIN Payload = Retries
  /\ MaxEntries \in Nat \ {0}

VARIABLES
  retryAt,  (* how far each call is                                          *)
  lock,     (* the lock a call has a reference to, named by who made it      *)
  locks,    (* _async_locks, which keeps a lock while a call refers to it    *)
  lockSem,  (* the state of each lock                                        *)
  entries,  (* _items, the least recently used first                         *)
  result    (* the call whose translation a call has been given              *)

storeVars == <<retryAt, lock, locks, lockSem, entries, result>>

Retrying == { c \in Retries : retryAt[c] \in {"waiting", "translating"} }
RetryEnds == {"answered", "refused", "failed", "left"}

-----------------------------------------------------------------------------
(* The store. *)

Known(k) == \E i \in DOMAIN entries : entries[i].key = k
PlaceOf(k) == CHOOSE i \in DOMAIN entries : entries[i].key = k
Stored(k) == entries[PlaceOf(k)].value
Others(k) == IF Known(k) THEN RemoveAt(entries, PlaceOf(k)) ELSE entries

(* get(): what is found counts as used now.                                  *)
Touched(k) == Append(Others(k), [key |-> k, value |-> Stored(k)])

(* put(): the least recently used entries make room.                         *)
WithinCapacityOne(s) == IF Len(s) > MaxEntries + 1 THEN Tail(s) ELSE s (* mutant: off by one *)
WithinCapacity(s) == IF Len(s) > MaxEntries THEN SubSeq(s, 1 + Len(s) - MaxEntries, Len(s)) ELSE s
WithResult(c) == WithinCapacity(Append(Others(Key[c]), [key |-> Key[c], value |-> c]))

(* An entry has been there for ttl_seconds.                                  *)
Expires(k) ==
  /\ Known(k)
  /\ entries' = Others(k)
  /\ UNCHANGED <<retryAt, lock, locks, lockSem, result>>

-----------------------------------------------------------------------------
(* The locks. *)

(* The lock of c's key: the one that is there, or one of c's own.            *)
LockFor(c) == IF locks[Key[c]] = NoCall THEN c ELSE locks[Key[c]]

(* c's reference is gone, and with the last one the lock.                    *)
DropAlways(c) == [locks EXCEPT ![Key[c]] = NoCall] (* mutant: whoever is done removes it *)
Drop(c) ==
  IF \E d \in Retrying \ {c} : lock[d] = locks[Key[c]] THEN locks
  ELSE [locks EXCEPT ![Key[c]] = NoCall]

RetryEnded(c, end) ==
  /\ retryAt' = [retryAt EXCEPT ![c] = end]
  /\ locks' = Drop(c)
  /\ lock' = [lock EXCEPT ![c] = NoCall]

-----------------------------------------------------------------------------
(* retry: a stored result is for the same request only.                      *)
AcceptableAlways(c, v) == TRUE (* mutant: the payload is not compared *)
Acceptable(c, v) == Payload[v] = Payload[c]
AnswerTo(c, v) == IF Acceptable(c, v) THEN "answered" ELSE "refused"

Retry(c) ==
  /\ retryAt[c] = "new"
  /\ IF Known(Key[c])
     THEN /\ entries' = Touched(Key[c])
          /\ retryAt' = [retryAt EXCEPT ![c] = AnswerTo(c, Stored(Key[c]))]
          /\ result' = [result EXCEPT ![c] = Stored(Key[c])]
          /\ UNCHANGED <<lock, locks, lockSem>>
     ELSE LET l == LockFor(c)
          IN /\ lock' = [lock EXCEPT ![c] = l]
             /\ locks' = [locks EXCEPT ![Key[c]] = l]
             /\ retryAt' =
                  [retryAt EXCEPT ![c] = IF Locked(lockSem[l]) THEN "waiting" ELSE "translating"]
             /\ lockSem' = [lockSem EXCEPT ![l] = Acquire(@, c)]
             /\ UNCHANGED <<entries, result>>

(* A waiter has the lock and looks again.                                    *)
FoundBefore(c) == FALSE (* mutant: a waiter does not look again *)
Found(c) == Known(Key[c])
Entered(c) ==
  /\ retryAt[c] = "waiting" /\ c \in lockSem[lock[c]].woken
  /\ IF Found(c)
     THEN /\ entries' = Touched(Key[c])
          /\ RetryEnded(c, AnswerTo(c, Stored(Key[c])))
          /\ result' = [result EXCEPT ![c] = Stored(Key[c])]
          /\ lockSem' = [lockSem EXCEPT ![lock[c]] = Release(Resumed(@, c), c)]
     ELSE /\ retryAt' = [retryAt EXCEPT ![c] = "translating"]
          /\ lockSem' = [lockSem EXCEPT ![lock[c]] = Resumed(@, c)]
          /\ UNCHANGED <<lock, locks, entries, result>>

Translated(c) ==
  /\ retryAt[c] = "translating"
  /\ entries' = WithResult(c)
  /\ RetryEnded(c, "answered")
  /\ result' = [result EXCEPT ![c] = c]
  /\ lockSem' = [lockSem EXCEPT ![lock[c]] = Release(@, c)]

(* The translation fails, or its caller is gone: nothing is stored.          *)
HandOnNever(c) == UNCHANGED lockSem (* mutant: the lock is kept *)
HandOn(c) == lockSem' = [lockSem EXCEPT ![lock[c]] = Release(@, c)]
NotTranslated(c) ==
  /\ retryAt[c] = "translating"
  /\ \E end \in {"failed", "left"} : RetryEnded(c, end)
  /\ HandOn(c)
  /\ UNCHANGED <<entries, result>>
Leaves(c) ==
  /\ retryAt[c] = "waiting"
  /\ RetryEnded(c, "left")
  /\ lockSem' = [lockSem EXCEPT ![lock[c]] = Abandon(@, c)]
  /\ UNCHANGED <<entries, result>>

-----------------------------------------------------------------------------
StoreInit ==
  /\ retryAt = [c \in Retries |-> "new"]
  /\ lock = [c \in Retries |-> NoCall] /\ locks = [k \in Keys |-> NoCall]
  /\ lockSem = [c \in Retries |-> Semaphore(1)]
  /\ entries = <<>> /\ result = [c \in Retries |-> NoCall]

(* Every call has been made and has ended.                                   *)
StoreRests == (\A c \in Retries : retryAt[c] \in RetryEnds) /\ entries = <<>> /\ UNCHANGED storeVars

StoreNext ==
  \/ \E c \in Retries : Retry(c) \/ Entered(c) \/ Translated(c) \/ NotTranslated(c) \/ Leaves(c)
  \/ \E k \in Keys : Expires(k)
  \/ StoreRests

(* The event loop runs the waiters; a translation has deadlines.             *)
StoreFairness == \A c \in Retries :
  WF_storeVars(Entered(c)) /\ WF_storeVars(Translated(c) \/ NotTranslated(c))

StoreSpec == StoreInit /\ [][StoreNext]_storeVars
StoreFairSpec == StoreSpec /\ StoreFairness

-----------------------------------------------------------------------------
(* Properties. *)

StoreTypes ==
  /\ retryAt \in [Retries -> {"new", "waiting", "translating"} \cup RetryEnds]
  /\ lock \in [Retries -> Retries \cup {NoCall}] /\ locks \in [Keys -> Retries \cup {NoCall}]
  /\ lockSem \in [Retries -> Semaphores(Retries, 1)]
  /\ entries \in Seq([key: Keys, value: Retries]) /\ Len(entries) <= MaxEntries
  /\ \A i, j \in DOMAIN entries : entries[i].key = entries[j].key => i = j
  /\ result \in [Retries -> Retries \cup {NoCall}]

(* Calls with one request id never translate at the same time, whoever of them comes,
   fails, leaves or is the last to refer to their lock (execute 56-61).      *)
SingleFlight ==
  \A c, d \in Retries :
    Key[c] = Key[d] /\ retryAt[c] = "translating" /\ retryAt[d] = "translating" => c = d

(* What is stored is not translated again, also by those that have waited for it
   (execute 62-64).                                                          *)
NotTwice ==
  \A c \in Retries :
    retryAt[c] # "translating" /\ retryAt'[c] = "translating" => ~Known(Key[c])

(* An answer is a translation of what the caller asked for, made by itself or by a call
   with the same request id (retry 268-282).                                 *)
AnswersFit ==
  \A c \in Retries :
    retryAt[c] = "answered" => /\ result[c] \in Retries /\ retryAt[result[c]] = "answered"
                          /\ Key[result[c]] = Key[c] /\ Payload[result[c]] = Payload[c]

(* The store at every moment.                                                *)
StoreInv == StoreTypes /\ SingleFlight /\ AnswersFit

(* Every call ends, though the one it waits for may fail or leave (execute 61-67); a call
   is made once, so from some time on none is under way.                       *)
RetriesEnd == <>[](Retrying = {})
=============================================================================

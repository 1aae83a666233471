---------------------------- MODULE StreamRegistry ----------------------------
(***************************************************************************)
(* VoiceStreamApplicationService of app/features/voice_translation/        *)
(* stream.py: which stream is registered under which session and channel,  *)
(* while handlers open and release streams, streams close by themselves    *)
(* (VoiceStream.tla is the inside of one) and the server shuts down.       *)
(*                                                                         *)
(* Nothing is awaited while _lock is held, so a section under it is one    *)
(* step. A stream that is being aborted counts as closed from the first    *)
(* moment: whoever meets it then does not wait for the rest of the abort.  *)
(***************************************************************************)
EXTENDS Integers, FiniteSets

CONSTANTS
  Streams,     (* bound: the contexts created                                *)
  Keys,        (* session and channel                                        *)
  MaxActive,   (* AI_VOICE_MAX_ACTIVE_STREAMS                                *)
  None

RegistryAssumption ==
  /\ IsFiniteSet(Streams) /\ IsFiniteSet(Keys)
  /\ MaxActive \in Nat \ {0}
  /\ None \notin Streams \cup Keys

VARIABLES
  context,     (* the state of each stream                                   *)
  key,         (* the key it was opened with                                 *)
  aborter,     (* who waits for the end of its abort                         *)
  handler,     (* how far the handler of its connection is                   *)
  registered,  (* _streams: the stream of each key, or None                  *)
  phase,       (* of shutdown       *)
  leftToClose  (* streams whose _close_for_shutdown has not returned         *)

vars == <<context, key, aborter, handler, registered, phase, leftToClose>>

Open == { s \in Streams : context[s] = "open" }
Entries == { k \in Keys : registered[k] # None }
Closed(s) == context[s] \in {"aborting", "closed"}

-----------------------------------------------------------------------------
AcceptingLate == phase # "closed" (* mutant: streams are accepted to the end *)
Accepting == phase = "serving"

(* open_stream: a key whose stream is closed may be taken over.              *)
MayOpenTwice(k) == Cardinality(Entries) < MaxActive (* mutant: the key is not looked at *)
MayOpenUnlimited(k) == (* mutant: the limit is forgotten *)
  IF registered[k] = None THEN TRUE ELSE Closed(registered[k])
MayOpen(k) ==
  IF registered[k] = None THEN Cardinality(Entries) < MaxActive ELSE Closed(registered[k])

OpenStream(s, k) ==
  /\ context[s] = "new" /\ Accepting /\ MayOpen(k)
  /\ context' = [context EXCEPT ![s] = "open"]
  /\ key' = [key EXCEPT ![s] = k]
  /\ handler' = [handler EXCEPT ![s] = "serving"]
  /\ registered' = [registered EXCEPT ![k] = s]
  /\ UNCHANGED <<aborter, phase, leftToClose>>

(* The client closes it, the shutdown does, or it fails.                     *)
Closes(s) ==
  /\ context[s] = "open"
  /\ context' = [context EXCEPT ![s] = "closed"]
  /\ UNCHANGED <<key, aborter, handler, registered, phase, leftToClose>>

StartAbort(s, who) ==
  /\ context[s] = "open"
  /\ context' = [context EXCEPT ![s] = "aborting"]
  /\ aborter' = [aborter EXCEPT ![s] = who]

AbortEnds(s) ==
  /\ context[s] = "aborting"
  /\ context' = [context EXCEPT ![s] = "closed"]
  /\ UNCHANGED <<key, aborter, handler, registered, phase, leftToClose>>

(* release_stream: only a stream that is not closed is aborted and waited for. *)
LeavesOpen(s) == (* mutant: the stream is not aborted *)
  handler[s] = "serving" /\ UNCHANGED <<context, aborter>>
Leaves(s) ==
  /\ handler[s] = "serving"
  /\ IF Closed(s) THEN UNCHANGED <<context, aborter>> ELSE StartAbort(s, "handler")
HandlerLeaves(s) ==
  /\ Leaves(s)
  /\ handler' = [handler EXCEPT ![s] = "releasing"]
  /\ UNCHANGED <<key, registered, phase, leftToClose>>

(* The key may belong to a younger stream by now.                            *)
WithoutKey(s) == [registered EXCEPT ![key[s]] = None] (* mutant: whoever has it *)
Without(s) == [k \in Keys |-> IF registered[k] = s THEN None ELSE registered[k]]
ReleaseStream(s) ==
  /\ handler[s] = "releasing"
  /\ aborter[s] = "handler" => context[s] = "closed"
  /\ handler' = [handler EXCEPT ![s] = "gone"]
  /\ registered' = Without(s)
  /\ UNCHANGED <<context, key, aborter, phase, leftToClose>>

-----------------------------------------------------------------------------
(* shutdown *)

SnapshotAll == { registered[k] : k \in Keys } (* mutant: keys without a stream too *)
Snapshot == { registered[k] : k \in Entries }
Shutdown ==
  /\ phase = "serving" /\ phase' = "closing"
  /\ leftToClose' = Snapshot
  /\ UNCHANGED <<context, key, aborter, handler, registered>>

(* close() has taken longer than the grace period.                           *)
ShutdownAbortsNever(s) == FALSE (* mutant: close() is waited for without a timeout *)
ShutdownAborts(s) == s \in leftToClose /\ StartAbort(s, "shutdown")
GraceEnds(s) ==
  /\ ShutdownAborts(s)
  /\ UNCHANGED <<key, handler, registered, phase, leftToClose>>

(* close() or abort() has returned, at once if the stream was closed.        *)
ShutdownClosed(s) ==
  /\ s \in leftToClose /\ Closed(s)
  /\ aborter[s] = "shutdown" => context[s] = "closed"
  /\ leftToClose' = leftToClose \ {s}
  /\ UNCHANGED <<context, key, aborter, handler, registered, phase>>

ShutdownEnds ==
  /\ phase = "closing" /\ leftToClose = {}
  /\ phase' = "closed"
  /\ registered' = [k \in Keys |-> None]
  /\ UNCHANGED <<context, key, aborter, handler, leftToClose>>

-----------------------------------------------------------------------------
Init ==
  /\ context = [s \in Streams |-> "new"]
  /\ key = [s \in Streams |-> None]
  /\ aborter = [s \in Streams |-> "nobody"]
  /\ handler = [s \in Streams |-> "none"]
  /\ registered = [k \in Keys |-> None]
  /\ phase = "serving" /\ leftToClose = {}

(* The server has shut down and every connection is gone.                    *)
Rests ==
  /\ phase = "closed" /\ \A s \in Streams : handler[s] \in {"none", "gone"}
  /\ UNCHANGED vars

Next ==
  \/ \E s \in Streams :
       \/ \E k \in Keys : OpenStream(s, k)
       \/ Closes(s) \/ AbortEnds(s) \/ HandlerLeaves(s) \/ ReleaseStream(s)
       \/ GraceEnds(s) \/ ShutdownClosed(s)
  \/ Shutdown \/ ShutdownEnds
  \/ Rests

(* Aborts end (AbortEnds of VoiceStream.tla), the event loop runs handlers and
   the shutdown, and the grace period passes. A stream need not close.        *)
Fairness ==
  /\ \A s \in Streams :
       WF_vars(AbortEnds(s)) /\ WF_vars(ReleaseStream(s)) /\ WF_vars(GraceEnds(s))
         /\ WF_vars(ShutdownClosed(s))
  /\ WF_vars(ShutdownEnds)

Spec == Init /\ [][Next]_vars
FairSpec == Spec /\ Fairness

-----------------------------------------------------------------------------
(* Properties. *)

TypeOK ==
  /\ context \in [Streams -> {"new", "open", "aborting", "closed"}]
  /\ key \in [Streams -> Keys \cup {None}]
  /\ aborter \in [Streams -> {"nobody", "handler", "shutdown"}]
  /\ handler \in [Streams -> {"none", "serving", "releasing", "gone"}]
  /\ registered \in [Keys -> Streams \cup {None}]
  /\ phase \in {"serving", "closing", "closed"}
  /\ leftToClose \subseteq Streams

(* Every open stream is registered under its key, so that a session's channel has one
   at most and the shutdown reaches each: a late release of a closed stream does not
   take the key from its successor (release_stream 1534-1537).               *)
OpenIsRegistered == \A s \in Open : registered[key[s]] = s

(* However streams are replaced, the limit holds for the entries, and so for the open
   streams (open_stream 1502-1516).                                               *)
WithinLimit == Cardinality(Open) <= Cardinality(Entries) /\ Cardinality(Entries) <= MaxActive

(* Whose connection is gone leaves nothing behind: no entry that would count towards
   the limit, no stream that would go on (voice.py 115-117).                 *)
GoneIsGone ==
  \A s \in Streams :
    handler[s] = "gone" => Closed(s) /\ \A k \in Keys : registered[k] # s

(* After the shutdown no stream is open and none can be opened any more, whoever was
   just opening, closing or releasing one (shutdown 1540-1549).              *)
ShutdownLeavesNone == phase = "closed" => Open = {} /\ Entries = {}

(* The registry at every moment, also in the middle of a shutdown.           *)
StreamsInv == TypeOK /\ OpenIsRegistered /\ WithinLimit /\ GoneIsGone /\ ShutdownLeavesNone

(* The shutdown ends, though streams may not close by themselves
   (_close_for_shutdown 1556-1563).                                          *)
ShutdownReturns == <>[](phase # "closing")
=============================================================================

------------------------ MODULE CampaignLedger_proofs ------------------------
(***************************************************************************)
(* The ledger under any processes, calls and limits: a recorded stop is    *)
(* final, the provider is entered only for a booked call, no receipt is    *)
(* ahead of its entry, and the amounts are right: what has been used is    *)
(* charged, and the charges are within the limits until a stop is recorded.*)
(***************************************************************************)
EXTENDS CampaignLedger, SequenceTheorems, WellFoundedInduction, TLAPS

Places == {"new", "queued", "admitted", "reserved", "booked", "upstream", "settling", "settled", "over"}

(* The file is a record of a sequence of records.                            *)
IsEntry(e) == e = [call |-> e.call, status |-> e.status, reserved |-> e.reserved,
                   accounted |-> e.accounted, started |-> e.started, latency |-> e.latency]
IsLedger ==
  /\ ledger = [limit |-> ledger.limit, stopped |-> ledger.stopped, first |-> ledger.first,
               calls |-> ledger.calls]
  /\ \E S : ledger.calls \in Seq(S)
  /\ \A i \in 1 .. Len(ledger.calls) : IsEntry(ledger.calls[i])

Types ==
  /\ at \in [Calls -> Places] /\ outcome \in [Calls -> Statuses \cup {None}]
  /\ receipts \in [Calls -> Statuses \cup {None}]

Has(c, status) ==
  \E i \in 1 .. Len(ledger.calls) : ledger.calls[i].call = c /\ ledger.calls[i].status = status

(* A call is booked once, is open in the file until it has been settled, and then
   has there what it was settled with.                                       *)
Entries ==
  /\ \A i, j \in 1 .. Len(ledger.calls) : ledger.calls[i].call = ledger.calls[j].call => i = j
  /\ \A c \in Calls : at[c] \in {"new", "queued", "admitted"} =>
       \A i \in 1 .. Len(ledger.calls) : ledger.calls[i].call # c
  /\ \A c \in Calls : at[c] \in {"reserved", "booked", "upstream", "settling"} => Has(c, "STARTED")
  /\ \A c \in Calls : at[c] = "settled" => Has(c, outcome[c])

(* Nothing is settled as started.                                            *)
Outcomes == \A c \in Calls :
  at[c] \in {"settling", "settled"} => outcome[c] \in {"COMPLETED", "FAILED", "CANCELLED"}

(* A receipt is final only once its call is over.                            *)
Receipts == \A c \in Calls : receipts[c] \notin {None, "STARTED"} => at[c] = "over" /\ Has(c, receipts[c])

IInv == IsLedger /\ Types /\ Entries /\ Outcomes /\ Receipts

-----------------------------------------------------------------------------
LEMMA Initially == ASSUME Init PROVE IInv
<1>1. ledger.calls = <<>> /\ Len(ledger.calls) = 0 /\ IsLedger
  <2>1. ledger = [limit |-> Limit, stopped |-> None, first |-> None, calls |-> <<>>]
    BY DEF Init
  <2>2. <<>> \in Seq(Calls) /\ Len(<<>>) = 0
    BY EmptySeq
  <2> QED BY <2>1, <2>2 DEF IsLedger
<1>2. Types
  BY DEF Init, Types, Places
<1>3. Entries /\ Outcomes /\ Receipts
  BY <1>1 DEF Init, Entries, Outcomes, Receipts, Has
<1> QED BY <1>1, <1>2, <1>3 DEF IInv

-----------------------------------------------------------------------------
(* The file is as before, but for its stop or its limit.                     *)
Same ==
  /\ ledger' = [limit |-> ledger'.limit, stopped |-> ledger'.stopped, first |-> ledger'.first,
                calls |-> ledger'.calls]
  /\ ledger'.calls = ledger.calls
  /\ ledger.stopped # None => ledger'.stopped = ledger.stopped

(* Where calls go without it: nowhere they would need an entry, or a receipt, they
   do not have.                                                              *)
Goes(c) ==
  \/ at'[c] = at[c] /\ (at[c] \in {"settling", "settled"} => outcome'[c] = outcome[c])
  \/ at'[c] = "over"
  \/ at[c] \in {"new", "queued"} /\ at'[c] \in {"queued", "admitted"}
  \/ at[c] = "reserved" /\ at'[c] = "booked"
  \/ at[c] = "booked" /\ at'[c] = "upstream"
  \/ /\ at[c] \in {"booked", "upstream"} /\ at'[c] = "settling"
     /\ outcome'[c] \in {"COMPLETED", "FAILED", "CANCELLED"}
Marks(c) ==
  \/ receipts'[c] = receipts[c] /\ (at[c] = "over" => at'[c] = "over")
  \/ at[c] = "reserved" /\ receipts'[c] = "STARTED"
  \/ at[c] = "settled" /\ at'[c] = "over" /\ receipts'[c] = outcome[c]

LEMMA SameKeeps ==
  ASSUME IInv, Same, Types', \A c \in Calls : Goes(c) /\ Marks(c)
  PROVE  IInv'
<1>1. IsLedger'
  BY DEF IInv, IsLedger, Same, IsEntry
<1>2. \A c, s : Has(c, s) <=> (\E i \in 1 .. Len(ledger'.calls) :
                                 ledger'.calls[i].call = c /\ ledger'.calls[i].status = s)
  BY DEF Same, Has
<1>3. Entries'
  BY <1>2 DEF IInv, Entries, Same, Goes, Has
<1>4. Outcomes'
  BY DEF IInv, Outcomes, Goes
<1>5. Receipts'
  <2> SUFFICES ASSUME NEW c \in Calls, receipts'[c] \notin {None, "STARTED"}
               PROVE  /\ at'[c] = "over"
                      /\ \E i \in 1 .. Len(ledger.calls) :
                           ledger.calls[i].call = c /\ ledger.calls[i].status = receipts'[c]
    BY DEF Receipts, Has, Same
  <2>1. CASE receipts'[c] = receipts[c] /\ (at[c] = "over" => at'[c] = "over")
    BY <2>1 DEF IInv, Receipts, Has
  <2>2. CASE at[c] = "settled" /\ at'[c] = "over" /\ receipts'[c] = outcome[c]
    BY <2>2 DEF IInv, Entries, Has
  <2> QED BY <2>1, <2>2 DEF Marks
<1> QED BY <1>1, <1>3, <1>4, <1>5 DEF IInv

-----------------------------------------------------------------------------
(* The steps that leave the entries alone.                                   *)

LEMMA HaltedIsSame ==
  ASSUME IsLedger, NEW reason, ledger' = Halted(ledger, reason)
  PROVE  Same
BY DEF IsLedger, Halted, Same

LEMMA UnchangedIsSame == ASSUME IsLedger, UNCHANGED ledger PROVE Same
BY DEF IsLedger, Same

LEMMA RefusalIsSame ==
  ASSUME IsLedger, NEW c, NEW status, AdmissionRefused(c, status)
  PROVE  Same /\ status \in {"FAILED", "CANCELLED"}
BY HaltedIsSame, UnchangedIsSame DEF AdmissionRefused

LEMMA AdmissionKeeps ==
  ASSUME IInv, NEW c \in Calls, Admit(c) \/ GetLock(c)
  PROVE  Same /\ IInv'
<1>1. /\ at[c] \in {"new", "queued"} /\ UNCHANGED <<receipts, outcome>>
      /\ \E place \in {"queued", "admitted", "over"} : Move(c, place)
  BY DEF Admit, GetLock
<1>2. Same
  BY RefusalIsSame, UnchangedIsSame DEF IInv, Admit, GetLock
<1>3. Types'
  BY <1>1 DEF IInv, Types, Move, Places
<1>4. \A d \in Calls : Goes(d) /\ Marks(d)
  BY <1>1 DEF IInv, Types, Move, Goes, Marks
<1> QED BY <1>2, <1>3, <1>4, SameKeeps

LEMMA UnbookedKeeps ==
  ASSUME IInv, NEW c \in Calls,
         ReserveNotWritten(c) \/ WriteReceipt(c) \/ (Reserve(c) /\ Move(c, "over"))
  PROVE  Same /\ IInv'
<1>1. /\ UNCHANGED outcome
      /\ \/ at[c] = "admitted" /\ Move(c, "over") /\ UNCHANGED receipts
         \/ at[c] = "reserved" /\ Move(c, "over") /\ UNCHANGED receipts
         \/ at[c] = "reserved" /\ Move(c, "booked") /\ receipts' = [receipts EXCEPT ![c] = "STARTED"]
  BY DEF ReserveNotWritten, WriteReceipt, Reserve
<1>2. Same
  <2>1. CASE ReserveNotWritten(c) \/ WriteReceipt(c)
    BY <2>1, UnchangedIsSame DEF IInv, ReserveNotWritten, WriteReceipt
  <2>2. CASE Reserve(c) /\ Move(c, "over")
    <3>1. at[c] \in Places /\ at'[c] = "over"
      BY <2>2 DEF IInv, Types, Move
    <3>2. ~Move(c, IF c \in Audio THEN "reserved" ELSE "booked")
      BY <3>1 DEF IInv, Types, Move
    <3>3. UNCHANGED ledger \/ (ledger.stopped = None /\ ledger' = [ledger EXCEPT !.stopped = Denied(c)])
      BY <2>2, <3>2 DEF Reserve, StopSeen
    <3> QED BY <3>3, UnchangedIsSame DEF IInv, IsLedger, Same
  <2> QED BY <2>1, <2>2
<1>3. Types'
  BY <1>1 DEF IInv, Types, Move, Places, Statuses
<1>4. \A d \in Calls : Goes(d) /\ Marks(d)
  BY <1>1 DEF IInv, Types, Move, Goes, Marks
<1> QED BY <1>2, <1>3, <1>4, SameKeeps

LEMMA UpstreamKeeps ==
  ASSUME IInv, NEW c \in Calls,
         Enter(c) \/ ServiceAttempt(c) \/ Returns(c) \/ Fails(c) \/ DeadlinePasses(c) \/ Cancel(c)
  PROVE  Same /\ IInv'
<1>1. /\ UNCHANGED receipts
      /\ \/ UNCHANGED <<at, outcome>>
         \/ at[c] = "booked" /\ Move(c, "upstream") /\ UNCHANGED outcome
         \/ at[c] = "queued" /\ Move(c, "over") /\ UNCHANGED outcome
         \/ /\ at[c] \in {"booked", "upstream"} /\ Move(c, "settling")
            /\ \E status \in {"COMPLETED", "FAILED", "CANCELLED"} :
                 outcome' = [outcome EXCEPT ![c] = status]
  BY RefusalIsSame DEF IInv, Enter, ServiceAttempt, Returns, Fails, DeadlinePasses, Cancel, Settles
<1>2. Same
  BY RefusalIsSame, HaltedIsSame, UnchangedIsSame
     DEF IInv, Enter, ServiceAttempt, Returns, Fails, DeadlinePasses, Cancel
<1>3. Types'
  BY <1>1 DEF IInv, Types, Move, Places, Statuses
<1>4. \A d \in Calls : Goes(d) /\ Marks(d)
  BY <1>1 DEF IInv, Types, Move, Goes, Marks
<1> QED BY <1>2, <1>3, <1>4, SameKeeps

LEMMA AroundKeeps ==
  ASSUME IInv, (\E c \in Calls : FinishReceipt(c)) \/ (\E p \in Processes : Restart(p))
                 \/ Amend \/ Tick \/ UNCHANGED vars
  PROVE  Same /\ IInv'
<1>1. CASE \E c \in Calls : FinishReceipt(c)
  <2>1. PICK c \in Calls : FinishReceipt(c)
    BY <1>1
  <2>2. /\ at[c] = "settled" /\ Move(c, "over") /\ outcome' = [outcome EXCEPT ![c] = None]
        /\ receipts' = [receipts EXCEPT ![c] = outcome[c]] \/ UNCHANGED receipts
    BY <2>1 DEF FinishReceipt, Over
  <2>3. Same
    BY <2>1, UnchangedIsSame DEF IInv, FinishReceipt
  <2>4. Types'
    BY <2>2 DEF IInv, Types, Move, Places
  <2>5. \A d \in Calls : Goes(d) /\ Marks(d)
    BY <2>2 DEF IInv, Types, Move, Goes, Marks
  <2> QED BY <2>3, <2>4, <2>5, SameKeeps
<1>2. CASE \E p \in Processes : Restart(p)
  <2>1. PICK p \in Processes : Restart(p)
    BY <1>2
  <2>2. /\ at' = [c \in Calls |-> IF c \in InFlight(p) THEN "over" ELSE at[c]]
        /\ outcome' = [c \in Calls |-> IF c \in InFlight(p) THEN None ELSE outcome[c]]
        /\ UNCHANGED <<ledger, receipts>>
    BY <2>1 DEF Restart
  <2>3. Same
    BY <2>2, UnchangedIsSame DEF IInv
  <2>4. Types'
    BY <2>2 DEF IInv, Types, Places
  <2>5. \A d \in Calls : Goes(d) /\ Marks(d)
    BY <2>2 DEF IInv, Types, Goes, Marks
  <2> QED BY <2>3, <2>4, <2>5, SameKeeps
<1>3. CASE Amend \/ Tick \/ UNCHANGED vars
  <2>1. UNCHANGED <<at, outcome, receipts>>
    BY <1>3 DEF Amend, Tick, vars, callVars
  <2>2. Same
    BY <1>3, UnchangedIsSame DEF IInv, IsLedger, Same, Amend, Tick, vars
  <2>3. Types' /\ \A d \in Calls : Goes(d) /\ Marks(d)
    BY <2>1 DEF IInv, Types, Goes, Marks
  <2> QED BY <2>2, <2>3, SameKeeps
<1> QED BY <1>1, <1>2, <1>3

-----------------------------------------------------------------------------
(* The steps that write an entry.                                            *)

LEMMA BookingKeeps ==
  ASSUME IInv, NEW c \in Calls, Reserve(c), ~Move(c, "over")
  PROVE  /\ IInv' /\ ledger.stopped = None
         /\ Len(ledger'.calls) = Len(ledger.calls) + 1
         /\ \A i \in 1 .. Len(ledger.calls) : ledger'.calls[i] = ledger.calls[i]
         /\ ledger'.calls = Append(ledger.calls, Entry(c))
         /\ ledger'.calls[Len(ledger.calls) + 1] = Entry(c)
         /\ ledger'.limit = ledger.limit /\ ledger'.stopped = None /\ ledger'.first \in {ledger.first, now}
         /\ at[c] = "admitted" /\ (Move(c, "reserved") \/ Move(c, "booked")) /\ Denied(c) = None
<1> DEFINE new == IF c \in Audio THEN "reserved" ELSE "booked"
           n == Len(ledger.calls)
<1>1. /\ at[c] = "admitted" /\ ledger.stopped = None /\ Move(c, new) /\ UNCHANGED <<receipts, outcome>>
      /\ Denied(c) = None
      /\ ledger' = [ledger EXCEPT !.first = IF @ = None THEN now ELSE @,
                                  !.calls = Append(@, Entry(c))]
  BY DEF Reserve, StopSeen
<1>2. PICK S : ledger.calls \in Seq(S)
  BY DEF IInv, IsLedger
<1>3. /\ Entry(c).call = c /\ Entry(c).status = "STARTED" /\ IsEntry(Entry(c))
  BY DEF Entry, IsEntry
<1>4. /\ ledger'.calls = Append(ledger.calls, Entry(c))
      /\ ledger'.limit = ledger.limit /\ ledger'.stopped = None /\ ledger'.first \in {ledger.first, now}
      /\ ledger' = [limit |-> ledger'.limit, stopped |-> ledger'.stopped, first |-> ledger'.first,
                    calls |-> ledger'.calls]
  <2>1. \A a, b : [ledger EXCEPT !.first = a, !.calls = b] =
                 [limit |-> ledger.limit, stopped |-> ledger.stopped, first |-> a, calls |-> b]
    <3> SUFFICES ASSUME NEW a, NEW b
                 PROVE  [ledger EXCEPT !.first = a, !.calls = b] =
                          [limit |-> ledger.limit, stopped |-> ledger.stopped, first |-> a, calls |-> b]
      OBVIOUS
    <3> DEFINE k == [ledger EXCEPT !.first = a]
    <3>1. ledger \in [limit: {ledger.limit}, stopped: {ledger.stopped}, first: {ledger.first},
                     calls: {ledger.calls}]
      BY DEF IInv, IsLedger
    <3>2. k = [limit |-> ledger.limit, stopped |-> ledger.stopped, first |-> a, calls |-> ledger.calls]
      BY <3>1
    <3>3. [ledger EXCEPT !.first = a, !.calls = b] = [k EXCEPT !.calls = b]
      OBVIOUS
    <3> HIDE DEF k
    <3>4. k \in [limit: {ledger.limit}, stopped: {ledger.stopped}, first: {a}, calls: {ledger.calls}]
      BY <3>2
    <3>5. [k EXCEPT !.calls = b] = [limit |-> k.limit, stopped |-> k.stopped, first |-> k.first, calls |-> b]
      BY <3>4
    <3> QED BY <3>2, <3>3, <3>5
  <2> QED BY <1>1, <2>1
<1>5. /\ n \in Nat /\ Len(ledger'.calls) = n + 1 /\ ledger'.calls[n + 1] = Entry(c)
      /\ \A i \in 1 .. n : ledger'.calls[i] = ledger.calls[i]
      /\ ledger'.calls \in Seq(S \cup {Entry(c)})
  <2>1. ledger.calls \in Seq(S \cup {Entry(c)}) /\ Entry(c) \in S \cup {Entry(c)}
    BY <1>2, SeqMonotonic
  <2> HIDE DEF n
  <2> QED BY <1>4, <2>1, AppendProperties, LenProperties DEF n
<1> HIDE DEF n, new
<1>6. \A i : i \in 1 .. n + 1 <=> i \in 1 .. n \/ i = n + 1
  BY <1>5
<1>7. IsLedger'
  BY <1>3, <1>4, <1>5, <1>6 DEF IInv, IsLedger, IsEntry, n
<1>8. Types'
  BY <1>1 DEF IInv, Types, Move, Places, new
<1>9. /\ at'[c] \in {"reserved", "booked"} /\ \A d \in Calls \ {c} : at'[d] = at[d]
      /\ \A d \in Calls : outcome'[d] = outcome[d] /\ receipts'[d] = receipts[d]
  BY <1>1 DEF IInv, Types, Move, new
<1>10. \A d, s : Has(d, s) => \E i \in 1 .. Len(ledger'.calls) :
                                ledger'.calls[i].call = d /\ ledger'.calls[i].status = s
  BY <1>5, <1>6 DEF Has, n
<1>11. Entries'
  <2>1. \A i \in 1 .. n : ledger.calls[i].call # c
    BY <1>1 DEF IInv, Entries, n
  <2>2. \A i, j \in 1 .. n + 1 : ledger'.calls[i].call = ledger'.calls[j].call => i = j
    BY <1>3, <1>5, <1>6, <2>1 DEF IInv, Entries, n
  <2>3. \A d \in Calls : at'[d] \in {"new", "queued", "admitted"} =>
          \A i \in 1 .. n + 1 : ledger'.calls[i].call # d
    BY <1>3, <1>5, <1>6, <1>9 DEF IInv, Entries, n
  <2>4. \A d \in Calls : at'[d] \in {"reserved", "booked", "upstream", "settling"} =>
          \E i \in 1 .. n + 1 : ledger'.calls[i].call = d /\ ledger'.calls[i].status = "STARTED"
    BY <1>3, <1>5, <1>6, <1>9, <1>10 DEF IInv, Entries
  <2>5. \A d \in Calls : at'[d] = "settled" =>
          \E i \in 1 .. n + 1 : ledger'.calls[i].call = d /\ ledger'.calls[i].status = outcome'[d]
    BY <1>5, <1>9, <1>10 DEF IInv, Entries
  <2>6. Len(ledger'.calls) = n + 1
    BY <1>5
  <2>7. \A d \in Calls : at'[d] \in {"reserved", "booked", "upstream", "settling"} => Has(d, "STARTED")'
    BY <2>4, <2>6 DEF Has
  <2>8. \A d \in Calls : at'[d] = "settled" => Has(d, outcome[d])'
    BY <2>5, <2>6 DEF Has
  <2> QED BY <2>2, <2>3, <2>6, <2>7, <2>8 DEF Entries
<1>12. Outcomes'
  BY <1>9 DEF IInv, Outcomes
<1>13. Receipts'
  <2>1. \A d \in Calls : receipts'[d] \notin {None, "STARTED"} => at'[d] = "over" /\
          \E i \in 1 .. n + 1 : ledger'.calls[i].call = d /\ ledger'.calls[i].status = receipts'[d]
    BY <1>1, <1>5, <1>9, <1>10 DEF IInv, Receipts
  <2> QED BY <1>5, <2>1 DEF Receipts, Has
<1>14. Move(c, "reserved") \/ Move(c, "booked")
  BY <1>1 DEF new
<1> QED BY <1>1, <1>4, <1>5, <1>7, <1>8, <1>11, <1>12, <1>13, <1>14 DEF IInv, n

(* The entry of c, the i-th, is settled, and the limit is looked at again.   *)
Settled(c, i) ==
  /\ i \in 1 .. Len(ledger.calls) /\ ledger.calls[i].call = c /\ ledger.calls[i].status = "STARTED"
  /\ ledger'.calls[i].call = c /\ ledger'.calls[i].status = outcome[c]
  /\ ledger'.calls[i].reserved = ledger.calls[i].reserved /\ ledger'.calls[i].accounted = charge[c]
  /\ \A j \in 1 .. Len(ledger.calls) : j # i => ledger'.calls[j] = ledger.calls[j]
  /\ ledger'.limit = ledger.limit /\ ledger'.first = ledger.first
  /\ ledger'.stopped \in Reasons \cup {ledger.stopped}
  /\ ledger'.stopped = None => ~(Total(ledger') > ledger'.limit)

LEMMA SettlingKeeps ==
  ASSUME IInv, NEW c \in Calls, Finish(c)
  PROVE  /\ IInv' /\ Len(ledger'.calls) = Len(ledger.calls)
         /\ ledger.stopped # None => ledger'.stopped = ledger.stopped
         /\ \A i \in 1 .. Len(ledger.calls) :
              /\ ledger'.calls[i].reserved = ledger.calls[i].reserved
              /\ ledger.calls[i].status # "STARTED" => ledger'.calls[i] = ledger.calls[i]
         /\ (UNCHANGED ledger /\ Over(c)) \/ \E i : Settled(c, i)
<1>1. at[c] = "settling" /\ UNCHANGED receipts
  BY DEF Finish
<1>2. CASE UNCHANGED ledger /\ Over(c)
  <2>1. Move(c, "over") /\ outcome' = [outcome EXCEPT ![c] = None]
    BY <1>2 DEF Over
  <2>2. Types' /\ \A d \in Calls : Goes(d) /\ Marks(d)
    BY <1>1, <2>1 DEF IInv, Types, Move, Places, Goes, Marks
  <2>3. Same
    BY <1>2, UnchangedIsSame DEF IInv
  <2>4. IInv'
    BY <2>2, <2>3, SameKeeps
  <2> QED BY <1>2, <2>4
<1>3. CASE ~(UNCHANGED ledger /\ Over(c))
  <2> DEFINE i == EntryOf(c)
             old == ledger.calls[i]
             e == [old EXCEPT !.status = outcome[c], !.accounted = charge[c], !.latency = now - old.started]
             n == Len(ledger.calls)
  <2>1. /\ ledger' = Overrun(e, [ledger EXCEPT !.calls[i] = e])
        /\ \/ Move(c, "settled") /\ UNCHANGED outcome
           \/ Move(c, "over") /\ outcome' = [outcome EXCEPT ![c] = None]
    BY <1>3 DEF Finish, Over
  <2>2. PICK S : ledger.calls \in Seq(S)
    BY DEF IInv, IsLedger
  <2>3. n \in Nat /\ DOMAIN ledger.calls = 1 .. n
    BY <2>2, LenProperties
  <2>4. i \in 1 .. n /\ old.call = c /\ old.status = "STARTED"
    <3>1. PICK j \in 1 .. n : ledger.calls[j].call = c /\ ledger.calls[j].status = "STARTED"
      BY <1>1 DEF IInv, Entries, Has
    <3>2. i \in DOMAIN ledger.calls /\ ledger.calls[i].call = c
      BY <2>3, <3>1 DEF EntryOf
    <3>3. i = j
      BY <2>3, <3>1, <3>2 DEF IInv, Entries
    <3> QED BY <3>1, <3>2, <3>3
  <2>5. /\ e = [call |-> c, status |-> outcome[c], reserved |-> old.reserved, accounted |-> charge[c],
                started |-> old.started, latency |-> now - old.started]
    <3>1. IsEntry(old)
      BY <2>4 DEF IInv, IsLedger
    <3> DEFINE k == [old EXCEPT !.status = outcome[c]]
               m == [k EXCEPT !.accounted = charge[c]]
               x == now - old.started
    <3> HIDE DEF i, x
    <3>2. k = [call |-> c, status |-> outcome[c], reserved |-> old.reserved, accounted |-> old.accounted,
               started |-> old.started, latency |-> old.latency]
      BY <2>4, <3>1 DEF IsEntry
    <3> HIDE DEF k
    <3>3. m = [call |-> c, status |-> outcome[c], reserved |-> old.reserved, accounted |-> charge[c],
               started |-> old.started, latency |-> old.latency]
      BY <3>2
    <3> HIDE DEF m
    <3>4. [m EXCEPT !.latency = x] =
            [call |-> c, status |-> outcome[c], reserved |-> old.reserved, accounted |-> charge[c],
             started |-> old.started, latency |-> x]
      BY <3>3
    <3>5. e = [m EXCEPT !.latency = x]
      BY DEF k, m, x
    <3> QED BY <3>4, <3>5 DEF x
  <2>6. e.call = c /\ e.status = outcome[c] /\ e.reserved = old.reserved /\ IsEntry(e)
    BY <2>5 DEF IsEntry
  <2> HIDE DEF e, old, i
  <2>7. [ledger EXCEPT !.calls[i] = e] =
          [limit |-> ledger.limit, stopped |-> ledger.stopped, first |-> ledger.first,
           calls |-> [ledger.calls EXCEPT ![i] = e]]
    BY DEF IInv, IsLedger
  <2>8. /\ ledger'.calls = [ledger.calls EXCEPT ![i] = e]
        /\ ledger' = [limit |-> ledger'.limit, stopped |-> ledger'.stopped, first |-> ledger'.first,
                      calls |-> ledger'.calls]
        /\ ledger.stopped # None => ledger'.stopped = ledger.stopped
        /\ ledger'.limit = ledger.limit /\ ledger'.first = ledger.first
        /\ ledger'.stopped \in Reasons \cup {ledger.stopped}
        /\ ledger'.stopped = None => ~(Total(ledger') > ledger'.limit)
    <3> DEFINE l == [ledger EXCEPT !.calls[i] = e]
    <3>1. /\ l.calls = [ledger.calls EXCEPT ![i] = e] /\ l.stopped = ledger.stopped
          /\ l = [limit |-> l.limit, stopped |-> l.stopped, first |-> l.first, calls |-> l.calls]
      BY <2>7
    <3> HIDE DEF l
    <3>2. ledger' = Overrun(e, l)
      BY <2>1 DEF l
    <3> DEFINE Is(h) == /\ h = [limit |-> h.limit, stopped |-> h.stopped, first |-> h.first, calls |-> h.calls]
                        /\ h.calls = l.calls /\ h.limit = l.limit /\ h.first = l.first
                        /\ h.stopped \in Reasons \cup {ledger.stopped}
                        /\ ledger.stopped # None => h.stopped = ledger.stopped
    <3>3. Is(l) /\ ledger.limit = l.limit /\ ledger.first = l.first
      BY <2>7, <3>1 DEF l
    <3>4. ASSUME NEW h, Is(h), NEW reason \in Reasons
          PROVE  Is(Halted(h, reason)) /\ Halted(h, reason).stopped # None
      <4>1. Halted(h, reason) = h \/ (h.stopped = None /\
               Halted(h, reason) = [limit |-> h.limit, stopped |-> reason, first |-> h.first, calls |-> h.calls])
        BY <3>4 DEF Halted
      <4>2. reason # None
        BY CampaignAssumption
      <4> QED BY <3>4, <4>1, <4>2 DEF Halted
    <3> DEFINE within == IF e.accounted # None /\ e.accounted > e.reserved
                         THEN Halted(l, "USAGE_EXCEEDED_RESERVATION") ELSE l
    <3>5. Is(within)
      BY <3>3, <3>4 DEF Reasons
    <3>6. ledger' = IF Total(l) > l.limit THEN Halted(within, "CAP_EXCEEDED") ELSE within
      BY <3>2 DEF Overrun
    <3> HIDE DEF within
    <3>7. Is(ledger') /\ (ledger'.stopped = None => ~(Total(l) > l.limit))
      BY <3>4, <3>5, <3>6 DEF Reasons
    <3>8. Total(ledger') = Total(l)
      BY <3>7 DEF Total
    <3> QED BY <3>1, <3>3, <3>7, <3>8
  <2>9. /\ Len(ledger'.calls) = n /\ ledger'.calls[i] = e
        /\ \A j \in 1 .. n : j # i => ledger'.calls[j] = ledger.calls[j]
        /\ ledger'.calls \in Seq(S \cup {e})
    <3>1. ledger.calls \in Seq(S \cup {e}) /\ e \in S \cup {e}
      BY <2>2, SeqMonotonic
    <3> HIDE DEF n
    <3> QED BY <2>4, <2>8, <3>1, ExceptSeq DEF n
  <2>10. \A j \in 1 .. n : ledger'.calls[j].call = ledger.calls[j].call
    BY <2>4, <2>6, <2>9 DEF old
  <2> HIDE DEF n
  <2>11. IsLedger'
    BY <2>6, <2>8, <2>9 DEF IInv, IsLedger, IsEntry, n
  <2>12. Types'
    BY <1>1, <2>1 DEF IInv, Types, Move, Places
  <2>13. /\ at'[c] \in {"settled", "over"} /\ \A d \in Calls \ {c} : at'[d] = at[d] /\ outcome'[d] = outcome[d]
         /\ at'[c] = "settled" => outcome'[c] = outcome[c]
         /\ outcome[c] \in {"COMPLETED", "FAILED", "CANCELLED"}
    BY <1>1, <2>1 DEF IInv, Types, Move, Outcomes
  <2>14. \A d, s : d # c /\ Has(d, s) => \E j \in 1 .. n :
            ledger'.calls[j].call = d /\ ledger'.calls[j].status = s
    BY <2>4, <2>9 DEF Has, n, old
  <2>15. Entries'
    <3>1. \A j, k \in 1 .. n : ledger'.calls[j].call = ledger'.calls[k].call => j = k
      BY <2>10 DEF IInv, Entries, n
    <3>2. \A d \in Calls : at'[d] \in {"new", "queued", "admitted"} =>
            \A j \in 1 .. n : ledger'.calls[j].call # d
      BY <2>10, <2>13 DEF IInv, Entries, n
    <3>3. \A d \in Calls : at'[d] \in {"reserved", "booked", "upstream", "settling"} =>
            \E j \in 1 .. n : ledger'.calls[j].call = d /\ ledger'.calls[j].status = "STARTED"
      BY <2>13, <2>14 DEF IInv, Entries
    <3>4. \A d \in Calls : at'[d] = "settled" =>
            \E j \in 1 .. n : ledger'.calls[j].call = d /\ ledger'.calls[j].status = outcome'[d]
      BY <2>4, <2>6, <2>9, <2>13, <2>14 DEF IInv, Entries
    <3> QED BY <2>9, <3>1, <3>2, <3>3, <3>4 DEF Entries, Has
  <2>16. Outcomes'
    BY <2>13 DEF IInv, Outcomes
  <2>17. Receipts'
    <3>1. \A d \in Calls : receipts'[d] \notin {None, "STARTED"} => at'[d] = "over" /\
            \E j \in 1 .. n : ledger'.calls[j].call = d /\ ledger'.calls[j].status = receipts'[d]
      BY <1>1, <2>13, <2>14 DEF IInv, Receipts
    <3> QED BY <2>9, <3>1 DEF Receipts, Has
  <2>18. \A j \in 1 .. n :
           /\ ledger'.calls[j].reserved = ledger.calls[j].reserved
           /\ ledger.calls[j].status # "STARTED" => ledger'.calls[j] = ledger.calls[j]
    BY <2>4, <2>6, <2>9 DEF old
  <2>19. IInv'
    BY <2>11, <2>12, <2>15, <2>16, <2>17 DEF IInv
  <2>20. Settled(c, i)
    BY <2>4, <2>5, <2>6, <2>8, <2>9 DEF Settled, n, old
  <2> QED BY <2>8, <2>9, <2>18, <2>19, <2>20 DEF n
<1> QED BY <1>2, <1>3

-----------------------------------------------------------------------------
(* What a step does to the entries there are.                                *)
EntriesStay ==
  /\ IInv'
  /\ ledger.stopped # None => ledger'.stopped = ledger.stopped /\ Len(ledger'.calls) = Len(ledger.calls)
  /\ \A i \in 1 .. Len(ledger.calls) :
       /\ i \in 1 .. Len(ledger'.calls)
       /\ ledger'.calls[i].reserved = ledger.calls[i].reserved
       /\ ledger.calls[i].status # "STARTED" => ledger'.calls[i] = ledger.calls[i]

LEMMA StepsKeep ==
  ASSUME IInv, [Next]_vars
  PROVE  EntriesStay
<1>1. ASSUME Same, IInv' PROVE EntriesStay
  BY <1>1 DEF Same, EntriesStay
<1>2. ASSUME NEW c \in Calls, Reserve(c) PROVE EntriesStay
  <2>1. CASE Move(c, "over")
    BY <1>1, <1>2, <2>1, UnbookedKeeps
  <2>2. CASE ~Move(c, "over")
    <3>1. Len(ledger.calls) \in Nat
      BY LenProperties DEF IInv, IsLedger
    <3> QED BY <1>2, <2>2, <3>1, BookingKeeps DEF EntriesStay
  <2> QED BY <2>1, <2>2
<1>3. ASSUME NEW c \in Calls, Finish(c) PROVE EntriesStay
  BY <1>3, SettlingKeeps DEF EntriesStay
<1>4. CASE \E c \in Calls : Admit(c) \/ Step(c) \/ ServiceAttempt(c) \/ Returns(c) \/ Fails(c) \/ Cancel(c)
  BY <1>1, <1>2, <1>3, <1>4, AdmissionKeeps, UnbookedKeeps, UpstreamKeeps, AroundKeeps DEF Step
<1>5. CASE (\E p \in Processes : Restart(p)) \/ Amend \/ Tick \/ UNCHANGED vars
  BY <1>1, <1>5, AroundKeeps
<1> QED BY <1>4, <1>5 DEF Next

LEMMA Always == Spec => []IInv
<1>1. IInv /\ [Next]_vars => IInv'
  BY StepsKeep DEF EntriesStay
<1> QED BY <1>1, Initially, PTL DEF Spec

(* A stop in the file ends the campaign for every process and across restarts, and
   what has been booked or settled stays so (reserve, finish, halt).         *)
THEOREM StopAlwaysFinal == Spec => StopIsFinal
<1> DEFINE Step1 ==
      /\ ledger.stopped # None => /\ ledger'.stopped = ledger.stopped
                                  /\ Len(ledger'.calls) = Len(ledger.calls)
      /\ \A i \in DOMAIN ledger.calls :
           /\ i \in DOMAIN ledger'.calls
           /\ ledger'.calls[i].reserved = ledger.calls[i].reserved
           /\ ledger.calls[i].status # "STARTED" => ledger'.calls[i] = ledger.calls[i]
<1>1. IInv /\ [Next]_vars => Step1
  <2> SUFFICES ASSUME IInv, [Next]_vars PROVE Step1
    OBVIOUS
  <2>1. EntriesStay
    BY StepsKeep
  <2>2. DOMAIN ledger.calls = 1 .. Len(ledger.calls)
    BY LenProperties DEF IInv, IsLedger
  <2>3. DOMAIN ledger'.calls = 1 .. Len(ledger'.calls)
    BY <2>1, LenProperties DEF EntriesStay, IInv, IsLedger
  <2> QED BY <2>1, <2>2, <2>3 DEF EntriesStay
<1>2. Spec => [][Step1]_vars
  BY <1>1, Always, PTL DEF Spec
<1> QED BY <1>2 DEF StopIsFinal

(* The provider is entered only for a call that the file has as started, whoever is
   killed or restarted meanwhile (campaign_call_boundary).                   *)
THEOREM BookedAlways == Spec => []Booked
<1>1. IInv => Booked
  <2> SUFFICES ASSUME IInv PROVE Booked
    OBVIOUS
  <2>1. DOMAIN ledger.calls = 1 .. Len(ledger.calls)
    BY LenProperties DEF IInv, IsLedger
  <2> QED BY <2>1 DEF IInv, Entries, Booked, Has
<1> QED BY <1>1, Always, PTL

(* A receipt is final only after its entry, and says the same.               *)
THEOREM ReceiptsFollow == Spec => []ReceiptFollowsEntry
<1>1. IInv => ReceiptFollowsEntry
  <2> SUFFICES ASSUME IInv PROVE ReceiptFollowsEntry
    OBVIOUS
  <2>1. DOMAIN ledger.calls = 1 .. Len(ledger.calls)
    BY LenProperties DEF IInv, IsLedger
  <2> QED BY <2>1 DEF IInv, Receipts, ReceiptFollowsEntry, Has, Audio
<1> QED BY <1>1, Always, PTL

-----------------------------------------------------------------------------
(* Sums. A sum is what the recursive function of Sum computes, because there is one
   function that satisfies its equation; both by the least length that would not fit. *)

(* f has the sums of the first elements of s, up to m of them.               *)
IsSum(f, s, m) ==
  f \in [0 .. m -> Nat] /\ f[0] = 0 /\ \A i \in 1 .. m : f[i] = f[i - 1] + s[i]

LEMMA LeastNumber ==
  ASSUME NEW T, T \subseteq Nat, T # {}
  PROVE  \E x \in T : \A y \in T : x <= y
<1>1. PICK x \in T : \A y \in T : ~(<<y, x>> \in OpToRel(<, Nat))
  BY NatLessThanWellFounded, WFMin, Zenon
<1>2. \A y \in T : ~(y < x)
  BY <1>1 DEF OpToRel
<1>3. T \subseteq Nat
  OBVIOUS
<1> QED BY <1>2, <1>3

LEMMA SumExists ==
  ASSUME NEW s \in Seq(Nat), NEW m \in 0 .. Len(s)
  PROVE  \E f : IsSum(f, s, m)
<1> DEFINE T == { n \in Nat : n <= Len(s) /\ ~ \E f : IsSum(f, s, n) }
<1>0. Len(s) \in Nat /\ \A i \in 1 .. Len(s) : s[i] \in Nat
  BY LenProperties, ElementOfSeq
<1>1. SUFFICES ASSUME T # {} PROVE FALSE
  BY <1>0
<1>2. PICK n \in T : \A y \in T : n <= y
  BY <1>1, LeastNumber
<1>3. n # 0
  <2>1. IsSum([i \in 0 .. 0 |-> 0], s, 0)
    BY DEF IsSum
  <2> QED BY <2>1
<1>4. PICK f : IsSum(f, s, n - 1)
  <2>1. n - 1 \in Nat /\ n - 1 <= Len(s) /\ ~(n <= n - 1)
    BY <1>0, <1>3
  <2>2. n - 1 \notin T
    BY <1>2, <2>1
  <2> QED BY <2>1, <2>2
<1>5. IsSum([i \in 0 .. n |-> IF i = n THEN f[n - 1] + s[n] ELSE f[i]], s, n)
  BY <1>0, <1>3, <1>4 DEF IsSum
<1> QED BY <1>5

LEMMA SumUnique ==
  ASSUME NEW s, NEW t, NEW m \in Nat, NEW f, IsSum(f, s, m), NEW g, IsSum(g, t, m),
         \A i \in 1 .. m : s[i] = t[i]
  PROVE  \A i \in 0 .. m : f[i] = g[i]
<1> DEFINE T == { n \in 0 .. m : f[n] # g[n] }
<1>1. SUFFICES ASSUME T # {} PROVE FALSE
  OBVIOUS
<1>2. PICK n \in T : \A y \in T : n <= y
  <2>1. T \subseteq Nat
    OBVIOUS
  <2> HIDE DEF T
  <2> QED BY <1>1, <2>1, LeastNumber
<1>3. n # 0
  BY DEF IsSum
<1>4. f[n - 1] = g[n - 1]
  <2>1. n - 1 \in 0 .. m /\ ~(n <= n - 1)
    BY <1>3
  <2> QED BY <1>2, <2>1
<1> QED BY <1>3, <1>4 DEF IsSum

LEMMA SumMeans ==
  ASSUME NEW s \in Seq(Nat)
  PROVE  \E f : IsSum(f, s, Len(s)) /\ Sum(s) = f[Len(s)]
<1> DEFINE Is(f) == f = [n \in 0 .. Len(s) |-> IF n = 0 THEN 0 ELSE f[n - 1] + s[n]]
<1>0. Len(s) \in Nat
  BY LenProperties
<1>1. PICK g : IsSum(g, s, Len(s))
  BY <1>0, SumExists
<1>2. Is(g)
  BY <1>0, <1>1 DEF IsSum
<1>3. Sum(s) = (CHOOSE f : Is(f))[Len(s)]
  BY DEF Sum
<1>4. \A f : Is(f) => f = g
  <2> SUFFICES ASSUME NEW f, Is(f) PROVE f = g
    OBVIOUS
  <2> DEFINE T == { n \in 0 .. Len(s) : f[n] # g[n] }
  <2>1. CASE T = {}
    <3>1. \A n \in 0 .. Len(s) : f[n] = g[n]
      BY <2>1
    <3>2. f \in [0 .. Len(s) -> {f[n] : n \in 0 .. Len(s)}]
      OBVIOUS
    <3>3. g \in [0 .. Len(s) -> Nat]
      BY <1>1 DEF IsSum
    <3> QED BY <3>1, <3>2, <3>3
  <2>2. CASE T # {}
    <3>1. PICK n \in T : \A y \in T : n <= y
      <4>1. T \subseteq Nat
        BY <1>0
      <4> HIDE DEF T
      <4> QED BY <2>2, <4>1, LeastNumber
    <3>2. n # 0
      BY <1>1 DEF IsSum
    <3>3. n - 1 \in 0 .. Len(s) /\ ~(n <= n - 1)
      BY <1>0, <3>2
    <3>4. f[n - 1] = g[n - 1]
      BY <3>1, <3>3
    <3>5. f[n] = f[n - 1] + s[n]
      BY <1>0, <3>2
    <3>6. g[n] = g[n - 1] + s[n]
      BY <1>0, <1>1, <3>2 DEF IsSum
    <3> QED BY <3>4, <3>5, <3>6
  <2> QED BY <2>1, <2>2
<1>5. (CHOOSE f : Is(f)) = g
  BY <1>2, <1>4
<1> QED BY <1>1, <1>3, <1>5

LEMMA SumEmpty == Sum(<<>>) = 0
<1>1. <<>> \in Seq(Nat) /\ Len(<<>>) = 0
  BY EmptySeq
<1> QED BY <1>1, SumMeans DEF IsSum

LEMMA SumAppend ==
  ASSUME NEW s \in Seq(Nat), NEW x \in Nat
  PROVE  Sum(s) \in Nat /\ Sum(Append(s, x)) = Sum(s) + x
<1>0. /\ Len(s) \in Nat /\ Append(s, x) \in Seq(Nat) /\ Len(Append(s, x)) = Len(s) + 1
      /\ Append(s, x)[Len(s) + 1] = x /\ \A i \in 1 .. Len(s) : Append(s, x)[i] = s[i]
  BY LenProperties, AppendProperties
<1>1. PICK f : IsSum(f, s, Len(s)) /\ Sum(s) = f[Len(s)]
  BY SumMeans
<1>2. PICK g : IsSum(g, Append(s, x), Len(s) + 1) /\ Sum(Append(s, x)) = g[Len(s) + 1]
  BY <1>0, SumMeans
<1> DEFINE h == [i \in 0 .. Len(s) |-> g[i]]
<1>3. IsSum(h, Append(s, x), Len(s))
  BY <1>0, <1>2 DEF IsSum
<1>4. f[Len(s)] = h[Len(s)]
  BY <1>0, <1>1, <1>3, SumUnique
<1> QED BY <1>0, <1>1, <1>2, <1>4 DEF IsSum
-----------------------------------------------------------------------------
(* Amounts: the parts of the invariant. *)

Values ==
  /\ ledger.limit \in {Limit, RaisedLimit} /\ ledger.stopped \in Reasons \cup {None}
  /\ ledger.first \in 0 .. MaxClock \cup {None} /\ now \in 0 .. MaxClock
  /\ runStop \in [Processes -> BOOLEAN] /\ held \in [Processes -> {Limit, RaisedLimit}]
  /\ spent \in [Calls -> Nat] /\ charge \in [Calls -> Nat \cup {None}]
  /\ seen \in [Calls -> Seq(1 .. AttemptCap \cup {None})]

(* An entry has the price of its call until it is settled, and then what was observed
   of it, if anything was; and nothing more is used by then.                 *)
Priced ==
  \A i \in 1 .. Len(ledger.calls) :
    LET e == ledger.calls[i] IN
    /\ e.call \in Calls /\ e.status \in Statuses
    /\ e.reserved = Reserved(e.call) /\ e.accounted \in Nat \cup {None}
    /\ e.status = "STARTED" => e.accounted = None
    /\ e.status # "STARTED" => at[e.call] \in {"settled", "over"} /\ spent[e.call] <= Charged(e)

(* Nothing is used before the provider is entered, no more than was reserved by what
   is seen upstream, and no more than is about to be charged.                *)
Reported(c) == \A i \in 1 .. Len(seen[c]) : seen[c][i] # None
Usage(c) ==
  /\ at[c] \in {"new", "queued", "admitted", "reserved", "booked"} =>
       spent[c] = 0 /\ charge[c] = None /\ seen[c] = <<>>
  /\ at[c] = "upstream" =>
       /\ charge[c] = None /\ Len(seen[c]) <= ServiceAttempts
       /\ spent[c] <= NetworkAttempts * AttemptCap * Len(seen[c])
       /\ Kind[c] # "gemini" => seen[c] = <<>>
       /\ Reported(c) => spent[c] = NetworkAttempts * Sum(seen[c])
  /\ at[c] = "settling" => spent[c] <= IF charge[c] = None THEN Reserved(c) ELSE charge[c]
HasEntry(c) == \E i \in 1 .. Len(ledger.calls) : ledger.calls[i].call = c
Used == \A c \in Calls : Usage(c) /\ (spent[c] > 0 => HasEntry(c))

Money == Values /\ Priced /\ Used /\ WithinLimits

-----------------------------------------------------------------------------
LEMMA ReservedIsNat ==
  ASSUME NEW c \in Calls
  PROVE  /\ Reserved(c) \in Nat
         /\ Kind[c] # "gemini" => Reserved(c) = Cost
         /\ Kind[c] = "gemini" => Reserved(c) = NetworkAttempts * AttemptCap * ServiceAttempts
<1>1. \A a, b, d \in Nat : a * b * d \in Nat /\ a * b * d = b * d * a
  OBVIOUS
<1> QED BY <1>1, CampaignAssumption DEF Reserved

(* What has been used upstream is within the reservation.                    *)
LEMMA UpstreamWithin ==
  ASSUME Values, Used, NEW c \in Calls, at[c] = "upstream"
  PROVE  spent[c] <= Reserved(c) /\ (Kind[c] # "gemini" => spent[c] = 0)
<1>1. \A b, n, m \in Nat : n <= m => b * n <= b * m
  OBVIOUS
<1>2. /\ Len(seen[c]) \in Nat /\ Len(seen[c]) <= ServiceAttempts
      /\ NetworkAttempts * AttemptCap \in Nat /\ ServiceAttempts \in Nat /\ spent[c] \in Nat
      /\ spent[c] <= NetworkAttempts * AttemptCap * Len(seen[c])
  BY CampaignAssumption, LenProperties DEF Values, Used, Usage
<1>3. CASE Kind[c] = "gemini"
  BY <1>1, <1>2, <1>3, ReservedIsNat
<1>4. CASE Kind[c] # "gemini"
  <2>1. Len(seen[c]) = 0
    BY <1>4, EmptySeq DEF Used, Usage
  <2> QED BY <1>2, <2>1, ReservedIsNat
<1> QED BY <1>3, <1>4

LEMMA ChargesType ==
  ASSUME Priced, Len(ledger.calls) \in Nat
  PROVE  /\ Charges(ledger.calls) \in Seq(Nat) /\ Len(Charges(ledger.calls)) = Len(ledger.calls)
         /\ \A i \in 1 .. Len(ledger.calls) : Charges(ledger.calls)[i] = Charged(ledger.calls[i])
<1>1. \A i \in 1 .. Len(ledger.calls) : Charged(ledger.calls[i]) \in Nat
  BY ReservedIsNat DEF Priced, Charged
<1>2. Charges(ledger.calls) \in [1 .. Len(ledger.calls) -> Nat]
  BY <1>1 DEF Charges
<1> QED BY <1>2, SeqDef DEF Charges

(* The steps that leave the entries alone: what has been settled stays as it is, and
   more is used upstream only.                                               *)
Spends(c) ==
  /\ at[c] \in {"settled", "over"} => at'[c] \in {"settled", "over"} /\ spent'[c] = spent[c]
  /\ spent'[c] # spent[c] => at[c] = "upstream"

LEMMA SameSpends ==
  ASSUME IInv, Money, Same, Values', \A c \in Calls : Spends(c) /\ Usage(c)',
         ledger'.limit = ledger.limit \/ Total(ledger) <= ledger'.limit
  PROVE  Money'
<1>1. Priced'
  BY DEF Money, Priced, Same, Spends
<1>2. Used'
  <2> SUFFICES ASSUME NEW c \in Calls, spent'[c] > 0 PROVE HasEntry(c)
    BY DEF Used, HasEntry, Same
  <2>1. CASE spent'[c] = spent[c]
    BY <2>1 DEF Money, Used
  <2>2. CASE at[c] = "upstream"
    BY <2>2 DEF IInv, Entries, Has, HasEntry
  <2> QED BY <2>1, <2>2 DEF Spends
<1>3. WithinLimits'
  <2>1. Total(ledger)' = Total(ledger)
    BY DEF Total, Same
  <2> QED BY <2>1 DEF Money, WithinLimits, Same
<1> QED BY <1>1, <1>2, <1>3 DEF Money

-----------------------------------------------------------------------------
(* The file and the processes as these steps leave them.                     *)
FileValues ==
  /\ ledger'.limit = ledger.limit /\ ledger'.stopped \in Reasons \cup {None}
  /\ ledger'.first = ledger.first /\ runStop' \in [Processes -> BOOLEAN]

LEMMA HaltedValues ==
  ASSUME IsLedger, Values, NEW reason \in Reasons, ledger' = Halted(ledger, reason)
  PROVE  ledger'.limit = ledger.limit /\ ledger'.first = ledger.first
         /\ ledger'.stopped \in Reasons \cup {None}
BY DEF IsLedger, Values, Halted

LEMMA RefusalValues ==
  ASSUME IsLedger, Values, NEW c \in Calls, NEW status, AdmissionRefused(c, status)
  PROVE  FileValues
<1>1. Owner[c] \in Processes /\ "DEADLINE" \in Reasons
  BY CampaignAssumption DEF Reasons
<1>2. runStop' \in [Processes -> BOOLEAN]
  BY <1>1 DEF AdmissionRefused, HaltRun, Values
<1>3. UNCHANGED ledger \/ ledger' = Halted(ledger, "DEADLINE")
  BY DEF AdmissionRefused
<1> QED BY <1>1, <1>2, <1>3, HaltedValues DEF FileValues, Values

LEMMA UnchangedValues ==
  ASSUME Values, UNCHANGED <<ledger, runStop>>
  PROVE  FileValues
BY DEF Values, FileValues

LEMMA AdmissionMoney ==
  ASSUME IInv, Money, NEW c \in Calls, Admit(c) \/ GetLock(c)
  PROVE  Money'
<1>1. /\ at[c] \in {"new", "queued"} /\ UNCHANGED <<now, held, spent, charge, seen>>
      /\ \E place \in {"queued", "admitted", "over"} : Move(c, place)
  BY DEF Admit, GetLock
<1>2. FileValues
  BY RefusalValues, UnchangedValues DEF IInv, Money, Admit, GetLock
<1>3. Values'
  BY <1>1, <1>2 DEF Money, Values, FileValues
<1>4. \A d \in Calls : Spends(d) /\ Usage(d)'
  BY <1>1 DEF IInv, Types, Money, Used, Usage, Reported, Move, Spends
<1> QED BY <1>2, <1>3, <1>4, AdmissionKeeps, SameSpends DEF FileValues

LEMMA UnbookedMoney ==
  ASSUME IInv, Money, NEW c \in Calls,
         ReserveNotWritten(c) \/ WriteReceipt(c) \/ (Reserve(c) /\ Move(c, "over"))
  PROVE  Money'
<1>1. /\ UNCHANGED <<now, held, spent, charge, seen, runStop>>
      /\ \/ at[c] = "admitted" /\ Move(c, "over")
         \/ at[c] = "reserved" /\ (Move(c, "over") \/ Move(c, "booked"))
  BY DEF ReserveNotWritten, WriteReceipt, Reserve
<1>2. UNCHANGED ledger \/ (Denied(c) # None /\ ledger' = [ledger EXCEPT !.stopped = Denied(c)])
  <2>1. CASE ReserveNotWritten(c) \/ WriteReceipt(c)
    BY <2>1 DEF ReserveNotWritten, WriteReceipt
  <2>2. CASE Reserve(c) /\ Move(c, "over")
    <3>1. at[c] \in Places /\ at'[c] = "over"
      BY <2>2 DEF IInv, Types, Move
    <3>2. ~Move(c, IF c \in Audio THEN "reserved" ELSE "booked")
      BY <3>1 DEF IInv, Types, Move
    <3> QED BY <2>2, <3>2 DEF Reserve
  <2> QED BY <2>1, <2>2
<1>3. FileValues
  <2>1. Denied(c) # None => Denied(c) \in Reasons
    BY DEF Denied, Reasons
  <2> QED BY <1>1, <1>2, <2>1 DEF IInv, IsLedger, Money, Values, FileValues
<1>4. Values'
  BY <1>1, <1>3 DEF Money, Values, FileValues
<1>5. \A d \in Calls : Spends(d) /\ Usage(d)'
  BY <1>1 DEF IInv, Types, Money, Used, Usage, Reported, Move, Spends
<1> QED BY <1>3, <1>4, <1>5, UnbookedKeeps, SameSpends DEF FileValues

(* A call that leaves the provider uses no more than is about to be charged. *)
Leaves(c) ==
  /\ at[c] \in {"booked", "upstream"} /\ Move(c, "settling")
  /\ charge'[c] \in Nat \cup {None} /\ charge' = [charge EXCEPT ![c] = charge'[c]]
  /\ spent'[c] \in Nat /\ spent' = [spent EXCEPT ![c] = spent'[c]]
  /\ spent'[c] # spent[c] => at[c] = "upstream"
  /\ spent'[c] <= IF charge'[c] = None THEN Reserved(c) ELSE charge'[c]
  /\ UNCHANGED seen \/ seen' = [seen EXCEPT ![c] = <<>>]

LEMMA LeavesMoney ==
  ASSUME IInv, Money, Same, NEW c \in Calls, Leaves(c), FileValues, UNCHANGED <<now, held>>
  PROVE  Money'
<1>1. Values'
  <2>1. <<>> \in Seq(1 .. AttemptCap \cup {None})
    BY EmptySeq
  <2> QED BY <2>1 DEF Money, Values, FileValues, Leaves
<1>2. \A d \in Calls \ {c} : Spends(d) /\ Usage(d)'
  <2>1. \A d \in Calls \ {c} : at'[d] = at[d] /\ spent'[d] = spent[d] /\ charge'[d] = charge[d]
                                /\ seen'[d] = seen[d]
    BY DEF IInv, Types, Money, Values, Move, Leaves
  <2>2. \A d \in Calls \ {c} : Usage(d)
    BY DEF Money, Used
  <2> QED BY <2>1, <2>2 DEF Usage, Reported, Spends
<1>3. Spends(c) /\ Usage(c)'
  BY DEF IInv, Types, Money, Values, Usage, Move, Spends, Leaves
<1> QED BY <1>1, <1>2, <1>3, SameSpends DEF FileValues

LEMMA ReportedSum ==
  ASSUME NEW c \in Calls, seen \in [Calls -> Seq(1 .. AttemptCap \cup {None})], Reported(c)
  PROVE  seen[c] \in Seq(Nat)
<1>1. Len(seen[c]) \in Nat /\ seen[c] \in [1 .. Len(seen[c]) -> 1 .. AttemptCap \cup {None}]
  BY LenProperties
<1>2. seen[c] \in [1 .. Len(seen[c]) -> Nat]
  BY <1>1, CampaignAssumption DEF Reported
<1> QED BY <1>1, <1>2, SeqDef

LEMMA EnterMoney ==
  ASSUME IInv, Money, NEW c \in Calls, Enter(c)
  PROVE  Money'
<1>1. at[c] = "booked" /\ UNCHANGED <<now, held, spent, charge, seen>>
  BY DEF Enter
<1>2. FileValues
  BY RefusalValues, UnchangedValues DEF IInv, Money, Enter
<1>3. CASE Move(c, "upstream")
  <2>1. Values'
    BY <1>1, <1>2 DEF Money, Values, FileValues
  <2>2. Usage(c) /\ spent[c] = 0 /\ charge[c] = None /\ seen[c] = <<>> /\ Len(seen[c]) = 0
    BY <1>1, EmptySeq DEF Money, Used, Usage
  <2>3. Usage(c)'
    <3>1. \A b \in Nat : 0 <= b * 0 /\ 0 = b * 0
      OBVIOUS
    <3>2. NetworkAttempts \in Nat /\ NetworkAttempts * AttemptCap \in Nat /\ ServiceAttempts \in Nat
      BY CampaignAssumption
    <3>3. Sum(seen[c]) = 0
      BY <2>2, SumEmpty
    <3> QED BY <1>1, <1>3, <2>2, <3>1, <3>2, <3>3 DEF IInv, Types, Usage, Move
  <2>4. \A d \in Calls \ {c} : Usage(d)'
    BY <1>1, <1>3 DEF IInv, Types, Money, Used, Usage, Reported, Move
  <2>5. \A d \in Calls : Spends(d)
    BY <1>1, <1>3 DEF IInv, Types, Move, Spends
  <2> QED BY <1>2, <2>1, <2>3, <2>4, <2>5, UpstreamKeeps, SameSpends DEF FileValues
<1>4. CASE Move(c, "settling")
  <2>1. spent[c] = 0 /\ charge[c] = None
    BY <1>1 DEF Money, Used, Usage
  <2>2. Leaves(c)
    BY <1>1, <1>4, <2>1, ReservedIsNat DEF Money, Values, Leaves
  <2> QED BY <1>1, <1>2, <2>2, UpstreamKeeps, LeavesMoney
<1> QED BY <1>3, <1>4 DEF Enter

LEMMA AttemptMoney ==
  ASSUME IInv, Money, NEW c \in Calls, ServiceAttempt(c)
  PROVE  Money'
<1>1. PICK use \in 1 .. AttemptCap, reported \in BOOLEAN :
        /\ seen' = [seen EXCEPT ![c] = Append(@, IF reported THEN use ELSE None)]
        /\ spent' = [spent EXCEPT ![c] = @ + NetworkAttempts * use]
  BY DEF ServiceAttempt
<1>2. /\ Kind[c] = "gemini" /\ at[c] = "upstream" /\ Len(seen[c]) < ServiceAttempts
      /\ UNCHANGED <<ledger, now, runStop, held, at, charge>>
  BY DEF ServiceAttempt
<1> DEFINE x == IF reported THEN use ELSE None
<1>3. /\ seen[c] \in Seq(1 .. AttemptCap \cup {None}) /\ Len(seen[c]) \in Nat
      /\ Append(seen[c], x) \in Seq(1 .. AttemptCap \cup {None})
      /\ Len(Append(seen[c], x)) = Len(seen[c]) + 1
      /\ Append(seen[c], x)[Len(seen[c]) + 1] = x
      /\ \A i \in 1 .. Len(seen[c]) : Append(seen[c], x)[i] = seen[c][i]
  BY AppendProperties, LenProperties DEF Money, Values
<1>4. /\ use \in Nat /\ NetworkAttempts \in Nat /\ AttemptCap \in Nat /\ spent[c] \in Nat
      /\ NetworkAttempts * use \in Nat
  BY CampaignAssumption DEF Money, Values
<1>5. seen'[c] = Append(seen[c], x) /\ spent'[c] = spent[c] + NetworkAttempts * use
  BY <1>1 DEF Money, Values
<1>6. Values'
  BY <1>1, <1>2, <1>3, <1>4 DEF Money, Values
<1> HIDE DEF x
<1>7. Usage(c)'
  <2>1. spent'[c] <= NetworkAttempts * AttemptCap * Len(seen'[c])
    <3>1. \A a, b, u, n, s \in Nat : u <= b /\ s <= a * b * n => s + a * u <= a * b * (n + 1)
      <4> SUFFICES ASSUME NEW a \in Nat, NEW b \in Nat, NEW u \in Nat, NEW n \in Nat, NEW s \in Nat,
                          u <= b, s <= a * b * n
                   PROVE  s + a * u <= a * b * (n + 1)
        OBVIOUS
      <4>1. a * u <= a * b
        OBVIOUS
      <4>2. a * b * (n + 1) = a * b * n + a * b
        OBVIOUS
      <4> QED BY <4>1, <4>2
    <3>2. spent[c] <= NetworkAttempts * AttemptCap * Len(seen[c]) /\ use <= AttemptCap
      BY <1>2 DEF Money, Used, Usage
    <3>3. Len(seen'[c]) = Len(seen[c]) + 1
      BY <1>3, <1>5
    <3> QED BY <1>3, <1>4, <1>5, <3>1, <3>2, <3>3
  <2>2. ASSUME Reported(c)'
        PROVE  spent'[c] = NetworkAttempts * Sum(seen'[c])
    <3>1. Reported(c) /\ x # None
      BY <1>3, <1>5, <2>2 DEF Reported
    <3>2. x = use
      BY <3>1 DEF x
    <3>3. Sum(seen[c]) \in Nat /\ Sum(seen'[c]) = Sum(seen[c]) + use
      BY <1>4, <1>5, <3>1, <3>2, ReportedSum, SumAppend DEF Money, Values
    <3>4. \A a, b, d \in Nat : a * (b + d) = a * b + a * d
      OBVIOUS
    <3>5. spent[c] = NetworkAttempts * Sum(seen[c])
      BY <1>2, <3>1 DEF Money, Used, Usage
    <3> QED BY <1>4, <1>5, <3>3, <3>4, <3>5
  <2>3. charge'[c] = None /\ at'[c] = "upstream" /\ Kind[c] = "gemini"
    BY <1>2 DEF Money, Used, Usage
  <2>4. Len(seen'[c]) <= ServiceAttempts
    BY <1>2, <1>3, <1>5, CampaignAssumption
  <2> QED BY <2>1, <2>2, <2>3, <2>4 DEF Usage
<1>8. \A d \in Calls \ {c} : Usage(d)'
  BY <1>1, <1>2 DEF Money, Values, Used, Usage, Reported
<1>9. \A d \in Calls : Spends(d)
  BY <1>1, <1>2 DEF Money, Values, Spends
<1> QED BY <1>2, <1>6, <1>7, <1>8, <1>9, UpstreamKeeps, SameSpends

LEMMA ReturnsMoney ==
  ASSUME IInv, Money, NEW c \in Calls, Returns(c)
  PROVE  Money'
<1>1. at[c] = "upstream" /\ UNCHANGED <<ledger, now, runStop, held>>
  BY DEF Returns
<1>2. FileValues
  BY <1>1, UnchangedValues DEF Money
<1>3. Reserved(c) \in Nat /\ spent[c] <= Reserved(c) /\ (Kind[c] # "gemini" => Reserved(c) = Cost)
  BY <1>1, ReservedIsNat, UpstreamWithin DEF Money
<1>4. Cost \in Nat /\ Kind[c] \in {"text", "speech", "gemini", "stt"}
  BY CampaignAssumption
<1>5. ASSUME NEW usage \in Nat \cup {None}, charge' = [charge EXCEPT ![c] = usage],
             Move(c, "settling"), seen' = [seen EXCEPT ![c] = <<>>],
             NEW used \in Nat, spent' = [spent EXCEPT ![c] = used],
             used <= IF usage = None THEN Reserved(c) ELSE usage
      PROVE  Leaves(c)
  <2>1. charge'[c] = usage /\ spent'[c] = used
    BY <1>5 DEF Money, Values
  <2> QED BY <1>1, <1>5, <2>1 DEF Leaves
<1>6. ASSUME Kind[c] = "text" PROVE Leaves(c)
  <2>1. CASE \E use \in 1 .. (Cost + 1) : Settles(c, "COMPLETED", use) /\ spent' = [spent EXCEPT ![c] = use]
    <3>1. PICK use \in 1 .. (Cost + 1) : Settles(c, "COMPLETED", use) /\ spent' = [spent EXCEPT ![c] = use]
      BY <2>1
    <3>2. use \in Nat /\ use # None /\ use <= use
      BY <1>4, CampaignAssumption
    <3> QED BY <1>5, <3>1, <3>2 DEF Settles
  <2>2. CASE Settles(c, "COMPLETED", None) /\ spent' = [spent EXCEPT ![c] = Cost]
    <3>1. None \in Nat \cup {None} /\ Cost <= IF None = None THEN Reserved(c) ELSE None
      BY <1>3, <1>4, <1>6
    <3>2. /\ Move(c, "settling") /\ charge' = [charge EXCEPT ![c] = None]
          /\ seen' = [seen EXCEPT ![c] = <<>>]
      BY <2>2 DEF Settles
    <3> QED BY <1>4, <1>5, <2>2, <3>1, <3>2
  <2> QED BY <1>6, <2>1, <2>2 DEF Returns
<1>7. ASSUME Kind[c] \in {"speech", "stt"} PROVE Leaves(c)
  <2> DEFINE usage == IF Kind[c] = "stt" THEN Cost ELSE None
  <2>1. usage \in Nat \cup {None} /\ Cost <= IF usage = None THEN Reserved(c) ELSE usage
    BY <1>3, <1>4, <1>7
  <2>2. Settles(c, "COMPLETED", usage) /\ spent' = [spent EXCEPT ![c] = Cost]
    BY <1>7 DEF Returns
  <2> HIDE DEF usage
  <2> QED BY <1>4, <1>5, <2>1, <2>2 DEF Settles
<1>8. ASSUME Kind[c] = "gemini" PROVE Leaves(c)
  <2>1. Settles(c, "COMPLETED", GeminiCharge(c)) /\ spent' = [spent EXCEPT ![c] = spent[c]]
    BY <1>8 DEF Returns, Money, Values
  <2>2. /\ spent[c] \in Nat /\ GeminiCharge(c) \in Nat \cup {None}
        /\ GeminiCharge(c) # None => spent[c] <= GeminiCharge(c)
    <3>1. CASE seen[c] = <<>> \/ \E i \in DOMAIN seen[c] : seen[c][i] = None
      BY <3>1 DEF GeminiCharge, Money, Values
    <3>2. CASE ~(seen[c] = <<>> \/ \E i \in DOMAIN seen[c] : seen[c][i] = None)
      <4>1. Reported(c)
        BY <3>2, LenProperties DEF Reported, Money, Values
      <4>2. spent[c] = NetworkAttempts * Sum(seen[c]) /\ spent[c] \in Nat
        BY <1>1, <4>1 DEF Money, Values, Used, Usage
      <4>3. GeminiCharge(c) = spent[c]
        BY <3>2, <4>2 DEF GeminiCharge
      <4> QED BY <4>2, <4>3
    <3> QED BY <3>1, <3>2
  <2> QED BY <1>3, <1>5, <2>1, <2>2 DEF Settles
<1>9. Leaves(c)
  BY <1>4, <1>6, <1>7, <1>8
<1> QED BY <1>1, <1>2, <1>9, UpstreamKeeps, LeavesMoney

(* A call that fails, runs out of time or is cancelled upstream.             *)
LEMMA UnseenLeaves ==
  ASSUME Money, NEW c \in Calls, at[c] = "upstream", NEW status,
         Settles(c, status, None), UsedUnseen(c)
  PROVE  Leaves(c)
<1>1. /\ Reserved(c) \in Nat /\ spent[c] <= Reserved(c) /\ (Kind[c] # "gemini" => Reserved(c) = Cost)
      /\ Cost \in Nat
  BY ReservedIsNat, UpstreamWithin, CampaignAssumption DEF Money
<1> QED BY <1>1 DEF Money, Values, Settles, UsedUnseen, Leaves

LEMMA FailsMoney ==
  ASSUME IInv, Money, NEW c \in Calls, Fails(c)
  PROVE  Money'
<1>1. FileValues /\ UNCHANGED <<now, held>>
  BY UnchangedValues DEF Money, Fails
<1>2. Leaves(c)
  BY UnseenLeaves DEF Fails
<1> QED BY <1>1, <1>2, UpstreamKeeps, LeavesMoney

LEMMA DeadlineMoney ==
  ASSUME IInv, Money, NEW c \in Calls, DeadlinePasses(c)
  PROVE  Money'
<1>1. Owner[c] \in Processes /\ "DEADLINE" \in Reasons
  BY CampaignAssumption DEF Reasons
<1>2. runStop' \in [Processes -> BOOLEAN]
  BY <1>1 DEF DeadlinePasses, HaltRun, Money, Values
<1>3. UNCHANGED ledger \/ ledger' = Halted(ledger, "DEADLINE")
  BY DEF DeadlinePasses
<1>4. FileValues
  BY <1>1, <1>2, <1>3, HaltedValues DEF IInv, Money, FileValues, Values
<1>5. Leaves(c) /\ UNCHANGED <<now, held>>
  BY UnseenLeaves DEF DeadlinePasses
<1> QED BY <1>4, <1>5, UpstreamKeeps, LeavesMoney

LEMMA CancelMoney ==
  ASSUME IInv, Money, NEW c \in Calls, Cancel(c)
  PROVE  Money'
<1>1. UNCHANGED <<ledger, now, held>>
  BY DEF Cancel
<1>2. Owner[c] \in Processes
  BY CampaignAssumption
<1>3. FileValues
  <2>1. runStop' \in [Processes -> BOOLEAN]
    BY <1>2 DEF Cancel, HaltRun, Money, Values
  <2> QED BY <1>1, <2>1 DEF FileValues, Money, Values
<1>4. CASE at[c] = "upstream"
  <2>1. Settles(c, "CANCELLED", None) /\ UsedUnseen(c)
    BY <1>4 DEF Cancel
  <2> QED BY <1>1, <1>3, <1>4, <2>1, UnseenLeaves, UpstreamKeeps, LeavesMoney
<1>5. CASE at[c] = "queued"
  <2>1. Move(c, "over") /\ UNCHANGED <<spent, charge, seen>>
    BY <1>5 DEF Cancel
  <2>2. Values'
    BY <1>1, <1>3, <2>1 DEF Money, Values, FileValues
  <2>3. \A d \in Calls : Spends(d) /\ Usage(d)'
    BY <1>5, <2>1 DEF IInv, Types, Money, Used, Usage, Reported, Move, Spends
  <2> QED BY <1>1, <2>2, <2>3, UpstreamKeeps, SameSpends
<1> QED BY <1>4, <1>5 DEF Cancel

LEMMA AroundMoney ==
  ASSUME IInv, Money, (\E c \in Calls : FinishReceipt(c)) \/ (\E p \in Processes : Restart(p))
                        \/ Amend \/ Tick \/ UNCHANGED vars
  PROVE  Money'
<1>1. CASE \E c \in Calls : FinishReceipt(c)
  <2>1. PICK c \in Calls : FinishReceipt(c)
    BY <1>1
  <2>2. /\ at[c] = "settled" /\ Move(c, "over") /\ charge' = [charge EXCEPT ![c] = None]
        /\ UNCHANGED <<ledger, now, runStop, held, seen, spent>>
    BY <2>1 DEF FinishReceipt, Over
  <2>3. Values'
    BY <2>2 DEF Money, Values
  <2>4. \A d \in Calls : Spends(d) /\ Usage(d)'
    BY <2>2 DEF IInv, Types, Money, Values, Used, Usage, Reported, Move, Spends
  <2> QED BY <1>1, <2>2, <2>3, <2>4, AroundKeeps, SameSpends
<1>2. CASE \E p \in Processes : Restart(p)
  <2>1. PICK p \in Processes : Restart(p)
    BY <1>2
  <2>2. /\ at' = [c \in Calls |-> IF c \in InFlight(p) THEN "over" ELSE at[c]]
        /\ spent' = [c \in Calls |-> IF c \in InFlight(p) /\ at[c] = "upstream" /\ Kind[c] # "gemini"
                                     THEN Cost ELSE spent[c]]
        /\ charge' = [c \in Calls |-> IF c \in InFlight(p) THEN None ELSE charge[c]]
        /\ seen' = [c \in Calls |-> IF c \in InFlight(p) THEN <<>> ELSE seen[c]]
        /\ runStop' = [runStop EXCEPT ![p] = FALSE] /\ held' = [held EXCEPT ![p] = ledger.limit]
        /\ UNCHANGED <<ledger, now>>
    BY <2>1 DEF Restart
  <2>3. Values'
    <3>1. <<>> \in Seq(1 .. AttemptCap \cup {None}) /\ Cost \in Nat
      BY EmptySeq, CampaignAssumption
    <3>2. runStop' \in [Processes -> BOOLEAN] /\ held' \in [Processes -> {Limit, RaisedLimit}]
      BY <2>2 DEF Money, Values
    <3>3. spent' \in [Calls -> Nat] /\ charge' \in [Calls -> Nat \cup {None}]
      BY <2>2, <3>1 DEF Money, Values
    <3>4. seen' \in [Calls -> Seq(1 .. AttemptCap \cup {None})]
      BY <2>2, <3>1 DEF Money, Values
    <3> QED BY <2>2, <3>2, <3>3, <3>4 DEF Money, Values
  <2>4. ASSUME NEW d \in Calls PROVE Spends(d) /\ Usage(d)'
    <3>1. CASE d \in InFlight(p)
      BY <2>2, <3>1 DEF Spends, Usage
    <3>2. CASE d \notin InFlight(p)
      BY <2>2, <3>2 DEF Money, Used, Usage, Reported, Spends
    <3> QED BY <3>1, <3>2
  <2> QED BY <1>2, <2>2, <2>3, <2>4, AroundKeeps, SameSpends
<1>3. CASE Amend \/ Tick \/ UNCHANGED vars
  <2>1. UNCHANGED <<at, charge, spent, seen, held, runStop>>
    BY <1>3 DEF Amend, Tick, vars, callVars
  <2>2. \A d \in Calls : Spends(d) /\ Usage(d)'
    BY <2>1 DEF Money, Used, Usage, Reported, Spends
  <2>3. /\ Values'
        /\ ledger'.limit = ledger.limit \/ Total(ledger) <= ledger'.limit
    <3>1. CASE Amend
      <4>1. ledger'.limit = RaisedLimit /\ ledger'.stopped = ledger.stopped /\ ledger'.first = ledger.first
        BY <3>1 DEF Amend, IInv, IsLedger
      <4>2. Total(ledger) < RaisedLimit
        BY <3>1 DEF Amend
      <4>3. Total(ledger) \in Nat
        <5>1. Len(ledger.calls) \in Nat
          BY LenProperties DEF IInv, IsLedger
        <5>2. Charges(ledger.calls) \in Seq(Nat) /\ 0 \in Nat
          BY <5>1, ChargesType DEF Money
        <5> QED BY <5>2, SumAppend DEF Total
      <4>4. RaisedLimit \in Nat
        BY CampaignAssumption
      <4> QED BY <2>1, <3>1, <4>1, <4>2, <4>3, <4>4 DEF Amend, Money, Values
    <3>2. CASE Tick
      BY <2>1, <3>2, CampaignAssumption DEF Tick, Money, Values
    <3>3. CASE UNCHANGED vars
      BY <2>1, <3>3 DEF vars, Money, Values
    <3> QED BY <1>3, <3>1, <3>2, <3>3
  <2> QED BY <1>3, <2>2, <2>3, AroundKeeps, SameSpends
<1> QED BY <1>1, <1>2, <1>3

-----------------------------------------------------------------------------
(* The steps that write an entry.                                            *)

LEMMA LengthIsNat ==
  ASSUME IInv PROVE Len(ledger.calls) \in Nat /\ DOMAIN ledger.calls = 1 .. Len(ledger.calls)
BY LenProperties DEF IInv, IsLedger

LEMMA TotalIsNat ==
  ASSUME IInv, Priced PROVE Total(ledger) \in Nat
<1>1. Charges(ledger.calls) \in Seq(Nat) /\ 0 \in Nat
  BY LengthIsNat, ChargesType
<1> QED BY <1>1, SumAppend DEF Total

LEMMA TotalStaysNat == (IInv /\ Priced => Total(ledger) \in Nat)'
<1>1. IInv /\ Priced => Total(ledger) \in Nat
  BY TotalIsNat
<1> QED BY <1>1, PTL

LEMMA BookingMoney ==
  ASSUME IInv, Money, NEW c \in Calls, Reserve(c), ~Move(c, "over")
  PROVE  Money'
<1> DEFINE n == Len(ledger.calls)
<1>1. /\ IInv' /\ Len(ledger'.calls) = n + 1
      /\ \A i \in 1 .. n : ledger'.calls[i] = ledger.calls[i]
      /\ ledger'.calls = Append(ledger.calls, Entry(c)) /\ ledger'.calls[n + 1] = Entry(c)
      /\ ledger'.limit = ledger.limit /\ ledger'.stopped = None /\ ledger'.first \in {ledger.first, now}
      /\ at[c] = "admitted" /\ (Move(c, "reserved") \/ Move(c, "booked")) /\ Denied(c) = None
  BY BookingKeeps
<1>2. UNCHANGED <<now, runStop, held, charge, seen, spent>>
  BY DEF Reserve
<1>3. n \in Nat /\ \A i : i \in 1 .. n + 1 <=> i \in 1 .. n \/ i = n + 1
  BY LengthIsNat
<1>4. Reserved(c) \in Nat
  BY ReservedIsNat
<1>5. Values'
  <2>1. None \in Reasons \cup {None}
    OBVIOUS
  <2> QED BY <1>1, <1>2, <2>1 DEF Money, Values
<1> HIDE DEF n
<1>6. /\ at'[c] \in {"reserved", "booked"} /\ \A d \in Calls \ {c} : at'[d] = at[d]
  BY <1>1 DEF IInv, Types, Move
<1>7. Priced'
  <2>1. /\ Entry(c).call = c /\ Entry(c).status = "STARTED" /\ Entry(c).reserved = Reserved(c)
        /\ Entry(c).accounted = None
    BY DEF Entry
  <2>2. \A i \in 1 .. n : ledger.calls[i].call # c
    BY <1>1 DEF IInv, Entries, n
  <2> DEFINE Right(e) ==
        /\ e.call \in Calls /\ e.status \in Statuses
        /\ e.reserved = Reserved(e.call) /\ e.accounted \in Nat \cup {None}
        /\ e.status = "STARTED" => e.accounted = None
        /\ e.status # "STARTED" => at'[e.call] \in {"settled", "over"} /\ spent'[e.call] <= Charged(e)
  <2>3. \A i \in 1 .. n : Right(ledger.calls[i])
    BY <1>2, <1>6, <2>2 DEF Money, Priced, n
  <2>4. Right(Entry(c))
    BY <2>1 DEF Statuses
  <2> HIDE DEF Right
  <2>5. \A i \in 1 .. n + 1 : Right(ledger'.calls[i])
    BY <1>1, <1>3, <2>3, <2>4 DEF n
  <2> QED BY <1>1, <2>5 DEF Priced, Right, Charged, Reserved, n
<1>8. Used'
  <2>1. \A d \in Calls : HasEntry(d) => HasEntry(d)'
    BY <1>1, <1>3 DEF HasEntry, n
  <2>2. \A d \in Calls : Usage(d)'
    BY <1>1, <1>2, <1>6 DEF Money, Used, Usage, Reported
  <2> QED BY <1>2, <2>1, <2>2 DEF Money, Used
<1>9. WithinLimits'
  <2>1. ~(Total(ledger) + Reserved(c) > ledger.limit) /\ ~(n >= Starts)
    BY <1>1, CampaignAssumption DEF Denied, Reasons, n
  <2>2. Total(ledger') = Total(ledger) + Reserved(c)
    <3>1. /\ Charges(ledger.calls) \in Seq(Nat) /\ Len(Charges(ledger.calls)) = n
          /\ \A i \in 1 .. n : Charges(ledger.calls)[i] = Charged(ledger.calls[i])
      BY <1>3, ChargesType DEF Money, n
    <3>2. /\ Charges(ledger'.calls) \in Seq(Nat) /\ Len(Charges(ledger'.calls)) = n + 1
          /\ \A i \in 1 .. n + 1 : Charges(ledger'.calls)[i] = Charged(ledger'.calls[i])
      <4>1. Len(ledger'.calls) \in Nat /\ \A i \in 1 .. Len(ledger'.calls) : Charged(ledger'.calls[i]) \in Nat
        BY <1>1, <1>3, <1>7, ReservedIsNat DEF Priced, Charged
      <4>2. Charges(ledger'.calls) \in [1 .. n + 1 -> Nat]
        BY <1>1, <4>1 DEF Charges
      <4> QED BY <1>1, <1>3, <4>2, SeqDef DEF Charges
    <3>3. Charged(Entry(c)) = Reserved(c)
      BY DEF Entry, Charged
    <3>4. Charges(ledger'.calls) = Append(Charges(ledger.calls), Reserved(c))
      <4> DEFINE s == Charges(ledger'.calls)
                 t == Append(Charges(ledger.calls), Reserved(c))
      <4>1. t \in Seq(Nat) /\ Len(t) = n + 1 /\ t[n + 1] = Reserved(c)
            /\ \A i \in 1 .. n : t[i] = Charges(ledger.calls)[i]
        BY <1>4, <3>1, AppendProperties
      <4>2. \A i \in 1 .. n + 1 : s[i] = t[i]
        BY <1>1, <1>3, <3>1, <3>2, <3>3, <4>1 DEF n
      <4> HIDE DEF s, t
      <4>3. s \in Seq(Nat) /\ Len(s) = n + 1
        BY <3>2 DEF s
      <4>4. s = t
        BY <4>1, <4>2, <4>3, SeqEqual
      <4> QED BY <4>4 DEF s, t
    <3> QED BY <1>4, <3>1, <3>4, SumAppend DEF Total
  <2>3. Total(ledger) \in Nat /\ ledger.limit \in Nat /\ Starts \in Nat
    BY TotalIsNat, CampaignAssumption DEF Money, Values
  <2> QED BY <1>1, <1>3, <1>4, <2>1, <2>2, <2>3 DEF WithinLimits, n
<1> QED BY <1>5, <1>7, <1>8, <1>9 DEF Money

LEMMA SettlingMoney ==
  ASSUME IInv, Money, NEW c \in Calls, Finish(c)
  PROVE  Money'
<1> DEFINE n == Len(ledger.calls)
<1>1. /\ at[c] = "settling" /\ UNCHANGED <<now, runStop, held, spent, seen>>
      /\ \/ Move(c, "settled") /\ UNCHANGED charge
         \/ Move(c, "over") /\ charge' = [charge EXCEPT ![c] = None]
  BY DEF Finish, Over
<1>2. /\ IInv' /\ Len(ledger'.calls) = n
      /\ (UNCHANGED ledger /\ Over(c)) \/ \E i : Settled(c, i)
  BY SettlingKeeps
<1>3. /\ at'[c] \in {"settled", "over"} /\ \A d \in Calls \ {c} : at'[d] = at[d] /\ charge'[d] = charge[d]
      /\ charge' \in [Calls -> Nat \cup {None}]
  BY <1>1 DEF IInv, Types, Move, Money, Values
<1>4. \A d \in Calls : Usage(d)'
  BY <1>1, <1>3 DEF Money, Used, Usage, Reported
<1>5. CASE UNCHANGED ledger
  <2>1. Values' /\ Used' /\ WithinLimits'
    BY <1>1, <1>3, <1>4, <1>5 DEF Money, Values, Used, HasEntry, WithinLimits, Total
  <2>2. Priced'
    <3>1. \A d \in Calls : at[d] \in {"settled", "over"} => at'[d] \in {"settled", "over"}
      BY <1>1, <1>3
    <3> QED BY <1>1, <1>5, <3>1 DEF Money, Priced
  <2> QED BY <2>1, <2>2 DEF Money
<1>6. CASE \E i : Settled(c, i)
  <2>1. PICK i : Settled(c, i)
    BY <1>6
  <2>2. n \in Nat
    BY LengthIsNat
  <2>3. Values'
    BY <1>1, <1>3, <2>1 DEF Money, Values, Settled
  <2> HIDE DEF n
  <2>4. \A j \in 1 .. n : j # i => ledger.calls[j].call # c
    BY <2>1 DEF IInv, Entries, Settled, n
  <2> DEFINE Right(e) ==
        /\ e.call \in Calls /\ e.status \in Statuses
        /\ e.reserved = Reserved(e.call) /\ e.accounted \in Nat \cup {None}
        /\ e.status = "STARTED" => e.accounted = None
        /\ e.status # "STARTED" => at'[e.call] \in {"settled", "over"} /\ spent'[e.call] <= Charged(e)
  <2>5. \A j \in 1 .. n : j # i => Right(ledger'.calls[j])
    BY <1>1, <1>3, <2>1, <2>4 DEF Money, Priced, Settled, n
  <2>6. Right(ledger'.calls[i])
    <3>1. ledger'.calls[i].reserved = Reserved(c)
      BY <2>1 DEF Settled, Money, Priced
    <3>2. outcome[c] \in {"COMPLETED", "FAILED", "CANCELLED"}
      BY <1>1 DEF IInv, Outcomes
    <3>3. charge[c] \in Nat \cup {None}
      BY DEF Money, Values
    <3>4. spent[c] <= IF charge[c] = None THEN Reserved(c) ELSE charge[c]
      BY <1>1 DEF Money, Used, Usage
    <3> QED BY <1>1, <1>3, <2>1, <3>1, <3>2, <3>3, <3>4 DEF Settled, Statuses, Charged
  <2>7. Priced'
    <3> HIDE DEF Right
    <3>1. \A j \in 1 .. n : Right(ledger'.calls[j])
      BY <2>5, <2>6
    <3> QED BY <1>2, <3>1 DEF Priced, Right, Charged, Reserved, n
  <2>8. Used'
    <3>1. \A j \in 1 .. n : ledger'.calls[j].call = ledger.calls[j].call
      BY <2>1 DEF Settled, n
    <3>2. \A d \in Calls : HasEntry(d) => HasEntry(d)'
      BY <1>2, <3>1 DEF HasEntry, n
    <3> QED BY <1>1, <1>4, <3>2 DEF Money, Used
  <2>9. WithinLimits'
    <3>1. Total(ledger') \in Nat
      BY <1>2, <2>7, TotalStaysNat DEF Total
    <3>2. ledger'.limit \in Nat /\ Starts \in Nat
      BY <2>3, CampaignAssumption DEF Values
    <3>3. ledger'.stopped = None => ledger.stopped = None /\ ~(Total(ledger') > ledger'.limit)
      BY <2>1, CampaignAssumption DEF Settled
    <3>4. ledger'.stopped = None => Len(ledger'.calls) <= Starts
      BY <1>2, <3>3 DEF Money, WithinLimits, n
    <3> QED BY <3>1, <3>2, <3>3, <3>4 DEF WithinLimits
  <2> QED BY <2>3, <2>7, <2>8, <2>9 DEF Money
<1> QED BY <1>2, <1>5, <1>6

-----------------------------------------------------------------------------
LEMMA MoneyInitially == ASSUME Init PROVE Money
<1>1. /\ ledger = [limit |-> Limit, stopped |-> None, first |-> None, calls |-> <<>>]
      /\ now = 0 /\ runStop = [p \in Processes |-> FALSE] /\ held = [p \in Processes |-> Limit]
      /\ at = [c \in Calls |-> "new"] /\ charge = [c \in Calls |-> None]
      /\ seen = [c \in Calls |-> <<>>] /\ spent = [c \in Calls |-> 0]
  BY DEF Init
<1>2. Len(ledger.calls) = 0 /\ <<>> \in Seq(1 .. AttemptCap \cup {None}) /\ ledger.calls = <<>>
  BY <1>1, EmptySeq
<1>3. Values
  BY <1>1, <1>2, CampaignAssumption DEF Values
<1>4. Priced
  BY <1>2 DEF Priced
<1>5. Used
  BY <1>1 DEF Used, Usage
<1>6. WithinLimits
  <2>1. Charges(ledger.calls) = <<>>
    <3>1. Charges(ledger.calls) \in Seq(Nat) /\ Len(Charges(ledger.calls)) = 0
      BY <1>2, <1>4, ChargesType
    <3> QED BY <3>1, EmptySeq, SeqEqual
  <2>2. Total(ledger) = 0
    BY <2>1, SumEmpty DEF Total
  <2> QED BY <1>1, <1>2, <2>2, CampaignAssumption DEF WithinLimits
<1> QED BY <1>3, <1>4, <1>5, <1>6 DEF Money

LEMMA MoneyStays ==
  ASSUME IInv, Money, [Next]_vars
  PROVE  Money'
<1>1. ASSUME NEW c \in Calls, Reserve(c) PROVE Money'
  BY <1>1, UnbookedMoney, BookingMoney
<1>2. ASSUME NEW c \in Calls, Admit(c) \/ Step(c) \/ ServiceAttempt(c) \/ Returns(c) \/ Fails(c) \/ Cancel(c)
      PROVE  Money'
  BY <1>1, <1>2, AdmissionMoney, UnbookedMoney, EnterMoney, AttemptMoney, ReturnsMoney, FailsMoney,
     DeadlineMoney, CancelMoney, SettlingMoney, AroundMoney DEF Step
<1>3. CASE (\E p \in Processes : Restart(p)) \/ Amend \/ Tick \/ UNCHANGED vars
  BY <1>3, AroundMoney
<1> QED BY <1>2, <1>3 DEF Next

LEMMA ConservativeHolds == ASSUME IInv, Money PROVE Conservative
<1> SUFFICES ASSUME NEW c \in Calls, spent[c] > 0
             PROVE  \E i \in DOMAIN ledger.calls :
                      LET e == ledger.calls[i] IN
                      /\ e.call = c
                      /\ (spent[c] <= Charged(e)) \/ (e.status = "STARTED" /\ Charged(e) = Reserved(c))
  BY DEF Conservative
<1>1. PICK i \in 1 .. Len(ledger.calls) : ledger.calls[i].call = c
  BY DEF Money, Used, HasEntry
<1>2. (spent[c] <= Charged(ledger.calls[i]))
      \/ (ledger.calls[i].status = "STARTED" /\ Charged(ledger.calls[i]) = Reserved(c))
  BY <1>1 DEF Money, Priced, Charged
<1> QED BY <1>1, <1>2, LengthIsNat

(* Whatever is killed, cancelled, late or never reported: what the calls have used is
   charged to the ledger or stays reserved in it, its charges and starts are within
   the limits until a stop is recorded, the provider is entered only for a booked call
   and no receipt is ahead of its entry (reserve, finish, campaign_call_boundary).   *)
THEOREM LedgerCorrect == Spec => []Inv
<1>1. Init => IInv /\ Money
  BY Initially, MoneyInitially
<1>2. IInv /\ Money /\ [Next]_vars => (IInv /\ Money)'
  BY StepsKeep, MoneyStays DEF EntriesStay
<1>3. IInv /\ Money => Inv
  <2> SUFFICES ASSUME IInv, Money PROVE Inv
    OBVIOUS
  <2>1. TypeOK
    BY LengthIsNat DEF TypeOK, IInv, Types, Entries, Places, Waits, Ends, Money, Values, Priced
  <2>2. Booked /\ ReceiptFollowsEntry
    BY LengthIsNat DEF IInv, Entries, Receipts, Booked, ReceiptFollowsEntry, Has, Audio
  <2>3. Conservative /\ WithinLimits
    BY ConservativeHolds DEF Money
  <2> QED BY <2>1, <2>2, <2>3 DEF Inv
<1> QED BY <1>1, <1>2, <1>3, PTL DEF Spec
=============================================================================

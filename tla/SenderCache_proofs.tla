------------------------- MODULE SenderCache_proofs -------------------------
(***************************************************************************)
(* How old the opinion of a sender can be by which a transaction is laned  *)
(* or a fee discounted: for any number of senders and of goroutines that   *)
(* look them up, any time-to-live and any time-out.                        *)
(*                                                                         *)
(* The argument follows an answer on its way.  While it travels it is as   *)
(* old as the request, at most; when it is stored its age starts at zero   *)
(* although it may be Timeout old; whoever hits it in the cache carries it *)
(* on for another lookup.  So every place an answer can be in has a bound  *)
(* of its own on how long ago it was the truth, and time moves all of them *)
(* by at most one.                                                         *)
(***************************************************************************)
EXTENDS SenderCache, TLAPS

Asking   == [pc : {"asking"}, addr : Addrs, waited : 0 .. Timeout, ill : BOOLEAN]
Answered == [pc : {"answered"}, addr : Addrs, waited : 0 .. Timeout, ill : BOOLEAN,
             result : Answers]
DoneCall == [pc : {"done"}, addr : Addrs, waited : 0 .. Timeout, ill : BOOLEAN,
             result : Answers \cup {Fallback}]
Entry    == [result : Answers \cup {Fallback}, age : 0 .. TTL]

Shape ==
  /\ client \in {"scores", "discounts"} /\ enabled \in BOOLEAN /\ healthy \in BOOLEAN
  /\ cache \in [Addrs -> Entry]
  /\ call \in [Callers -> {NoCall} \cup Asking \cup Answered \cup DoneCall]
  /\ truth \in [Addrs -> Answers]
  /\ lastTrue \in [Addrs -> [Answers -> 0 .. Limit]]

(* The truth is true now.                                                  *)
TruthIsNow == \A a \in Addrs : lastTrue[a][truth[a]] = 0

(* An answer under way is not older than its request.                      *)
AnswersRecent ==
  \A c \in Callers : call[c].pc = "answered" =>
    lastTrue[call[c].addr][call[c].result] <= call[c].waited

(* An entry in use was the truth at most Timeout before it was stored.     *)
EntriesRecent ==
  \A a \in Addrs : Fresh(a) =>
    /\ cache[a].result \in Answers
    /\ lastTrue[a][cache[a].result] <= cache[a].age + Timeout

(* A lookup that is done took a fresh entry or an answer, and is itself    *)
(* not yet over; or it failed, or there was nobody to ask.                 *)
ResultsRecent ==
  \A c \in Callers : call[c].pc = "done" =>
    \/ /\ call[c].result \in Answers
       /\ lastTrue[call[c].addr][call[c].result] < TTL + Timeout + call[c].waited
    \/ call[c].result = Fallback /\ (call[c].ill \/ ~enabled)

IInv == Shape /\ TruthIsNow /\ AnswersRecent /\ EntriesRecent /\ ResultsRecent


-----------------------------------------------------------------------------

Calls == {NoCall} \cup Asking \cup Answered \cup DoneCall

Recent(v) ==
  /\ v.pc = "answered" => lastTrue[v.addr][v.result] <= v.waited
  /\ v.pc = "done" =>
       \/ v.result \in Answers /\ lastTrue[v.addr][v.result] < TTL + Timeout + v.waited
       \/ v.result = Fallback /\ (v.ill \/ ~enabled)

(* What a client is does not change.                                       *)
LEMMA SameClient ==
  ASSUME client' = client
  PROVE  /\ Answers' = Answers /\ Fallback' = Fallback /\ Asking' = Asking
         /\ Answered' = Answered /\ DoneCall' = DoneCall /\ Entry' = Entry
         /\ Calls' = Calls /\ NoEntry' = NoEntry
  BY DEF Answers, Fallback, Asking, Answered, DoneCall, Entry, Calls, NoEntry

(* The kinds of call and their fields.                                     *)
LEMMA CallKinds ==
  ASSUME NEW v \in Calls
  PROVE  /\ v.pc \in {"idle", "asking", "answered", "done"}
         /\ v.pc = "idle" <=> v = NoCall
         /\ v.pc = "asking" <=> v \in Asking
         /\ v.pc = "answered" <=> v \in Answered
         /\ v.pc = "done" <=> v \in DoneCall
         /\ v.pc # "idle" => v.addr \in Addrs /\ v.waited \in 0 .. Timeout /\ v.ill \in BOOLEAN
         /\ v.pc = "answered" => v.result \in Answers
  BY DEF Calls, NoCall, Asking, Answered, DoneCall

(* A step of one goroutine that leaves the cache alone.                    *)
LEMMA CallKeeps ==
  ASSUME IInv, NEW c \in Callers, NEW v \in Calls, Recent(v),
         call' = [call EXCEPT ![c] = v],
         UNCHANGED <<client, enabled, cache, truth, healthy, lastTrue>>
  PROVE  IInv'
<1>1. /\ DOMAIN call = Callers /\ call'[c] = v
      /\ \A d \in Callers : d # c => call'[d] = call[d]
  BY DEF IInv, Shape
<1>2. Answers' = Answers /\ Fallback' = Fallback
  BY SameClient
<1>3. Shape'
  <2>1. call' \in [Callers -> Calls]
    BY <1>1 DEF IInv, Shape, Calls
  <2>2. Limit' = Limit
    BY DEF Limit
  <2>3. QED
    BY <1>2, <2>1, <2>2, SameClient DEF IInv, Shape, Calls
<1>4. TruthIsNow'
  BY DEF IInv, TruthIsNow
<1>5. AnswersRecent'
  BY <1>1 DEF IInv, AnswersRecent, Recent
<1>6. EntriesRecent'
  BY <1>2 DEF IInv, EntriesRecent, Fresh
<1>7. ResultsRecent'
  BY <1>1, <1>2 DEF IInv, ResultsRecent, Recent
<1>8. QED
  BY <1>3, <1>4, <1>5, <1>6, <1>7 DEF IInv

(* GetScoreResult and getCachedDiscount up to the request                  *)
(* (client.go:104-126, model.go:168-180).                                  *)
LEMMA LookupKeeps ==
  ASSUME IInv, NEW c \in Callers, NEW a \in Addrs,
         SwitchedOff(c, a) \/ Hit(c, a) \/ Miss(c, a)
  PROVE  IInv'
<1>1. /\ cache[a] \in Entry /\ TTL \in Nat \ {0} /\ Timeout \in Nat
      /\ enabled \in BOOLEAN /\ healthy \in BOOLEAN
  BY TimeAssumption DEF IInv, Shape
<1>2. CASE SwitchedOff(c, a)
  <2> DEFINE v == Done(a, Fallback, 0, FALSE)
  <2>1. v \in Calls
    BY <1>1 DEF Done, Calls, DoneCall
  <2>2. Recent(v)
    BY <1>2 DEF Done, Recent, SwitchedOff
  <2> HIDE DEF v
  <2>3. QED
    BY <1>2, <2>1, <2>2, CallKeeps DEF SwitchedOff, v
<1>3. CASE Hit(c, a)
  <2> DEFINE v == Done(a, cache[a].result, 0, FALSE)
  <2>1. /\ cache[a].result \in Answers /\ cache[a].age < TTL
        /\ lastTrue[a][cache[a].result] <= cache[a].age + Timeout
    BY <1>3 DEF Hit, IInv, EntriesRecent, Fresh
  <2>2. v \in Calls
    BY <1>1, <2>1 DEF Done, Calls, DoneCall
  <2>3. lastTrue[a][cache[a].result] \in Nat /\ cache[a].age \in Nat
    BY <1>1, <2>1 DEF IInv, Shape, Entry, Limit
  <2>4. lastTrue[a][cache[a].result] < TTL + Timeout + 0
    BY <1>1, <2>1, <2>3
  <2>5. Recent(v)
    BY <2>1, <2>4 DEF Done, Recent
  <2> HIDE DEF v
  <2>6. QED
    BY <1>3, <2>2, <2>5, CallKeeps DEF Hit, v
<1>4. CASE Miss(c, a)
  <2> DEFINE v == [pc |-> "asking", addr |-> a, waited |-> 0, ill |-> ~healthy]
  <2>1. v \in Calls
    BY <1>1 DEF Calls, Asking
  <2>2. Recent(v)
    BY DEF Recent
  <2> HIDE DEF v
  <2>3. QED
    BY <1>4, <2>1, <2>2, CallKeeps DEF Miss, v
<1>5. QED
  BY <1>2, <1>3, <1>4

(* The service's answer, a failure, and the use of a result.               *)
LEMMA ServeKeeps ==
  ASSUME IInv, NEW c \in Callers, Answer(c) \/ Fail(c) \/ Use(c)
  PROVE  IInv'
<1>1. call[c] \in Calls
  BY DEF IInv, Shape, Calls
<1>2. CASE Answer(c)
  <2> DEFINE w == call[c]
             v == [pc |-> "answered", addr |-> w.addr, ill |-> w.ill,
                   waited |-> w.waited, result |-> truth[w.addr]]
  <2>1. w.addr \in Addrs /\ w.waited \in 0 .. Timeout /\ w.ill \in BOOLEAN
    BY <1>1, <1>2, CallKinds DEF Answer
  <2>2. truth[w.addr] \in Answers /\ lastTrue[w.addr][truth[w.addr]] = 0
    BY <2>1 DEF IInv, Shape, TruthIsNow
  <2>3. v \in Calls
    BY <2>1, <2>2 DEF Calls, Answered
  <2>4. Recent(v)
    BY <2>1, <2>2, TimeAssumption DEF Recent
  <2> HIDE DEF v
  <2>5. QED
    BY <1>2, <2>3, <2>4, CallKeeps DEF Answer, v
<1>3. CASE Fail(c)
  <2> DEFINE v == Done(call[c].addr, Fallback, call[c].waited, TRUE)
  <2>1. call[c].addr \in Addrs /\ call[c].waited \in 0 .. Timeout
    BY <1>1, <1>3, CallKinds DEF Fail
  <2>2. v \in Calls
    BY <2>1 DEF Done, Calls, DoneCall
  <2>3. Recent(v)
    BY DEF Done, Recent
  <2> HIDE DEF v
  <2>4. QED
    BY <1>3, <2>2, <2>3, CallKeeps DEF Fail, v
<1>4. CASE Use(c)
  <2>1. NoCall \in Calls /\ Recent(NoCall)
    BY DEF Calls, Recent, NoCall
  <2>2. QED
    BY <1>4, <2>1, CallKeeps DEF Use
<1>5. QED
  BY <1>2, <1>3, <1>4


(* An answer is stored: its age starts again, its bound does not           *)
(* (client.go:134-137, model.go:184-189).                                  *)
LEMMA StoreKeeps ==
  ASSUME IInv, NEW c \in Callers, Store(c)
  PROVE  IInv'
<1> DEFINE w == call[c]
           e == [result |-> w.result, age |-> 0]
           v == Done(w.addr, w.result, w.waited, w.ill)
<1>1. /\ w \in Calls /\ w.pc = "answered"
      /\ cache' = [cache EXCEPT ![w.addr] = e] /\ call' = [call EXCEPT ![c] = v]
      /\ UNCHANGED <<client, enabled, truth, healthy, lastTrue>>
  BY DEF Store, IInv, Shape, Calls
<1>2. /\ w.addr \in Addrs /\ w.waited \in 0 .. Timeout /\ w.ill \in BOOLEAN
      /\ w.result \in Answers
  BY <1>1, CallKinds
<1>3. /\ lastTrue[w.addr][w.result] \in Nat
      /\ lastTrue[w.addr][w.result] <= w.waited
  BY <1>1, <1>2, TimeAssumption DEF IInv, Shape, AnswersRecent, Limit
<1>4. v \in Calls /\ e \in Entry
  BY <1>2, TimeAssumption DEF Done, Calls, DoneCall, Entry
<1>5. Recent(v) /\ lastTrue[w.addr][w.result] <= e.age + Timeout
  <2>1. /\ lastTrue[w.addr][w.result] < TTL + Timeout + w.waited
        /\ lastTrue[w.addr][w.result] <= 0 + Timeout
    BY <1>2, <1>3, TimeAssumption
  <2>2. QED
    BY <1>2, <2>1 DEF Done, Recent
<1>6. e.result = w.result
  OBVIOUS
<1> HIDE DEF e, v, w
<1>7. /\ DOMAIN call = Callers /\ call'[c] = v
      /\ \A d \in Callers : d # c => call'[d] = call[d]
      /\ DOMAIN cache = Addrs /\ cache'[w.addr] = e
      /\ \A a \in Addrs : a # w.addr => cache'[a] = cache[a]
  BY <1>1, <1>2 DEF IInv, Shape
<1>8. Answers' = Answers /\ Fallback' = Fallback
  BY <1>1, SameClient
<1>9. Shape'
  <2>1. call' \in [Callers -> Calls]
    BY <1>1, <1>4, <1>7 DEF IInv, Shape, Calls
  <2>2. cache' \in [Addrs -> Entry]
    BY <1>1, <1>4, <1>7 DEF IInv, Shape
  <2>3. Limit' = Limit
    BY DEF Limit
  <2>4. QED
    BY <1>1, <1>8, <2>1, <2>2, <2>3, SameClient DEF IInv, Shape, Calls
<1>10. TruthIsNow'
  BY <1>1 DEF IInv, TruthIsNow
<1>11. AnswersRecent'
  BY <1>1, <1>5, <1>7 DEF IInv, AnswersRecent, Recent
<1>12. EntriesRecent'
  BY <1>1, <1>2, <1>5, <1>6, <1>7, <1>8 DEF IInv, EntriesRecent, Fresh
<1>13. ResultsRecent'
  BY <1>1, <1>5, <1>7, <1>8 DEF IInv, ResultsRecent, Recent
<1>14. QED
  BY <1>9, <1>10, <1>11, <1>12, <1>13 DEF IInv

(* The cache is emptied (client.go:189).                                   *)
LEMMA ClearKeeps ==
  ASSUME IInv, ClearCache
  PROVE  IInv'
<1>1. /\ cache' = [a \in Addrs |-> NoEntry]
      /\ UNCHANGED <<client, enabled, call, truth, healthy, lastTrue>>
  BY DEF ClearCache
<1>2. Answers' = Answers /\ Fallback' = Fallback
  BY <1>1, SameClient
<1>3. Shape'
  <2>1. cache' \in [Addrs -> Entry]
    BY <1>1, TimeAssumption DEF NoEntry, Entry
  <2>2. Limit' = Limit
    BY DEF Limit
  <2>3. QED
    BY <1>1, <1>2, <2>1, <2>2, SameClient DEF IInv, Shape
<1>4. EntriesRecent'
  BY <1>1, TimeAssumption DEF EntriesRecent, Fresh, NoEntry
<1>5. QED
  BY <1>1, <1>2, <1>3, <1>4 DEF IInv, TruthIsNow, AnswersRecent, ResultsRecent

(* The service changes its mind: a result becomes true now, none becomes   *)
(* older.                                                                  *)
LEMMA RescoreKeeps ==
  ASSUME IInv, NEW a \in Addrs, NEW r \in Answers, Rescore(a, r)
  PROVE  IInv'
<1>1. /\ truth' = [truth EXCEPT ![a] = r] /\ lastTrue' = [lastTrue EXCEPT ![a][r] = 0]
      /\ UNCHANGED <<client, enabled, cache, call, healthy>>
  BY DEF Rescore
<1>2. Answers' = Answers /\ Fallback' = Fallback /\ Limit' = Limit /\ Limit \in Nat
  BY <1>1, SameClient, TimeAssumption DEF Limit
<1>3. /\ lastTrue \in [Addrs -> [Answers -> 0 .. Limit]] /\ truth \in [Addrs -> Answers]
      /\ \A c \in Callers : call[c] \in Calls
  BY DEF IInv, Shape, Calls
<1> HIDE DEF Limit
<1>4. \A b \in Addrs : \A q \in Answers : lastTrue'[b][q] \in {lastTrue[b][q], 0}
  BY <1>1, <1>3
<1>5. \A b \in Addrs : \A q \in Answers : /\ lastTrue[b][q] \in Nat /\ lastTrue'[b][q] \in Nat
                                           /\ lastTrue'[b][q] <= lastTrue[b][q]
  BY <1>2, <1>3, <1>4
<1>6. Shape'
  <2>1. truth' \in [Addrs -> Answers] /\ lastTrue' \in [Addrs -> [Answers -> 0 .. Limit]]
    BY <1>1, <1>2, <1>3
  <2>2. QED
    BY <1>1, <1>2, <2>1, SameClient DEF IInv, Shape
<1>7. TruthIsNow'
  BY <1>1, <1>3 DEF IInv, TruthIsNow
<1>8. AnswersRecent'
  <2> SUFFICES ASSUME NEW c \in Callers, call[c].pc = "answered"
               PROVE  lastTrue'[call[c].addr][call[c].result] <= call[c].waited
    BY <1>1 DEF AnswersRecent
  <2>1. /\ call[c].addr \in Addrs /\ call[c].result \in Answers /\ call[c].waited \in Nat
        /\ lastTrue[call[c].addr][call[c].result] <= call[c].waited
    BY <1>3, CallKinds, TimeAssumption DEF IInv, AnswersRecent
  <2>2. QED
    BY <1>5, <2>1
<1>9. EntriesRecent'
  <2> SUFFICES ASSUME NEW b \in Addrs, Fresh(b)
               PROVE  /\ cache[b].result \in Answers
                      /\ lastTrue'[b][cache[b].result] <= cache[b].age + Timeout
    BY <1>1, <1>2 DEF EntriesRecent, Fresh
  <2>1. /\ cache[b].result \in Answers /\ cache[b].age + Timeout \in Nat
        /\ lastTrue[b][cache[b].result] <= cache[b].age + Timeout
    BY TimeAssumption DEF IInv, Shape, Entry, EntriesRecent
  <2>2. QED
    BY <1>5, <2>1
<1>10. ResultsRecent'
  <2> SUFFICES ASSUME NEW c \in Callers, call[c].pc = "done", call[c].result \in Answers,
                      lastTrue[call[c].addr][call[c].result] < TTL + Timeout + call[c].waited
               PROVE  lastTrue'[call[c].addr][call[c].result] < TTL + Timeout + call[c].waited
    BY <1>1, <1>2 DEF IInv, ResultsRecent
  <2>1. call[c].addr \in Addrs /\ TTL + Timeout + call[c].waited \in Nat
    BY <1>3, CallKinds, TimeAssumption
  <2>2. QED
    BY <1>5, <2>1
<1>11. QED
  BY <1>6, <1>7, <1>8, <1>9, <1>10 DEF IInv

(* The service goes out of order, or comes back.                           *)
LEMMA HealthKeeps ==
  ASSUME IInv, Outage \/ Recovery
  PROVE  IInv'
<1>1. \A c \in Callers : call[c] \in Calls
  BY DEF IInv, Shape, Calls
<1>2. /\ UNCHANGED <<client, enabled, cache, truth, lastTrue>> /\ healthy' \in BOOLEAN
      /\ DOMAIN call' = Callers /\ call' = [c \in Callers |-> call'[c]]
      /\ \A c \in Callers : \/ call'[c] = call[c]
                            \/ /\ call[c].pc \in {"asking", "answered"}
                               /\ call'[c] = [call[c] EXCEPT !.ill = TRUE]
  BY DEF Outage, Recovery, IInv, Shape
<1>3. Answers' = Answers /\ Fallback' = Fallback /\ Limit' = Limit
  BY <1>2, SameClient DEF Limit
<1>4. ASSUME NEW c \in Callers
      PROVE  /\ call'[c] \in Calls /\ call'[c].pc = call[c].pc
             /\ call[c].pc = "done" => call'[c] = call[c]
             /\ call[c].pc = "answered" => /\ call'[c].addr = call[c].addr
                                           /\ call'[c].waited = call[c].waited
                                           /\ call'[c].result = call[c].result
  <2>1. CASE call'[c] = call[c]
    BY <1>1, <2>1
  <2>2. CASE call[c].pc = "asking" /\ call'[c] = [call[c] EXCEPT !.ill = TRUE]
    <3>1. call[c] \in Asking
      BY <1>1, <2>2, CallKinds
    <3>2. call'[c] \in Asking
      BY <2>2, <3>1 DEF Asking
    <3>3. call'[c] \in Calls /\ call'[c].pc = "asking"
      BY <3>2 DEF Calls, Asking
    <3>4. QED
      BY <2>2, <3>3
  <2>3. CASE call[c].pc = "answered" /\ call'[c] = [call[c] EXCEPT !.ill = TRUE]
    <3>1. call[c] \in Answered
      BY <1>1, <2>3, CallKinds
    <3>2. /\ call'[c] \in Answered /\ call'[c].addr = call[c].addr
          /\ call'[c].waited = call[c].waited /\ call'[c].result = call[c].result
      BY <2>3, <3>1 DEF Answered
    <3>3. call'[c] \in Calls /\ call'[c].pc = "answered"
      BY <3>2 DEF Calls, Answered
    <3>4. QED
      BY <2>3, <3>2, <3>3
  <2>4. QED
    BY <1>2, <2>1, <2>2, <2>3
<1>5. Shape'
  <2>1. call' \in [Callers -> Calls]
    BY <1>2, <1>4
  <2>2. QED
    BY <1>2, <1>3, <2>1, SameClient DEF IInv, Shape, Calls
<1>6. AnswersRecent'
  BY <1>2, <1>4 DEF IInv, AnswersRecent
<1>7. ResultsRecent'
  BY <1>2, <1>3, <1>4 DEF IInv, ResultsRecent
<1>8. TruthIsNow' /\ EntriesRecent'
  BY <1>2, <1>3 DEF IInv, TruthIsNow, EntriesRecent, Fresh
<1>9. QED
  BY <1>5, <1>6, <1>7, <1>8 DEF IInv


(* Time passes: no bound grows by less than what it bounds.                *)
LEMMA TickKeeps ==
  ASSUME IInv, Tick
  PROVE  IInv'
<1>1. /\ UNCHANGED <<client, enabled, truth, healthy>>
      /\ \A c \in Callers : call[c].pc # "idle" => call[c].waited < Timeout
      /\ call' = [c \in Callers |-> IF call[c].pc = "idle" THEN NoCall
                                    ELSE [call[c] EXCEPT !.waited = @ + 1]]
      /\ cache' = [a \in Addrs |-> IF Fresh(a) THEN [cache[a] EXCEPT !.age = @ + 1] ELSE NoEntry]
  BY DEF Tick
<1>2. /\ Answers' = Answers /\ Fallback' = Fallback /\ Limit' = Limit /\ Limit \in Nat
      /\ TTL \in Nat \ {0} /\ Timeout \in Nat
  BY <1>1, SameClient, TimeAssumption DEF Limit
<1>3. /\ lastTrue \in [Addrs -> [Answers -> 0 .. Limit]] /\ truth \in [Addrs -> Answers]
      /\ \A c \in Callers : call[c] \in Calls
      /\ \A a \in Addrs : cache[a] \in Entry
  BY DEF IInv, Shape, Calls
<1> HIDE DEF Limit
<1>4. \A a \in Addrs : DOMAIN lastTrue[a] = Answers
  BY <1>3
<1>5. lastTrue' = [a \in Addrs |-> [r \in Answers |->
                     IF r = truth[a] THEN 0
                     ELSE IF lastTrue[a][r] < Limit THEN lastTrue[a][r] + 1 ELSE Limit]]
  BY <1>4 DEF Tick
<1>6. \A a \in Addrs : \A r \in Answers :
        /\ lastTrue[a][r] \in 0 .. Limit /\ lastTrue'[a][r] \in 0 .. Limit
        /\ lastTrue'[a][r] <= lastTrue[a][r] + 1
  <2>1. \A a \in Addrs : \A r \in Answers : lastTrue[a][r] \in 0 .. Limit
    BY <1>3
  <2>2. QED
    BY <1>2, <1>5, <2>1
<1>7. ASSUME NEW c \in Callers
      PROVE  /\ call'[c] \in Calls /\ call'[c].pc = call[c].pc
             /\ call[c].pc # "idle" => /\ call'[c].waited = call[c].waited + 1
                                       /\ call'[c].addr = call[c].addr /\ call'[c].ill = call[c].ill
             /\ call[c].pc \in {"answered", "done"} => call'[c].result = call[c].result
  <2>0. call'[c] = IF call[c].pc = "idle" THEN NoCall ELSE [call[c] EXCEPT !.waited = @ + 1]
    BY <1>1
  <2>1. CASE call[c].pc = "idle"
    BY <2>0, <2>1 DEF Calls, NoCall
  <2>2. CASE call[c].pc = "asking"
    <3>1. call[c] \in Asking /\ call[c].waited < Timeout
      BY <1>1, <1>3, <2>2, CallKinds
    <3>2. /\ call'[c] \in Asking /\ call'[c].waited = call[c].waited + 1
          /\ call'[c].addr = call[c].addr /\ call'[c].ill = call[c].ill
      BY <1>2, <2>0, <2>2, <3>1 DEF Asking
    <3>3. call'[c] \in Calls /\ call'[c].pc = "asking"
      BY <3>2 DEF Calls, Asking
    <3>4. QED
      BY <2>2, <3>2, <3>3
  <2>3. CASE call[c].pc = "answered"
    <3>1. call[c] \in Answered /\ call[c].waited < Timeout
      BY <1>1, <1>3, <2>3, CallKinds
    <3>2. /\ call'[c] \in Answered /\ call'[c].waited = call[c].waited + 1
          /\ call'[c].addr = call[c].addr /\ call'[c].ill = call[c].ill
          /\ call'[c].result = call[c].result
      BY <1>2, <2>0, <2>3, <3>1 DEF Answered
    <3>3. call'[c] \in Calls /\ call'[c].pc = "answered"
      BY <3>2 DEF Calls, Answered
    <3>4. QED
      BY <2>3, <3>2, <3>3
  <2>4. CASE call[c].pc = "done"
    <3>1. call[c] \in DoneCall /\ call[c].waited < Timeout
      BY <1>1, <1>3, <2>4, CallKinds
    <3>2. /\ call'[c] \in DoneCall /\ call'[c].waited = call[c].waited + 1
          /\ call'[c].addr = call[c].addr /\ call'[c].ill = call[c].ill
          /\ call'[c].result = call[c].result
      BY <1>2, <2>0, <2>4, <3>1 DEF DoneCall
    <3>3. call'[c] \in Calls /\ call'[c].pc = "done"
      BY <3>2 DEF Calls, DoneCall
    <3>4. QED
      BY <2>4, <3>2, <3>3
  <2>5. QED
    BY <1>3, <2>1, <2>2, <2>3, <2>4, CallKinds
<1>8. ASSUME NEW a \in Addrs
      PROVE  /\ cache'[a] \in Entry
             /\ Fresh(a)' => /\ Fresh(a) /\ cache'[a].result = cache[a].result
                             /\ cache'[a].age = cache[a].age + 1
  <2>0. cache'[a] = IF Fresh(a) THEN [cache[a] EXCEPT !.age = @ + 1] ELSE NoEntry
    BY <1>1
  <2>1. CASE Fresh(a)
    BY <1>2, <1>3, <2>0, <2>1 DEF Fresh, Entry
  <2>2. CASE ~Fresh(a)
    BY <1>2, <2>0, <2>2 DEF Fresh, Entry, NoEntry
  <2>3. QED
    BY <2>1, <2>2
<1>9. Shape'
  <2>1. lastTrue' \in [Addrs -> [Answers -> 0 .. Limit]]
    BY <1>5, <1>6
  <2>2. call' \in [Callers -> Calls] /\ cache' \in [Addrs -> Entry]
    BY <1>1, <1>7, <1>8
  <2>3. QED
    BY <1>1, <1>2, <2>1, <2>2, SameClient DEF IInv, Shape, Calls
<1>10. TruthIsNow'
  BY <1>1, <1>3, <1>5 DEF TruthIsNow
<1>11. AnswersRecent'
  <2> SUFFICES ASSUME NEW c \in Callers, call'[c].pc = "answered"
               PROVE  lastTrue'[call'[c].addr][call'[c].result] <= call'[c].waited
    BY DEF AnswersRecent
  <2>1. /\ call[c].addr \in Addrs /\ call[c].result \in Answers /\ call[c].waited \in 0 .. Timeout
        /\ lastTrue[call[c].addr][call[c].result] <= call[c].waited
    BY <1>3, <1>7, CallKinds DEF IInv, AnswersRecent
  <2>2. /\ call'[c].addr = call[c].addr /\ call'[c].result = call[c].result
        /\ call'[c].waited = call[c].waited + 1
    BY <1>7
  <2>3. QED
    BY <1>2, <1>6, <2>1, <2>2
<1>12. EntriesRecent'
  <2> SUFFICES ASSUME NEW a \in Addrs, Fresh(a)'
               PROVE  /\ cache'[a].result \in Answers
                      /\ lastTrue'[a][cache'[a].result] <= cache'[a].age + Timeout
    BY <1>2 DEF EntriesRecent
  <2>1. /\ Fresh(a) /\ cache'[a].result = cache[a].result /\ cache'[a].age = cache[a].age + 1
        /\ cache[a].age \in Nat
    BY <1>2, <1>3, <1>8 DEF Entry
  <2>2. cache[a].result \in Answers /\ lastTrue[a][cache[a].result] <= cache[a].age + Timeout
    BY <2>1 DEF IInv, EntriesRecent
  <2>3. QED
    BY <1>2, <1>6, <2>1, <2>2
<1>13. ResultsRecent'
  <2> SUFFICES ASSUME NEW c \in Callers, call'[c].pc = "done"
               PROVE  \/ /\ call'[c].result \in Answers
                         /\ lastTrue'[call'[c].addr][call'[c].result]
                              < TTL + Timeout + call'[c].waited
                      \/ call'[c].result = Fallback /\ (call'[c].ill \/ ~enabled)
    BY <1>1, <1>2 DEF ResultsRecent
  <2>1. /\ call[c].pc = "done" /\ call'[c].addr = call[c].addr
        /\ call'[c].result = call[c].result /\ call'[c].ill = call[c].ill
        /\ call'[c].waited = call[c].waited + 1
    BY <1>7
  <2>2. call[c].addr \in Addrs /\ call[c].waited \in 0 .. Timeout
    BY <1>3, <2>1, CallKinds
  <2>3. CASE call[c].result = Fallback /\ (call[c].ill \/ ~enabled)
    BY <2>1, <2>3
  <2>4. CASE /\ call[c].result \in Answers
             /\ lastTrue[call[c].addr][call[c].result] < TTL + Timeout + call[c].waited
    <3>1. lastTrue'[call[c].addr][call[c].result] < TTL + Timeout + (call[c].waited + 1)
      BY <1>2, <1>6, <2>2, <2>4
    <3>2. QED
      BY <2>1, <2>4, <3>1
  <2>5. QED
    BY <2>1, <2>3, <2>4 DEF IInv, ResultsRecent
<1>14. QED
  BY <1>9, <1>10, <1>11, <1>12, <1>13 DEF IInv

(* An empty cache, nobody asking.                                          *)
LEMMA InitHolds == Init => IInv
<1> SUFFICES ASSUME Init PROVE IInv
  OBVIOUS
<1>1. /\ Limit \in Nat /\ TTL \in Nat \ {0} /\ Timeout \in Nat
  BY TimeAssumption DEF Limit
<1> HIDE DEF Limit
<1>2. Shape
  <2>1. cache \in [Addrs -> Entry]
    BY <1>1 DEF Init, Entry, NoEntry
  <2>2. lastTrue \in [Addrs -> [Answers -> 0 .. Limit]]
    BY <1>1 DEF Init
  <2>3. QED
    BY <2>1, <2>2 DEF Init, Shape
<1>3. TruthIsNow
  BY DEF Init, TruthIsNow
<1>4. AnswersRecent /\ ResultsRecent
  BY DEF Init, AnswersRecent, ResultsRecent, NoCall
<1>5. EntriesRecent
  BY <1>1 DEF Init, EntriesRecent, Fresh, NoEntry
<1>6. QED
  BY <1>2, <1>3, <1>4, <1>5 DEF IInv

(* Every step keeps the invariant.                                         *)
LEMMA NextKeeps == IInv /\ [Next]_vars => IInv'
<1> SUFFICES ASSUME IInv, [Next]_vars PROVE IInv'
  OBVIOUS
<1>1. CASE \E c \in Callers : \E a \in Addrs : GetScoreResult(c, a) \/ GetCachedDiscount(c, a)
  BY <1>1, LookupKeeps DEF GetScoreResult, GetCachedDiscount
<1>2. CASE \E c \in Callers : Serve(c)
  BY <1>2, ServeKeeps, StoreKeeps DEF Serve
<1>3. CASE ClearCache \/ Outage \/ Recovery \/ Tick
  BY <1>3, ClearKeeps, HealthKeeps, TickKeeps
<1>4. CASE \E a \in Addrs : \E r \in Answers : Rescore(a, r)
  BY <1>4, RescoreKeeps
<1>5. CASE UNCHANGED vars
  <2>1. /\ Answers' = Answers /\ Fallback' = Fallback /\ Limit' = Limit
        /\ Asking' = Asking /\ Answered' = Answered /\ DoneCall' = DoneCall /\ Entry' = Entry
    BY <1>5, SameClient DEF vars, Limit
  <2>2. QED
    BY <1>5, <2>1
       DEF vars, IInv, Shape, TruthIsNow, AnswersRecent, EntriesRecent, ResultsRecent, Fresh
<1>6. QED
  BY <1>1, <1>2, <1>3, <1>4, <1>5 DEF Next

(* It therefore always holds.                                              *)
LEMMA SpecKeeps == Spec => []IInv
<1>1. Init => IInv
  BY InitHolds
<1>2. IInv /\ [Next]_vars => IInv'
  BY NextKeeps
<1>3. QED
  BY <1>1, <1>2, PTL DEF Spec

-----------------------------------------------------------------------------

(* The default a failed lookup gives is worth nothing (client.go:125,      *)
(* 153-159).                                                               *)
LEMMA FallbackWorthless == Worth(Fallback) = 0
  BY DEF Worth, Fallback, EffectiveScore

(* Whatever a lookup gives was worth the same to the service less than TTL *)
(* plus two time-outs ago, or it is the worthless default of a lookup that *)
(* met an outage or a client that is off (client.go:104-139,               *)
(* model.go:168-190).                                                      *)
THEOREM LookupsAreRecent == Spec => []WorthIsRecent
<1>1. IInv => WorthIsRecent
  <2> SUFFICES ASSUME IInv, NEW c \in Callers, call[c].pc = "done"
               PROVE  \/ \E r \in Answers : /\ lastTrue[call[c].addr][r] < Limit
                                            /\ Worth(r) = Worth(call[c].result)
                      \/ Worth(call[c].result) = 0 /\ (call[c].ill \/ ~enabled)
    BY DEF WorthIsRecent
  <2>1. CASE call[c].result = Fallback /\ (call[c].ill \/ ~enabled)
    <3>1. Worth(call[c].result) = 0
      <4> HIDE DEF Worth, Fallback
      <4>1. QED
        BY <2>1, FallbackWorthless
    <3>2. QED
      BY <2>1, <3>1
  <2>2. CASE /\ call[c].result \in Answers
             /\ lastTrue[call[c].addr][call[c].result] < TTL + Timeout + call[c].waited
    <3>1. call[c].addr \in Addrs /\ call[c].waited \in 0 .. Timeout
      BY CallKinds DEF IInv, Shape, Calls
    <3>2. lastTrue[call[c].addr][call[c].result] \in Nat
      BY <2>2, <3>1, TimeAssumption DEF IInv, Shape, Limit
    <3>3. lastTrue[call[c].addr][call[c].result] < Limit
      BY <2>2, <3>1, <3>2, TimeAssumption DEF Limit
    <3>4. QED
      BY <2>2, <3>3
  <2>3. QED
    BY <2>1, <2>2 DEF IInv, ResultsRecent
<1>2. QED
  BY <1>1, SpecKeeps, PTL
=============================================================================

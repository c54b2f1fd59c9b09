----------------------------- MODULE SenderCache -----------------------------
(***************************************************************************)
(* What the node knows about senders comes from outside and is cached: the *)
(* TasteScore client (internal/tastescore) asks an HTTP service for the    *)
(* score that puts a transaction into its lane, and the fee model          *)
(* (internal/fees) asks a SovereigntyProvider for a discount.  The two     *)
(* caches follow the same steps: look the sender up under the read lock,   *)
(* ask without any lock, store under the write lock.  RPC goroutines do    *)
(* this at the same time and for the same sender, the service changes its  *)
(* mind, fails, and answers late.                                          *)
(*                                                                         *)
(* Time passes in ticks.  Instead of clock readings the model keeps ages:  *)
(* that of a cache entry, up to TTL, and that of a request, up to Timeout. *)
(* Timeout bounds a lookup from its start until its result is used: it is  *)
(* http.Client.Timeout plus what the goroutine takes for its own steps     *)
(* (the provider of discounts is assumed to answer in time as well).       *)
(* Scores, confidences and discounts are in basis points.                  *)
(***************************************************************************)
EXTENDS Integers

CONSTANTS
  Callers,       \* goroutines serving RPC requests
  Addrs,         \* senders
  ScoreResults,  \* ScoreResults the service may give: [composite, confidence]
  Discounts,     \* discounts the provider may give
  TTL,           \* CacheTTL, discountTTL
  Timeout        \* how long a lookup may take

Bps == 0 .. 10000

ASSUME ResultAssumption == /\ ScoreResults \subseteq [composite : Bps, confidence : Bps]
                           /\ Discounts \subseteq Bps
ASSUME TimeAssumption   == TTL \in Nat \ {0} /\ Timeout \in Nat

VARIABLES
  client,    \* which of the two caches this is: "scores" or "discounts"
  enabled,   \* cfg.Enabled; provider # nil
  cache,     \* sender -> entry
  call,      \* what each goroutine is doing
  truth,     \* what the service would answer now
  healthy,   \* whether it answers at all, and in time
  lastTrue   \* history: ticks since a result was the truth, up to Limit

vars == <<client, enabled, cache, call, truth, healthy, lastTrue>>

Answers == IF client = "scores" THEN ScoreResults ELSE Discounts
Limit   == TTL + 2 * Timeout

(* The result of a failed request and of a client that is switched off.    *)
Fallback == IF client = "scores" THEN [composite |-> 5000, confidence |-> 0] ELSE 0

NoEntry == [result |-> Fallback, age |-> TTL]
NoCall  == [pc |-> "idle"]

-----------------------------------------------------------------------------
EffectiveScore(result) == (result.composite * result.confidence) \div 10000

(* What a result is good for: the score a transaction is laned by, or the  *)
(* discount on the fee.                                                    *)
Worth(result) == IF client = "scores" THEN EffectiveScore(result) ELSE result

Fresh(a) == cache[a].age < TTL

Init ==
  /\ client \in {"scores", "discounts"} /\ enabled \in BOOLEAN
  /\ cache = [a \in Addrs |-> NoEntry]
  /\ call = [c \in Callers |-> NoCall]
  /\ truth \in [Addrs -> Answers] /\ healthy = TRUE
  /\ lastTrue = [a \in Addrs |-> [r \in Answers |-> IF r = truth[a] THEN 0 ELSE Limit]]

-----------------------------------------------------------------------------
(* One lookup.  pc is "asking" until the service has made up its mind,     *)
(* "answered" until its answer has been received and stored, "done" until  *)
(* the goroutine goes on with the result.  ill records that the service    *)
(* was out of order at some time during the call.                          *)

Done(a, result, waited, ill) ==
  [pc |-> "done", addr |-> a, result |-> result, waited |-> waited, ill |-> ill]

SwitchedOff(c, a) ==
  /\ ~enabled /\ call[c].pc = "idle"
  /\ call' = [call EXCEPT ![c] = Done(a, Fallback, 0, FALSE)]
  /\ UNCHANGED <<client, enabled, cache, truth, healthy, lastTrue>>

(* Faulty variant: an entry that is used counts as new.                    *)
HitRenews(c, a) ==
  /\ enabled /\ call[c].pc = "idle" /\ Fresh(a)
  /\ call' = [call EXCEPT ![c] = Done(a, cache[a].result, 0, FALSE)]
  /\ cache' = [cache EXCEPT ![a].age = 0]
  /\ UNCHANGED <<client, enabled, truth, healthy, lastTrue>>

Hit(c, a) ==
  /\ enabled /\ call[c].pc = "idle" /\ Fresh(a)
  /\ call' = [call EXCEPT ![c] = Done(a, cache[a].result, 0, FALSE)]
  /\ UNCHANGED <<client, enabled, cache, truth, healthy, lastTrue>>

Miss(c, a) ==
  /\ enabled /\ call[c].pc = "idle" /\ ~Fresh(a)
  /\ call' = [call EXCEPT ![c] = [pc |-> "asking", addr |-> a, waited |-> 0, ill |-> ~healthy]]
  /\ UNCHANGED <<client, enabled, cache, truth, healthy, lastTrue>>

GetScoreResult(c, a)    == client = "scores" /\ (SwitchedOff(c, a) \/ Hit(c, a) \/ Miss(c, a))
GetCachedDiscount(c, a) == client = "discounts" /\ (SwitchedOff(c, a) \/ Hit(c, a) \/ Miss(c, a))

(* The service answers with what it thinks now; the answer travels.        *)
Answer(c) ==
  /\ call[c].pc = "asking" /\ healthy
  /\ call' = [call EXCEPT ![c] = [pc |-> "answered", addr |-> call[c].addr, ill |-> call[c].ill,
                                  waited |-> call[c].waited, result |-> truth[call[c].addr]]]
  /\ UNCHANGED <<client, enabled, cache, truth, healthy, lastTrue>>

Store(c) ==
  /\ call[c].pc = "answered"
  /\ cache' = [cache EXCEPT ![call[c].addr] = [result |-> call[c].result, age |-> 0]]
  /\ call' = [call EXCEPT ![c] = Done(call[c].addr, call[c].result, call[c].waited, call[c].ill)]
  /\ UNCHANGED <<client, enabled, truth, healthy, lastTrue>>

(* Faulty variant: the default is cached like an answer.                   *)
FailCaches(c) ==
  /\ call[c].pc \in {"asking", "answered"} /\ ~healthy
  /\ cache' = [cache EXCEPT ![call[c].addr] = [result |-> Fallback, age |-> 0]]
  /\ call' = [call EXCEPT ![c] = Done(call[c].addr, Fallback, call[c].waited, TRUE)]
  /\ UNCHANGED <<client, enabled, truth, healthy, lastTrue>>

(* Any error of fetchScore or GetFeeDiscount, a time-out included: the     *)
(* caller gets the default, the cache stays as it is.                      *)
Fail(c) ==
  /\ call[c].pc \in {"asking", "answered"} /\ ~healthy
  /\ call' = [call EXCEPT ![c] = Done(call[c].addr, Fallback, call[c].waited, TRUE)]
  /\ UNCHANGED <<client, enabled, cache, truth, healthy, lastTrue>>

(* The goroutine puts the transaction into the pool, or quotes the fee.    *)
Use(c) ==
  /\ call[c].pc = "done"
  /\ call' = [call EXCEPT ![c] = NoCall]
  /\ UNCHANGED <<client, enabled, cache, truth, healthy, lastTrue>>

ClearCache ==
  /\ client = "scores"
  /\ cache' = [a \in Addrs |-> NoEntry]
  /\ UNCHANGED <<client, enabled, call, truth, healthy, lastTrue>>

-----------------------------------------------------------------------------
(* The service and the time.                                               *)

Rescore(a, r) ==
  /\ r # truth[a]
  /\ truth' = [truth EXCEPT ![a] = r]
  /\ lastTrue' = [lastTrue EXCEPT ![a][r] = 0]
  /\ UNCHANGED <<client, enabled, cache, call, healthy>>

Outage ==
  /\ healthy /\ healthy' = FALSE
  /\ call' = [c \in Callers |-> IF call[c].pc \in {"asking", "answered"}
                                THEN [call[c] EXCEPT !.ill = TRUE] ELSE call[c]]
  /\ UNCHANGED <<client, enabled, cache, truth, lastTrue>>

Recovery ==
  /\ ~healthy /\ healthy' = TRUE
  /\ UNCHANGED <<client, enabled, cache, call, truth, lastTrue>>

(* No time passes beyond the time-out of a lookup.                         *)
Tick ==
  /\ \A c \in Callers : call[c].pc # "idle" => call[c].waited < Timeout
  /\ call' = [c \in Callers |-> IF call[c].pc = "idle" THEN NoCall
                                ELSE [call[c] EXCEPT !.waited = @ + 1]]
  /\ cache' = [a \in Addrs |-> IF Fresh(a) THEN [cache[a] EXCEPT !.age = @ + 1] ELSE NoEntry]
  /\ lastTrue' = [a \in Addrs |-> [r \in DOMAIN lastTrue[a] |->
                    IF r = truth[a] THEN 0
                    ELSE IF lastTrue[a][r] < Limit THEN lastTrue[a][r] + 1 ELSE Limit]]
  /\ UNCHANGED <<client, enabled, truth, healthy>>

Serve(c) == Answer(c) \/ Store(c) \/ Fail(c) \/ Use(c)

Next ==
  \/ \E c \in Callers : \/ \E a \in Addrs : GetScoreResult(c, a) \/ GetCachedDiscount(c, a)
                        \/ Serve(c)
  \/ ClearCache
  \/ \E a \in Addrs : \E r \in Answers : Rescore(a, r)
  \/ Outage \/ Recovery \/ Tick

(* Time goes on, and a goroutine that has begun a lookup keeps running;    *)
(* nobody has to look anything up.                                         *)
Spec == Init /\ [][Next]_vars /\ SF_vars(Tick) /\ \A c \in Callers : WF_vars(Serve(c))

-----------------------------------------------------------------------------
(* Properties.                                                             *)

(* A transaction is laned, and a fee discounted, by what the sender was    *)
(* worth to the service less than TTL plus two lookups ago (the one that   *)
(* filled the cache and the one that uses it), although an entry's age     *)
(* starts when it is stored, an answer may overwrite a newer one, and      *)
(* nobody tells the cache of a change (client.go:111-139,                  *)
(* model.go:168-190).  The one exception is a lookup during an outage, or  *)
(* with the client switched off: it is worth nothing, and does not outlast *)
(* the outage.                                                             *)
WorthIsRecent ==
  \A c \in Callers : call[c].pc = "done" =>
    LET a == call[c].addr  w == Worth(call[c].result)
    IN  \/ \E r \in Answers : lastTrue[a][r] < Limit /\ Worth(r) = w
        \/ w = 0 /\ (call[c].ill \/ ~enabled)

Converges(kind, a, r) ==
  <>[](client = kind /\ enabled /\ healthy /\ truth[a] = r) =>
    <>[](\A c \in Callers :
           client = kind /\ call[c].pc = "done" /\ call[c].addr = a => call[c].result = r)

(* Once the service is back and has made up its mind, outdated answers and *)
(* defaults die out: from some time on every lookup gives the truth        *)
(* (client.go:113-118, 134-137).                                           *)
LookupsConverge ==
  \A a \in Addrs : /\ \A r \in ScoreResults : Converges("scores", a, r)
                   /\ \A r \in Discounts : Converges("discounts", a, r)
=============================================================================

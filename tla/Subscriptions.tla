---------------------------- MODULE Subscriptions ----------------------------
(***************************************************************************)
(* The WebSocket subscription manager (internal/rpc/websocket.go).  One    *)
(* goroutine per connection reads requests, changes the subscriptions      *)
(* under m.mu and writes responses; BroadcastNewHead and                   *)
(* BroadcastNewPendingTx walk the subscriptions holding m.mu for reading   *)
(* and write notifications.  No write has a deadline, so a client that     *)
(* stops reading holds up whoever writes to it, and only notifications of  *)
(* one subscription exclude each other: a response and a notification, or  *)
(* notifications of two subscriptions, may be written to one connection at *)
(* once, which the WebSocket library answers with a panic if it notices.   *)
(*                                                                         *)
(* Nothing in the repository calls the two broadcasts yet.  The model has  *)
(* one goroutine per feed call them, and nobody recover its panics.        *)
(***************************************************************************)
EXTENDS Integers, Functions

CONSTANTS
  Conns,     \* connections, each used once
  SubTypes,  \* subscription types handleSubscribe supports
  Feeds,     \* those that are broadcast: "logs" never is
  NoConn,
  MaxSubs    \* bound on nextID

ASSUME FeedAssumption == Feeds \subseteq SubTypes /\ NoConn \notin Conns /\ MaxSubs \in Nat

VARIABLES
  nextID,       \* the last id given out
  subscribers,  \* m.subscribers: id -> wsSubscription
  writer,       \* goroutine that has called m.mu.Lock, others queue behind it
  reader,       \* what the goroutine of each connection is doing
  cast,         \* what the goroutine of each feed is doing
  conn,         \* "live", "stalled": writes block, "broken": they fail
  crashed       \* a panic has ended the process

vars == <<nextID, subscribers, writer, reader, cast, conn, crashed>>

Ids == 1 .. MaxSubs

At(c, pc) == ~crashed /\ reader[c].pc = pc
Reading   == [pc |-> "reading"]
Idle      == [pc |-> "idle"]

Init ==
  /\ nextID = 0 /\ subscribers = << >> /\ writer = NoConn
  /\ reader = [c \in Conns |-> Reading]
  /\ cast = [f \in Feeds |-> Idle]
  /\ conn = [c \in Conns |-> "live"]
  /\ crashed = FALSE

-----------------------------------------------------------------------------
(* m.mu, a sync.RWMutex.  A Lock waits for the goroutines that hold the    *)
(* mutex for reading; an RLock that comes after it waits until its Unlock, *)
(* and then goes first.  What is done under Lock never blocks, so the      *)
(* whole critical section is one step.                                     *)

(* The walk of a broadcast that has just locked the mutex, with map subs.  *)
(* What is closed now is skipped: nothing else changes it during the walk. *)
Walk(f, subs) ==
  [pc |-> "walking", todo |-> {i \in DOMAIN subs : subs[i].type = f /\ ~subs[i].closed},
   at |-> 0, to |-> NoConn, got |-> {}]

Lock(c) ==
  /\ reader[c].pc \in {"subscribing", "unsubscribing", "cleaning"} /\ ~crashed
  /\ writer = NoConn /\ writer' = c
  /\ UNCHANGED <<nextID, subscribers, reader, cast, conn, crashed>>

Locked(c) == writer = c /\ \A f \in Feeds : cast[f].pc # "walking"

(* Unlock, with map subs.                                                  *)
Unlock(subs) ==
  /\ writer' = NoConn
  /\ cast' = [f \in Feeds |-> IF cast[f].pc = "waiting" THEN Walk(f, subs) ELSE cast[f]]

-----------------------------------------------------------------------------
(* HandleWS: the goroutine of connection c.                                *)

(* A request that is rejected, or any other method.                        *)
OtherRequest(c) ==
  /\ At(c, "reading") /\ conn[c] # "broken"
  /\ reader' = [reader EXCEPT ![c] = [pc |-> "writing"]]
  /\ UNCHANGED <<nextID, subscribers, writer, cast, conn, crashed>>

(* nextID.Add and the new object.                                          *)
SubscribeRequest(c, type) ==
  /\ At(c, "reading") /\ conn[c] # "broken" /\ nextID < MaxSubs
  /\ nextID' = nextID + 1
  /\ reader' = [reader EXCEPT ![c] = [pc |-> "subscribing", id |-> nextID + 1, type |-> type]]
  /\ UNCHANGED <<subscribers, writer, cast, conn, crashed>>

Subscribe(c) ==
  /\ At(c, "subscribing") /\ Locked(c)
  /\ subscribers' = [i \in DOMAIN subscribers \cup {reader[c].id} |->
                       IF i = reader[c].id
                       THEN [conn |-> c, type |-> reader[c].type, closed |-> FALSE]
                       ELSE subscribers[i]]
  /\ reader' = [reader EXCEPT ![c] = [pc |-> "writing"]]
  /\ Unlock(subscribers')
  /\ UNCHANGED <<nextID, conn, crashed>>

(* Any id may be named, not only one's own.                                *)
UnsubscribeRequest(c, id) ==
  /\ At(c, "reading") /\ conn[c] # "broken" /\ id <= nextID
  /\ reader' = [reader EXCEPT ![c] = [pc |-> "unsubscribing", id |-> id]]
  /\ UNCHANGED <<nextID, subscribers, writer, cast, conn, crashed>>

(* Deletes subscriptions from the map.  They are closed, too, which nobody *)
(* sees: a broadcast that has hold of one holds m.mu, and sub.mu is free   *)
(* for the same reason.                                                    *)
Drop(ids) == subscribers' = Restrict(subscribers, DOMAIN subscribers \ ids)

(* Faulty variants: the map is changed without the lock; the early return  *)
(* for an unknown id forgets to unlock.                                    *)
UnsubscribeUnlocked(c) ==
  /\ At(c, "unsubscribing") /\ writer = c
  /\ Drop({reader[c].id})
  /\ reader' = [reader EXCEPT ![c] = [pc |-> "writing"]]
  /\ Unlock(subscribers')
  /\ UNCHANGED <<nextID, conn, crashed>>

UnsubscribeKeepsLock(c) ==
  /\ At(c, "unsubscribing") /\ Locked(c)
  /\ Drop({reader[c].id})
  /\ reader' = [reader EXCEPT ![c] = [pc |-> "writing"]]
  /\ IF reader[c].id \in DOMAIN subscribers THEN Unlock(subscribers') ELSE UNCHANGED <<writer, cast>>
  /\ UNCHANGED <<nextID, conn, crashed>>

Unsubscribe(c) ==
  /\ At(c, "unsubscribing") /\ Locked(c)
  /\ Drop({reader[c].id})
  /\ reader' = [reader EXCEPT ![c] = [pc |-> "writing"]]
  /\ Unlock(subscribers')
  /\ UNCHANGED <<nextID, conn, crashed>>

(* writeWSResponse: the write ends when the client takes the response or   *)
(* the connection turns out to be broken; the error is ignored.            *)
WriteWSResponse(c) ==
  /\ At(c, "writing") /\ conn[c] # "stalled"
  /\ reader' = [reader EXCEPT ![c] = Reading]
  /\ UNCHANGED <<nextID, subscribers, writer, cast, conn, crashed>>

(* ReadMessage fails.  When it is the client that closes its side, or      *)
(* breaks the protocol, the library has sent a close message by then, and  *)
(* writes fail as they do on a connection that is lost.                    *)
ReadError(c) ==
  /\ At(c, "reading") /\ conn[c] = "broken"
  /\ reader' = [reader EXCEPT ![c] = [pc |-> "cleaning"]]
  /\ UNCHANGED <<nextID, subscribers, writer, cast, conn, crashed>>

(* Faulty variant: deletes the first subscription of the connection only.  *)
CleanupConnFirst(c) ==
  /\ At(c, "cleaning") /\ Locked(c)
  /\ LET mine == {i \in DOMAIN subscribers : subscribers[i].conn = c}
     IN  Drop({i \in mine : \A j \in mine : i <= j})
  /\ reader' = [reader EXCEPT ![c] = [pc |-> "gone"]]
  /\ Unlock(subscribers')
  /\ UNCHANGED <<nextID, conn, crashed>>

(* cleanupConn, and the deferred conn.Close.                               *)
CleanupConn(c) ==
  /\ At(c, "cleaning") /\ Locked(c)
  /\ Drop({i \in DOMAIN subscribers : subscribers[i].conn = c})
  /\ reader' = [reader EXCEPT ![c] = [pc |-> "gone"]]
  /\ Unlock(subscribers')
  /\ UNCHANGED <<nextID, conn, crashed>>

-----------------------------------------------------------------------------
(* BroadcastNewHead, BroadcastNewPendingTx: the goroutine of feed f.       *)

Broadcast(f) ==
  /\ ~crashed /\ cast[f].pc = "idle"
  /\ cast' = [cast EXCEPT ![f] = IF writer = NoConn THEN Walk(f, subscribers) ELSE [pc |-> "waiting"]]
  /\ UNCHANGED <<nextID, subscribers, writer, reader, conn, crashed>>

Walking(f) == ~crashed /\ cast[f].pc = "walking"

(* The next subscription, in the order Go ranges over the map: any.        *)
BeginNotify(f, i) ==
  /\ Walking(f) /\ cast[f].at = 0 /\ i \in cast[f].todo
  /\ cast' = [cast EXCEPT ![f].todo = @ \ {i}, ![f].at = i, ![f].to = subscribers[i].conn]
  /\ UNCHANGED <<nextID, subscribers, writer, reader, conn, crashed>>

(* Faulty variant: the first failure ends the walk.                        *)
EndNotifyBreaks(f) ==
  /\ Walking(f) /\ cast[f].at # 0
  /\ LET i == cast[f].at  c == cast[f].to
     IN  /\ conn[c] # "stalled"
         /\ cast' = [cast EXCEPT ![f].at = 0, ![f].to = NoConn,
                                 ![f].todo = IF conn[c] = "live" THEN @ ELSE {},
                                 ![f].got = IF conn[c] = "live" THEN @ \cup {i} ELSE @]
         /\ subscribers' = [subscribers EXCEPT ![i].closed = conn[c] = "broken"]
  /\ UNCHANGED <<nextID, writer, reader, conn, crashed>>

(* The write ends; a failed one closes the subscription.                   *)
EndNotify(f) ==
  /\ Walking(f) /\ cast[f].at # 0
  /\ LET i == cast[f].at  c == cast[f].to
     IN  /\ conn[c] # "stalled"
         /\ cast' = [cast EXCEPT ![f].at = 0, ![f].to = NoConn,
                                 ![f].got = IF conn[c] = "live" THEN @ \cup {i} ELSE @]
         /\ subscribers' = [subscribers EXCEPT ![i].closed = conn[c] = "broken"]
  /\ UNCHANGED <<nextID, writer, reader, conn, crashed>>

EndBroadcast(f) ==
  /\ Walking(f) /\ cast[f].at = 0 /\ cast[f].todo = {}
  /\ cast' = [cast EXCEPT ![f] = Idle]
  /\ UNCHANGED <<nextID, subscribers, writer, reader, conn, crashed>>

-----------------------------------------------------------------------------
(* The clients, and the library's check for concurrent writes.             *)

Notifying(f, c) == Walking(f) /\ cast[f].to = c

(* That a client does not read is felt only once a write is under way.     *)
Stall(c)  == /\ conn[c] = "live" /\ (At(c, "writing") \/ \E f \in Feeds : Notifying(f, c))
             /\ conn' = [conn EXCEPT ![c] = "stalled"]
             /\ UNCHANGED <<nextID, subscribers, writer, reader, cast, crashed>>
Resume(c) == /\ conn[c] = "stalled" /\ conn' = [conn EXCEPT ![c] = "live"]
             /\ UNCHANGED <<nextID, subscribers, writer, reader, cast, crashed>>
Break(c)  == /\ conn[c] # "broken" /\ conn' = [conn EXCEPT ![c] = "broken"]
             /\ UNCHANGED <<nextID, subscribers, writer, reader, cast, crashed>>

(* The reader's panic ends with its request: net/http recovers it, and the *)
(* deferred conn.Close runs, but not cleanupConn.                          *)
ReaderPanics(c) ==
  /\ At(c, "writing") /\ \E f \in Feeds : Notifying(f, c)
  /\ reader' = [reader EXCEPT ![c] = [pc |-> "panicked"]]
  /\ conn' = [conn EXCEPT ![c] = "broken"]
  /\ UNCHANGED <<nextID, subscribers, writer, cast, crashed>>

(* That of a broadcast ends the process.                                   *)
BroadcastPanics(f) ==
  /\ \E c \in Conns : /\ Notifying(f, c)
                      /\ At(c, "writing") \/ \E g \in Feeds \ {f} : Notifying(g, c)
  /\ crashed' = TRUE /\ nextID' = 0 /\ subscribers' = << >> /\ writer' = NoConn
  /\ reader' = [c \in Conns |-> [pc |-> "gone"]]
  /\ cast' = [g \in Feeds |-> Idle]
  /\ conn' = [c \in Conns |-> "broken"]

Step(c) == \/ Subscribe(c) \/ Unsubscribe(c) \/ CleanupConn(c)
           \/ WriteWSResponse(c)
Visit(f) == \/ \E i \in Ids : BeginNotify(f, i)
            \/ EndNotify(f) \/ EndBroadcast(f)

Next ==
  \/ \E c \in Conns :
       \/ OtherRequest(c) \/ ReadError(c) \/ Lock(c) \/ Step(c)
       \/ \E t \in SubTypes : SubscribeRequest(c, t)
       \/ \E i \in Ids : UnsubscribeRequest(c, i)
       \/ Stall(c) \/ Resume(c) \/ Break(c) \/ ReaderPanics(c)
  \/ \E f \in Feeds : Broadcast(f) \/ Visit(f) \/ BroadcastPanics(f)

(* Goroutines keep running, which includes noticing that the connection is *)
(* broken; nobody waits for ever for a mutex that is released again and    *)
(* again (sync.Mutex hands it over after a millisecond).  Nobody has to    *)
(* connect, request or broadcast, and a client may stay stalled.           *)
Fairness ==
  /\ \A c \in Conns : WF_vars(ReadError(c) \/ Step(c)) /\ SF_vars(Lock(c))
  /\ \A f \in Feeds : WF_vars(Visit(f))

Spec == Init /\ [][Next]_vars /\ Fairness

-----------------------------------------------------------------------------
(* Properties.                                                             *)

(* A subscription that has been cancelled or cleaned up gets no more       *)
(* notifications: from before the response to eth_unsubscribe is written   *)
(* none is under way or still to come, from whichever walk, so that after  *)
(* the response the client sees none (websocket.go:154-171, 176-203).      *)
SilentAfterUnsubscribe ==
  \A f \in Feeds : cast[f].pc = "walking" =>
    cast[f].todo \cup ({cast[f].at} \ {0}) \subseteq DOMAIN subscribers

(* A broadcast reaches every subscription of its type that was registered  *)
(* when it began and whose connection works, whatever other connections do *)
(* and while readers come and go (websocket.go:179-203).                   *)
NobodyMissed ==
  \A f \in Feeds : cast[f].pc = "walking" /\ cast[f].at = 0 /\ cast[f].todo = {} =>
    \A i \in DOMAIN subscribers :
      subscribers[i].type = f /\ conn[subscribers[i].conn] # "broken" => i \in cast[f].got

NoneStalled == \A c \in Conns : conn[c] # "stalled"

(* The subscriptions of a connection that breaks are eventually gone for   *)
(* good, also those it was just asking for, unless a client stalls for     *)
(* ever or the connection's goroutine panics (websocket.go:242-255).       *)
BrokenLeave ==
  \A c \in Conns :
    <>[]NoneStalled /\ <>(conn[c] = "broken") =>
      <>[](reader[c].pc = "panicked" \/ \A i \in DOMAIN subscribers : subscribers[i].conn # c)

(* Every request is eventually answered, or its connection is over: the    *)
(* lock is always handed on, and broadcasts that follow one another do not *)
(* keep a reader out.  The proviso is needed: a client that stays stalled  *)
(* keeps a broadcast, and through its lock everybody (websocket.go:176).   *)
RequestsAnswered ==
  <>[]NoneStalled =>
    \A c \in Conns : reader[c].pc # "reading" ~> reader[c].pc \in {"reading", "gone", "panicked"}
=============================================================================

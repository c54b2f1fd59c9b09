------------------------ MODULE Subscriptions_proofs ------------------------
(***************************************************************************)
(* What a broadcast promises its subscribers, for any number of            *)
(* connections, subscriptions and feeds: nobody who has left is notified,  *)
(* and nobody who is there is missed.                                      *)
(*                                                                         *)
(* Both rest on the mutex.  The set of subscriptions changes only in a     *)
(* critical section, which waits until no feed is walking; what a walk     *)
(* copied when it began is therefore still true while it lasts.  That a    *)
(* walk may skip the subscriptions that are closed when it begins needs    *)
(* that only those of broken connections are, and so does the write it is  *)
(* in, which must be to the connection of the subscription it will close.  *)
(***************************************************************************)
EXTENDS Subscriptions, TLAPS

Subscription == [conn : Conns, type : SubTypes, closed : BOOLEAN]
WalkState == [pc : {"walking"}, todo : SUBSET (Nat \ {0}), at : Nat,
              to : Conns \cup {NoConn}, got : SUBSET (Nat \ {0})]

Shape ==
  /\ nextID \in Nat
  /\ DOMAIN subscribers \subseteq Nat \ {0}
  /\ subscribers \in [DOMAIN subscribers -> Subscription]
  /\ conn \in [Conns -> {"live", "stalled", "broken"}]
  /\ cast \in [Feeds -> {Idle, [pc |-> "waiting"]} \cup WalkState]
  /\ DOMAIN reader = Conns
  /\ \A c \in Conns : reader[c].pc = "subscribing" =>
                        reader[c].id \in Nat \ {0} /\ reader[c].type \in SubTypes

(* Only what a write to a broken connection has closed is closed.          *)
ClosedAreBroken ==
  \A i \in DOMAIN subscribers :
    subscribers[i].closed => conn[subscribers[i].conn] = "broken"

(* A walk writes to the connection of a subscription that is registered.   *)
WalkSound ==
  \A f \in Feeds : cast[f].pc = "walking" /\ cast[f].at # 0 =>
    /\ cast[f].at \in DOMAIN subscribers
    /\ cast[f].to = subscribers[cast[f].at].conn

(* Whom a walk should reach is still to come, being written to, or done.   *)
WalkComplete ==
  \A f \in Feeds : cast[f].pc = "walking" =>
    \A i \in DOMAIN subscribers :
      subscribers[i].type = f /\ conn[subscribers[i].conn] # "broken" =>
        i \in cast[f].todo \cup {cast[f].at} \cup cast[f].got

IInv == /\ Shape /\ SilentAfterUnsubscribe /\ ClosedAreBroken
        /\ WalkSound /\ WalkComplete


-----------------------------------------------------------------------------

(* A walk that begins with a given map.                                    *)
LEMMA WalkBegins ==
  ASSUME NEW f \in Feeds, NEW subs, DOMAIN subs \subseteq Nat \ {0}
  PROVE  /\ Walk(f, subs) \in WalkState
         /\ Walk(f, subs).pc = "walking" /\ Walk(f, subs).at = 0
         /\ Walk(f, subs).todo = {i \in DOMAIN subs : subs[i].type = f /\ ~subs[i].closed}
  BY DEF Walk, WalkState

(* The states of a feed's goroutine.                                       *)
LEMMA CastStates ==
  ASSUME Shape, NEW f \in Feeds
  PROVE  /\ cast[f].pc \in {"idle", "waiting", "walking"}
         /\ cast[f].pc = "walking" <=> cast[f] \in WalkState
         /\ cast[f].pc = "idle" <=> cast[f] = Idle
         /\ cast[f].pc = "waiting" <=> cast[f] = [pc |-> "waiting"]
  BY DEF Shape, Idle, WalkState

(* The end of a critical section: the broadcasts that waited begin their   *)
(* walks on the new map.                                                   *)
LEMMA UnlockKeeps ==
  ASSUME IInv, conn' = conn, \A f \in Feeds : cast[f].pc # "walking", Unlock(subscribers'),
         DOMAIN subscribers' \subseteq Nat \ {0},
         \A i \in DOMAIN subscribers' :
           subscribers'[i].closed => conn[subscribers'[i].conn] = "broken"
  PROVE  /\ cast' \in [Feeds -> {Idle, [pc |-> "waiting"]} \cup WalkState]
         /\ SilentAfterUnsubscribe' /\ ClosedAreBroken' /\ WalkSound' /\ WalkComplete'
<1>1. ASSUME NEW f \in Feeds
      PROVE  \/ cast'[f] = Idle
             \/ /\ cast'[f] \in WalkState /\ cast'[f].at = 0
                /\ cast'[f].todo = {i \in DOMAIN subscribers' :
                                      subscribers'[i].type = f /\ ~subscribers'[i].closed}
  <2>1. cast'[f] = IF cast[f].pc = "waiting" THEN Walk(f, subscribers') ELSE cast[f]
    BY DEF Unlock
  <2>2. CASE cast[f].pc = "waiting"
    BY <2>1, <2>2, WalkBegins
  <2>3. CASE cast[f].pc = "idle"
    BY <2>1, <2>3, CastStates DEF IInv
  <2>4. QED
    BY <2>2, <2>3, CastStates DEF IInv
<1>2. \A f \in Feeds : cast'[f] = Idle => cast'[f].pc = "idle"
  BY DEF Idle
<1>3. cast' \in [Feeds -> {Idle, [pc |-> "waiting"]} \cup WalkState]
  <2>1. cast' = [f \in Feeds |-> cast'[f]]
    BY DEF Unlock
  <2>2. QED
    BY <1>1, <2>1
<1>4. SilentAfterUnsubscribe'
  BY <1>1, <1>2 DEF SilentAfterUnsubscribe
<1>5. ClosedAreBroken'
  BY DEF ClosedAreBroken
<1>6. WalkSound'
  BY <1>1, <1>2 DEF WalkSound
<1>7. WalkComplete'
  BY <1>1, <1>2 DEF WalkComplete
<1>8. QED
  BY <1>3, <1>4, <1>5, <1>6, <1>7

(* What is done under Lock (websocket.go:134-171, 242-255).                *)
LEMMA SubscribeKeeps ==
  ASSUME IInv, NEW c \in Conns, Subscribe(c)
  PROVE  IInv'
<1>1. /\ reader[c].id \in Nat \ {0} /\ reader[c].type \in SubTypes
      /\ \A f \in Feeds : cast[f].pc # "walking"
      /\ conn' = conn /\ nextID' = nextID /\ Unlock(subscribers')
      /\ reader' = [reader EXCEPT ![c] = [pc |-> "writing"]]
  BY DEF Subscribe, IInv, Shape, At, Locked
<1> DEFINE new == [conn |-> c, type |-> reader[c].type, closed |-> FALSE]
<1>2. /\ DOMAIN subscribers' = DOMAIN subscribers \cup {reader[c].id}
      /\ subscribers' = [i \in DOMAIN subscribers' |->
                           IF i = reader[c].id THEN new ELSE subscribers[i]]
  BY DEF Subscribe
<1>3. new \in Subscription /\ new.closed = FALSE
  BY <1>1 DEF Subscription
<1> HIDE DEF new
<1>4. /\ DOMAIN subscribers' \subseteq Nat \ {0}
      /\ subscribers' \in [DOMAIN subscribers' -> Subscription]
  BY <1>1, <1>2, <1>3 DEF IInv, Shape
<1>5. \A i \in DOMAIN subscribers' :
        subscribers'[i].closed => conn[subscribers'[i].conn] = "broken"
  BY <1>2, <1>3 DEF IInv, ClosedAreBroken
<1>6. \A d \in Conns : reader'[d].pc = "subscribing" =>
                         reader'[d].id \in Nat \ {0} /\ reader'[d].type \in SubTypes
  BY <1>1 DEF IInv, Shape
<1>7. /\ cast' \in [Feeds -> {Idle, [pc |-> "waiting"]} \cup WalkState]
      /\ SilentAfterUnsubscribe' /\ ClosedAreBroken' /\ WalkSound' /\ WalkComplete'
  BY <1>1, <1>4, <1>5, UnlockKeeps
<1>8. Shape'
  BY <1>1, <1>4, <1>6, <1>7 DEF IInv, Shape
<1>9. QED
  BY <1>7, <1>8 DEF IInv

(* Taking subscriptions out while holding the lock hurts no walk: no walk  *)
(* is under way.                                                           *)
LEMMA DropKeeps ==
  ASSUME IInv, NEW ids, NEW c \in Conns, NEW pc, pc # "subscribing", Drop(ids), Locked(c),
         Unlock(subscribers'), reader' = [reader EXCEPT ![c] = [pc |-> pc]],
         UNCHANGED <<nextID, conn, crashed>>
  PROVE  IInv'
<1>1. subscribers' = [i \in DOMAIN subscribers \ ids |-> subscribers[i]]
  BY DEF Drop, Restrict
<1>2. /\ DOMAIN subscribers' \subseteq Nat \ {0}
      /\ subscribers' \in [DOMAIN subscribers' -> Subscription]
  BY <1>1 DEF IInv, Shape
<1>3. \A i \in DOMAIN subscribers' :
        subscribers'[i].closed => conn[subscribers'[i].conn] = "broken"
  BY <1>1 DEF IInv, ClosedAreBroken
<1>4. \A d \in Conns : reader'[d].pc = "subscribing" =>
                         reader'[d].id \in Nat \ {0} /\ reader'[d].type \in SubTypes
  BY DEF IInv, Shape
<1>5. /\ cast' \in [Feeds -> {Idle, [pc |-> "waiting"]} \cup WalkState]
      /\ SilentAfterUnsubscribe' /\ ClosedAreBroken' /\ WalkSound' /\ WalkComplete'
  BY <1>2, <1>3, UnlockKeeps DEF Locked
<1>6. Shape'
  BY <1>2, <1>4, <1>5 DEF IInv, Shape
<1>7. QED
  BY <1>5, <1>6 DEF IInv

(* Both ways of dropping subscriptions do so under the lock.               *)
LEMMA UnsubscribeKeeps ==
  ASSUME IInv, NEW c \in Conns, Unsubscribe(c) \/ CleanupConn(c)
  PROVE  IInv'
<1>1. CASE Unsubscribe(c)
  BY <1>1, DropKeeps DEF Unsubscribe
<1>2. CASE CleanupConn(c)
  BY <1>2, DropKeeps DEF CleanupConn
<1>3. QED
  BY <1>1, <1>2


(* A walk begins at once when nobody holds or waits for the lock.          *)
LEMMA BroadcastKeeps ==
  ASSUME IInv, NEW f \in Feeds, Broadcast(f)
  PROVE  IInv'
<1>1. /\ UNCHANGED <<nextID, subscribers, writer, reader, conn, crashed>>
      /\ cast' = [cast EXCEPT ![f] = cast'[f]] /\ DOMAIN cast = Feeds
      /\ cast'[f] = Walk(f, subscribers) \/ cast'[f] = [pc |-> "waiting"]
  BY DEF Broadcast, IInv, Shape
<1>2. \A g \in Feeds : g # f => cast'[g] = cast[g]
  BY <1>1
<1>3. \/ cast'[f] = [pc |-> "waiting"]
      \/ /\ cast'[f] \in WalkState /\ cast'[f].at = 0
         /\ cast'[f].todo = {i \in DOMAIN subscribers :
                               subscribers[i].type = f /\ ~subscribers[i].closed}
  BY <1>1, WalkBegins DEF IInv, Shape
<1>4. Shape'
  <2>1. cast' \in [Feeds -> {Idle, [pc |-> "waiting"]} \cup WalkState]
    BY <1>1, <1>3 DEF IInv, Shape
  <2>2. QED
    BY <1>1, <2>1 DEF IInv, Shape
<1>5. SilentAfterUnsubscribe'
  BY <1>1, <1>2, <1>3 DEF IInv, SilentAfterUnsubscribe
<1>6. ClosedAreBroken'
  BY <1>1 DEF IInv, ClosedAreBroken
<1>7. WalkSound'
  BY <1>1, <1>2, <1>3 DEF IInv, WalkSound
<1>8. WalkComplete'
  BY <1>1, <1>2, <1>3 DEF IInv, WalkComplete, ClosedAreBroken
<1>9. QED
  BY <1>4, <1>5, <1>6, <1>7, <1>8 DEF IInv

(* The next subscription of a walk (websocket.go:180-203).                 *)
LEMMA BeginNotifyKeeps ==
  ASSUME IInv, NEW f \in Feeds, NEW i \in Ids, BeginNotify(f, i)
  PROVE  IInv'
<1>1. /\ UNCHANGED <<nextID, subscribers, writer, reader, conn, crashed>>
      /\ cast[f].pc = "walking" /\ cast[f].at = 0 /\ i \in cast[f].todo
      /\ cast[f] \in WalkState /\ DOMAIN cast = Feeds
      /\ cast' = [cast EXCEPT ![f].todo = @ \ {i}, ![f].at = i, ![f].to = subscribers[i].conn]
  BY CastStates DEF BeginNotify, Walking, IInv, Shape
<1>2. i \in Nat \ {0} /\ i \in DOMAIN subscribers /\ subscribers[i].conn \in Conns
  BY <1>1 DEF IInv, Shape, SilentAfterUnsubscribe, WalkState, Subscription
<1>3. /\ \A g \in Feeds : g # f => cast'[g] = cast[g]
      /\ cast'[f] \in WalkState /\ cast'[f].at = i /\ cast'[f].to = subscribers[i].conn
      /\ cast'[f].todo = cast[f].todo \ {i} /\ cast'[f].got = cast[f].got
  BY <1>1, <1>2 DEF WalkState
<1>4. Shape'
  <2>1. cast' \in [Feeds -> {Idle, [pc |-> "waiting"]} \cup WalkState]
    BY <1>1, <1>3 DEF IInv, Shape
  <2>2. QED
    BY <1>1, <2>1 DEF IInv, Shape
<1>5. SilentAfterUnsubscribe'
  BY <1>1, <1>2, <1>3 DEF IInv, SilentAfterUnsubscribe
<1>6. ClosedAreBroken'
  BY <1>1 DEF IInv, ClosedAreBroken
<1>7. WalkSound'
  BY <1>1, <1>2, <1>3 DEF IInv, WalkSound
<1>8. WalkComplete'
  <2> SUFFICES ASSUME NEW g \in Feeds, cast'[g].pc = "walking", NEW j \in DOMAIN subscribers,
                      subscribers[j].type = g, conn[subscribers[j].conn] # "broken"
               PROVE  j \in cast'[g].todo \cup {cast'[g].at} \cup cast'[g].got
    BY <1>1 DEF WalkComplete
  <2>1. j \in Nat \ {0}
    BY DEF IInv, Shape
  <2>2. CASE g = f
    BY <1>1, <1>3, <2>1, <2>2 DEF IInv, WalkComplete
  <2>3. CASE g # f
    BY <1>3, <2>3 DEF IInv, WalkComplete
  <2>4. QED
    BY <2>2, <2>3
<1>9. QED
  BY <1>4, <1>5, <1>6, <1>7, <1>8 DEF IInv

(* The write of a notification ends (websocket.go:191-200, 222-237).       *)
LEMMA EndNotifyKeeps ==
  ASSUME IInv, NEW f \in Feeds, EndNotify(f)
  PROVE  IInv'
<1> DEFINE i == cast[f].at
           c == cast[f].to
<1>1. /\ UNCHANGED <<nextID, writer, reader, conn, crashed>>
      /\ cast[f].pc = "walking" /\ i # 0 /\ conn[c] # "stalled"
      /\ cast[f] \in WalkState /\ DOMAIN cast = Feeds
      /\ cast' = [cast EXCEPT ![f].at = 0, ![f].to = NoConn,
                              ![f].got = IF conn[c] = "live" THEN @ \cup {i} ELSE @]
      /\ subscribers' = [subscribers EXCEPT ![i].closed = conn[c] = "broken"]
  BY CastStates DEF EndNotify, Walking, IInv, Shape
<1>2. /\ i \in Nat \ {0} /\ i \in DOMAIN subscribers /\ c = subscribers[i].conn
      /\ subscribers[i] \in Subscription /\ c \in Conns
      /\ conn[c] \in {"live", "broken"}
  BY <1>1 DEF IInv, Shape, WalkSound, WalkState, Subscription
<1>3. /\ \A g \in Feeds : g # f => cast'[g] = cast[g]
      /\ cast'[f] \in WalkState /\ cast'[f].at = 0
      /\ cast'[f].todo = cast[f].todo
      /\ cast'[f].got = IF conn[c] = "live" THEN cast[f].got \cup {i} ELSE cast[f].got
  BY <1>1, <1>2 DEF WalkState
<1> HIDE DEF i, c
<1>4. /\ DOMAIN subscribers' = DOMAIN subscribers
      /\ subscribers'[i].conn = c /\ subscribers'[i].type = subscribers[i].type
      /\ subscribers'[i].closed <=> conn[c] = "broken"
      /\ subscribers'[i] \in Subscription
      /\ \A j \in DOMAIN subscribers : j # i => subscribers'[j] = subscribers[j]
  BY <1>1, <1>2 DEF Subscription
<1>5. \A j \in DOMAIN subscribers : /\ subscribers'[j].conn = subscribers[j].conn
                                    /\ subscribers'[j].type = subscribers[j].type
  BY <1>2, <1>4
<1>6. Shape'
  <2>1. cast' \in [Feeds -> {Idle, [pc |-> "waiting"]} \cup WalkState]
    BY <1>1, <1>3 DEF IInv, Shape
  <2>2. subscribers' \in [DOMAIN subscribers' -> Subscription]
    <3>1. subscribers' = [j \in DOMAIN subscribers |-> subscribers'[j]]
      BY <1>1, <1>4
    <3>2. QED
      BY <1>4, <3>1 DEF IInv, Shape
  <2>3. QED
    BY <1>1, <1>4, <2>1, <2>2 DEF IInv, Shape
<1>7. SilentAfterUnsubscribe'
  BY <1>1, <1>2, <1>3, <1>4 DEF IInv, SilentAfterUnsubscribe
<1>8. ClosedAreBroken'
  BY <1>1, <1>4 DEF IInv, ClosedAreBroken
<1>9. WalkSound'
  BY <1>1, <1>3, <1>4, <1>5 DEF IInv, WalkSound
<1>10. WalkComplete'
  <2> SUFFICES ASSUME NEW g \in Feeds, cast'[g].pc = "walking", NEW j \in DOMAIN subscribers,
                      subscribers[j].type = g, conn[subscribers[j].conn] # "broken"
               PROVE  j \in cast'[g].todo \cup {cast'[g].at} \cup cast'[g].got
    BY <1>1, <1>4, <1>5 DEF WalkComplete
  <2>1. CASE g = f
    <3>1. j \in cast[f].todo \cup {i} \cup cast[f].got
      BY <1>1, <2>1 DEF IInv, WalkComplete, i
    <3>2. j = i => conn[c] = "live"
      BY <1>2
    <3>3. QED
      BY <1>3, <2>1, <3>1, <3>2
  <2>2. CASE g # f
    BY <1>3, <2>2 DEF IInv, WalkComplete
  <2>3. QED
    BY <2>1, <2>2
<1>11. QED
  BY <1>6, <1>7, <1>8, <1>9, <1>10 DEF IInv

(* The end of a walk.                                                      *)
LEMMA EndBroadcastKeeps ==
  ASSUME IInv, NEW f \in Feeds, EndBroadcast(f)
  PROVE  IInv'
<1>1. /\ UNCHANGED <<nextID, subscribers, writer, reader, conn, crashed>>
      /\ cast' = [cast EXCEPT ![f] = Idle] /\ DOMAIN cast = Feeds
  BY DEF EndBroadcast, IInv, Shape
<1>2. \A g \in Feeds : cast'[g].pc = "walking" => cast'[g] = cast[g]
  BY <1>1 DEF Idle
<1>3. Shape'
  BY <1>1 DEF IInv, Shape
<1>4. QED
  BY <1>1, <1>2, <1>3
     DEF IInv, SilentAfterUnsubscribe, ClosedAreBroken, WalkSound, WalkComplete

(* What the clients do, and what a goroutine does without the lock.        *)
LEMMA ElsewhereKeeps ==
  ASSUME IInv, UNCHANGED <<subscribers, cast>>, nextID' \in Nat, DOMAIN reader' = Conns,
         conn' \in [Conns -> {"live", "stalled", "broken"}],
         \A c \in Conns : conn[c] = "broken" => conn'[c] = "broken",
         \A c \in Conns : reader'[c].pc = "subscribing" =>
                            reader'[c].id \in Nat \ {0} /\ reader'[c].type \in SubTypes
  PROVE  IInv'
<1>1. \A i \in DOMAIN subscribers : subscribers[i].conn \in Conns
  BY DEF IInv, Shape, Subscription
<1>2. Shape'
  BY DEF IInv, Shape
<1>3. SilentAfterUnsubscribe' /\ WalkSound'
  BY DEF IInv, SilentAfterUnsubscribe, WalkSound
<1>4. ClosedAreBroken'
  BY <1>1 DEF IInv, ClosedAreBroken
<1>5. WalkComplete'
  BY <1>1 DEF IInv, WalkComplete
<1>6. QED
  BY <1>2, <1>3, <1>4, <1>5 DEF IInv

(* Requests, and waiting for the lock, leave the subscribers alone.        *)
LEMMA ReaderKeeps ==
  ASSUME IInv, NEW c \in Conns,
         \/ OtherRequest(c) \/ ReadError(c) \/ Lock(c) \/ WriteWSResponse(c)
         \/ \E t \in SubTypes : SubscribeRequest(c, t)
         \/ \E i \in Ids : UnsubscribeRequest(c, i)
         \/ Stall(c) \/ Resume(c) \/ Break(c) \/ ReaderPanics(c)
  PROVE  IInv'
<1>1. /\ DOMAIN reader = Conns /\ conn \in [Conns -> {"live", "stalled", "broken"}]
      /\ nextID \in Nat
      /\ \A d \in Conns : reader[d].pc = "subscribing" =>
                            reader[d].id \in Nat \ {0} /\ reader[d].type \in SubTypes
  BY DEF IInv, Shape
<1>2. CASE OtherRequest(c) \/ ReadError(c) \/ Lock(c) \/ WriteWSResponse(c)
  <2>1. /\ UNCHANGED <<subscribers, cast, nextID, conn>> /\ DOMAIN reader' = Conns
        /\ \A d \in Conns : reader'[d].pc = "subscribing" => reader'[d] = reader[d]
    BY <1>1, <1>2 DEF OtherRequest, ReadError, Lock, WriteWSResponse, Reading
  <2>2. QED
    BY <1>1, <2>1, ElsewhereKeeps
<1>3. CASE \E t \in SubTypes : SubscribeRequest(c, t)
  <2>1. PICK t \in SubTypes : SubscribeRequest(c, t)
    BY <1>3
  <2>2. /\ UNCHANGED <<subscribers, cast, conn>> /\ DOMAIN reader' = Conns
        /\ nextID' = nextID + 1
        /\ reader'[c] = [pc |-> "subscribing", id |-> nextID + 1, type |-> t]
        /\ \A d \in Conns : d # c => reader'[d] = reader[d]
    BY <1>1, <2>1 DEF SubscribeRequest
  <2>3. reader'[c].id \in Nat \ {0} /\ reader'[c].type \in SubTypes /\ nextID' \in Nat
    BY <1>1, <2>2
  <2>4. QED
    BY <1>1, <2>2, <2>3, ElsewhereKeeps
<1>4. CASE \E i \in Ids : UnsubscribeRequest(c, i)
  <2>1. /\ UNCHANGED <<subscribers, cast, nextID, conn>> /\ DOMAIN reader' = Conns
        /\ \A d \in Conns : reader'[d].pc = "subscribing" => reader'[d] = reader[d]
    BY <1>1, <1>4 DEF UnsubscribeRequest
  <2>2. QED
    BY <1>1, <2>1, ElsewhereKeeps
<1>5. CASE Stall(c) \/ Resume(c) \/ Break(c) \/ ReaderPanics(c)
  <2>1. /\ UNCHANGED <<subscribers, cast, nextID>> /\ DOMAIN reader' = Conns
        /\ \A d \in Conns : reader'[d].pc = "subscribing" => reader'[d] = reader[d]
        /\ conn' \in [Conns -> {"live", "stalled", "broken"}]
        /\ \A d \in Conns : conn[d] = "broken" => conn'[d] = "broken"
    BY <1>1, <1>5 DEF Stall, Resume, Break, ReaderPanics
  <2>2. QED
    BY <1>1, <2>1, ElsewhereKeeps
<1>6. QED
  BY <1>2, <1>3, <1>4, <1>5

(* After a panic in a broadcast there is no process left.                  *)
LEMMA PanicKeeps ==
  ASSUME IInv, NEW f \in Feeds, BroadcastPanics(f)
  PROVE  IInv'
<1>1. /\ nextID' = 0 /\ subscribers' = << >> /\ DOMAIN subscribers' = {}
      /\ reader' = [c \in Conns |-> [pc |-> "gone"]]
      /\ cast' = [g \in Feeds |-> Idle]
      /\ conn' = [c \in Conns |-> "broken"]
  BY DEF BroadcastPanics
<1>2. subscribers' \in [DOMAIN subscribers' -> Subscription]
  BY <1>1
<1>3. \A g \in Feeds : cast'[g].pc # "walking"
  BY <1>1 DEF Idle
<1>4. Shape'
  BY <1>1, <1>2 DEF Shape
<1>5. QED
  BY <1>1, <1>3, <1>4
     DEF IInv, SilentAfterUnsubscribe, ClosedAreBroken, WalkSound, WalkComplete

(* A manager without subscribers is sound.                                 *)
LEMMA InitHolds == Init => IInv
<1> SUFFICES ASSUME Init PROVE IInv
  OBVIOUS
<1>1. DOMAIN subscribers = {} /\ subscribers \in [DOMAIN subscribers -> Subscription]
  BY DEF Init
<1>2. \A f \in Feeds : cast[f].pc # "walking"
  BY DEF Init, Idle
<1>3. Shape
  BY <1>1 DEF Init, Shape, Reading
<1>4. QED
  BY <1>1, <1>2, <1>3
     DEF IInv, SilentAfterUnsubscribe, ClosedAreBroken, WalkSound, WalkComplete

(* Every step keeps the invariant.                                         *)
LEMMA NextKeeps == IInv /\ [Next]_vars => IInv'
<1> SUFFICES ASSUME IInv, [Next]_vars PROVE IInv'
  OBVIOUS
<1>1. CASE \E c \in Conns :
             \/ OtherRequest(c) \/ ReadError(c) \/ Lock(c) \/ Step(c)
             \/ \E t \in SubTypes : SubscribeRequest(c, t)
             \/ \E i \in Ids : UnsubscribeRequest(c, i)
             \/ Stall(c) \/ Resume(c) \/ Break(c) \/ ReaderPanics(c)
  BY <1>1, SubscribeKeeps, UnsubscribeKeeps, ReaderKeeps DEF Step
<1>2. CASE \E f \in Feeds : Broadcast(f) \/ Visit(f) \/ BroadcastPanics(f)
  BY <1>2, BroadcastKeeps, BeginNotifyKeeps, EndNotifyKeeps, EndBroadcastKeeps, PanicKeeps
     DEF Visit
<1>3. CASE UNCHANGED vars
  BY <1>3 DEF vars, IInv, Shape, SilentAfterUnsubscribe, ClosedAreBroken, WalkSound, WalkComplete
<1>4. QED
  BY <1>1, <1>2, <1>3 DEF Next

(* It therefore always holds.                                              *)
LEMMA SpecKeeps == Spec => []IInv
<1>1. Init => IInv
  BY InitHolds
<1>2. IInv /\ [Next]_vars => IInv'
  BY NextKeeps
<1>3. QED
  BY <1>1, <1>2, PTL DEF Spec

-----------------------------------------------------------------------------

(* No walk is to notify, or is notifying, a subscription that is not       *)
(* registered: whoever has been answered on eth_unsubscribe hears nothing  *)
(* more, however many broadcasts and connections there are                 *)
(* (websocket.go:154-171, 176-203).                                        *)
THEOREM UnsubscribedStaySilent == Spec => []SilentAfterUnsubscribe
<1>1. IInv => SilentAfterUnsubscribe
  BY DEF IInv
<1>2. QED
  BY <1>1, SpecKeeps, PTL

(* When a walk ends it has reached every subscription of its type whose    *)
(* connection works (websocket.go:179-203).                                *)
THEOREM WalksReachEverybody == Spec => []NobodyMissed
<1>1. IInv => NobodyMissed
  <2> SUFFICES ASSUME IInv, NEW f \in Feeds, cast[f].pc = "walking", cast[f].at = 0,
                      cast[f].todo = {}, NEW i \in DOMAIN subscribers,
                      subscribers[i].type = f, conn[subscribers[i].conn] # "broken"
               PROVE  i \in cast[f].got
    BY DEF NobodyMissed
  <2>1. i # 0
    BY DEF IInv, Shape
  <2>2. QED
    BY <2>1 DEF IInv, WalkComplete
<1>2. QED
  BY <1>1, SpecKeeps, PTL
=============================================================================

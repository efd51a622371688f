--------------------------- MODULE LiveFeedProofs ---------------------------
(***************************************************************************)
(* Theorems about the hub and the pages, for any number of clients, topics *)
(* and batches, channels of any capacity, and every fault.                 *)
(***************************************************************************)
EXTENDS LiveFeed, FunctionTheorems, FiniteSetTheorems, SequenceTheorems, TLAPS

USE HubAssumption, LiveFeedAssumption

ServerTyped ==
    /\ batches \in Seq(Batches)
    /\ announcing \in 0..Len(batches)
    /\ inbox \in Seq(Nat)
    /\ \A i \in 1..Len(inbox) : inbox[i] \in 1..Len(batches)
    /\ current \in 0..Len(batches)
    /\ todo \in Seq(Topic)

PageTyped ==
    /\ HubTypeOK
    /\ place \in [Client -> {"away", "page", "open", "handling", "writing", "leaving"}]
    /\ view \in [Client -> Nat]
    /\ owed \in [Client -> Nat]
    /\ failed \in [Client -> BOOLEAN]

(* A subscriber's handler runs, and so does that of a client which a       *)
(* publication has still to serve; its channel is open.                    *)
Subscribed(c) ==
    /\ \A t \in Topic : c \in subs[t] => Connected(c)
    /\ c \in sending => Connected(c)
    /\ Connected(c) => c \in open

(* A page is owed only what was published to its present channel, and has an *)
(* event waiting for it, or is about to get one, unless its query is running. *)
Served(c) ==
    /\ owed[c] <= Len(batches)
    /\ place[c] \in {"away", "page"} => owed[c] = 0
    /\ (place[c] \in {"open", "writing"} /\ ~failed[c] /\ view[c] < owed[c])
         => queued[c] > 0 \/ c \in sending

FeedInv == /\ ServerTyped /\ PageTyped
           /\ \A c \in Client : Subscribed(c) /\ Served(c)

LEMMA FeedInit == Init => FeedInv
  BY DEF Init, HubInit, FeedInv, ServerTyped, PageTyped, HubTypeOK, Subscribed, Served, Connected

LEMMA TopicsAreTopics == ASSUME NEW b \in Batches PROVE TopicsOf(b) \in Seq(Topic)
  BY DEF TopicsOf

(* What running the query leaves alone, and what it does beside the feed.  *)
LEMMA HandleDoes ==
  ASSUME NEW c \in Client, Handle(c)
  PROVE  /\ place[c] = "handling"
         /\ place' = [place EXCEPT ![c] = "writing"]
         /\ view' = [view EXCEPT ![c] = Len(batches)]
         /\ failed' = [failed EXCEPT ![c] = FALSE]
         /\ UNCHANGED <<hubVars, batches, announcing, session, webVars, owed, faults>>
  BY Zenon DEF Handle

(* The projector, the session and the bridge.                              *)
LEMMA ServerStep ==
  ASSUME FeedInv, [Next]_vars
  PROVE  ServerTyped'
<1> USE DEF FeedInv, ServerTyped
<1>1. ASSUME NEW b \in Batches, Commit(b) PROVE ServerTyped'
  <2>1. batches' \in Seq(Batches) /\ Len(batches') = Len(batches) + 1 /\ Len(batches) \in Nat
    BY <1>1 DEF Commit
  <2>2. UNCHANGED <<inbox, current, todo>> /\ announcing' = Len(batches) + 1
    BY <1>1 DEF Commit, webVars
  <2>3. QED
    BY <2>1, <2>2
<1>2. CASE Announce
  <2>1. announcing \in 1..Len(batches) /\ Len(batches) \in Nat
    BY <1>2 DEF Announce
  <2>2. CASE session = "up"
    <3>1. inbox' = Append(inbox, announcing)
      BY <1>2, <2>2 DEF Announce
    <3>2. inbox' \in Seq(Nat) /\ Len(inbox') = Len(inbox) + 1
      BY <2>1, <3>1
    <3>3. \A i \in 1..Len(inbox') : inbox'[i] = IF i <= Len(inbox) THEN inbox[i] ELSE announcing
      BY <2>1, <3>1
    <3>4. ASSUME NEW i \in 1..Len(inbox') PROVE inbox'[i] \in 1..Len(batches)
      <4>1. CASE i \in 1..Len(inbox)
        BY <3>3, <4>1
      <4>2. CASE i \notin 1..Len(inbox)
        BY <2>1, <3>2, <3>3, <4>2
      <4>3. QED
        BY <4>1, <4>2
    <3>5. QED
      BY <1>2, <3>2, <3>4 DEF Announce
  <2>3. CASE session # "up"
    BY <1>2, <2>3 DEF Announce
  <2>4. QED
    BY <2>2, <2>3
<1>3. CASE AnnounceFails
  BY <1>3 DEF AnnounceFails, webVars
<1>4. CASE Connect
  BY <1>4 DEF Connect
<1>5. CASE SessionLost
  BY <1>5 DEF SessionLost
<1>6. CASE Notified
  <2>1. /\ Head(inbox) = inbox[1] /\ 1 \in 1..Len(inbox)
        /\ Tail(inbox) \in Seq(Nat) /\ Len(Tail(inbox)) = Len(inbox) - 1
        /\ \A i \in 1..Len(Tail(inbox)) : Tail(inbox)[i] = inbox[i + 1]
    BY <1>6 DEF Notified
  <2>2. batches[Head(inbox)] \in Batches
    BY <2>1
  <2>3. TopicsOf(batches[Head(inbox)]) \in Seq(Topic)
    BY <2>2, TopicsAreTopics
  <2>4. \A i \in 1..Len(Tail(inbox)) : Tail(inbox)[i] \in 1..Len(batches)
    BY <2>1
  <2>5. QED
    BY <1>6, <2>1, <2>3, <2>4 DEF Notified
<1>7. CASE PublishTopic
  BY <1>7 DEF PublishTopic
<1>8. CASE WebCrash
  BY <1>8 DEF WebCrash
<1>9. CASE UNCHANGED <<batches, announcing, inbox, current, todo>>
  BY <1>9
<1>10. ASSUME NEW c \in Client, Handle(c) PROVE ServerTyped'
  BY <1>10, <1>9, HandleDoes DEF webVars
<1>11. QED
  BY <1>1, <1>2, <1>3, <1>4, <1>5, <1>6, <1>7, <1>8, <1>9, <1>10
     DEF Next, Bridge, Handler, Publishing, LoadPage, OpenStream, TakeEvent, Written,
         HandleFails, Leave, Gone, vars, webVars

(* What is neither the hub's nor a page's business leaves the pages served.*)
LEMMA PagesKept ==
  ASSUME FeedInv, ServerTyped', Len(batches) <= Len(batches'),
         UNCHANGED <<hubVars, place, view, owed, failed>>
  PROVE  FeedInv'
  BY DEF FeedInv, ServerTyped, PageTyped, HubTypeOK, Subscribed, Served, Connected, hubVars

(* The bridge's steps on the hub.                                          *)
LEMMA PublishStep ==
  ASSUME FeedInv, ServerTyped', PublishTopic \/ Publishing
  PROVE  FeedInv'
<1> USE DEF FeedInv, ServerTyped, PageTyped, HubTypeOK
<1>1. CASE PublishTopic
  <2>1. Head(todo) \in Topic
    BY <1>1 DEF PublishTopic
  <2>2. /\ sending = {} /\ sending' = subs[Head(todo)]
        /\ UNCHANGED <<subs, queued, open, batches, place, view, failed>>
        /\ owed' = [c \in Client |-> IF c \in subs[Head(todo)] THEN current ELSE owed[c]]
    BY <1>1 DEF PublishTopic, BeginPublish, Unlocked
  <2>3. PageTyped'
    BY <2>1, <2>2
  <2>4. ASSUME NEW c \in Client PROVE Subscribed(c)'
    BY <2>1, <2>2 DEF Subscribed, Connected
  <2>5. ASSUME NEW c \in Client PROVE Served(c)'
    <3>1. CASE c \in subs[Head(todo)]
      <4>1. Connected(c)
        BY <2>1, <3>1 DEF Subscribed
      <4>2. owed'[c] = current /\ c \in sending' /\ batches' = batches /\ place' = place
        BY <2>2, <3>1
      <4>3. QED
        BY <4>1, <4>2 DEF Served, Connected
    <3>2. CASE c \notin subs[Head(todo)]
      <4>1. /\ owed'[c] = owed[c] /\ c \notin sending
            /\ UNCHANGED <<queued, batches, place, view, failed>>
        BY <2>2, <3>2
      <4>2. QED
        BY <4>1 DEF Served
    <3>3. QED
      BY <3>1, <3>2
  <2>6. QED
    BY <2>3, <2>4, <2>5
<1>2. ASSUME NEW d \in Client, SendTo(d), Publishing PROVE FeedInv'
  <2>1. UNCHANGED <<subs, open, batches, place, view, owed, failed>>
    BY <1>2 DEF SendTo, Publishing, clientVars
  <2>2. /\ d \in sending /\ sending' = sending \ {d}
        /\ queued' = [queued EXCEPT ![d] = IF @ < BufferCap THEN @ + 1 ELSE @]
    BY <1>2 DEF SendTo
  <2>3. queued' \in [Client -> 0..BufferCap] /\ queued'[d] > 0
    <3>1. queued[d] \in 0..BufferCap /\ BufferCap \in Nat \ {0}
      OBVIOUS
    <3>2. queued'[d] = IF queued[d] < BufferCap THEN queued[d] + 1 ELSE queued[d]
      BY <2>2
    <3>3. queued'[d] \in 0..BufferCap /\ queued'[d] > 0
      BY <3>1, <3>2
    <3>4. QED
      BY <2>2, <3>3
  <2>4. ASSUME NEW c \in Client PROVE Subscribed(c)'
    BY <2>1, <2>2 DEF Subscribed, Connected
  <2>5. ASSUME NEW c \in Client PROVE Served(c)'
    <3>1. CASE c = d
      BY <2>1, <2>3, <3>1 DEF Served
    <3>2. CASE c # d
      BY <2>1, <2>2, <3>2 DEF Served
    <3>3. QED
      BY <3>1, <3>2
  <2>6. PageTyped'
    BY <2>1, <2>2, <2>3
  <2>7. QED
    BY <2>4, <2>5, <2>6
<1>3. QED
  BY <1>1, <1>2 DEF Publishing

(* A client's move keeps the places typed; a client that neither comes nor *)
(* goes stays subscribed, and one that nothing happens to stays served.    *)
LEMMA Moves ==
  ASSUME FeedInv, NEW d \in Client,
         NEW there \in {"away", "page", "open", "handling", "writing", "leaving"},
         place' = [place EXCEPT ![d] = there]
  PROVE  place' \in [Client -> {"away", "page", "open", "handling", "writing", "leaving"}]
  BY DEF FeedInv, PageTyped

LEMMA StaysSubscribed ==
  ASSUME FeedInv, NEW c \in Client, Connected(c)' <=> Connected(c),
         UNCHANGED <<subs, open, sending>>
  PROVE  Subscribed(c)'
  BY DEF FeedInv, Subscribed

LEMMA StaysServed ==
  ASSUME FeedInv, NEW c \in Client, UNCHANGED <<batches, sending>>,
         place'[c] = place[c], view'[c] = view[c], owed'[c] = owed[c],
         failed'[c] = failed[c], queued'[c] = queued[c]
  PROVE  Served(c)'
  BY DEF FeedInv, Served

(* The steps of one page's browser and handler.                            *)
LEMMA ClientStep ==
  ASSUME FeedInv, ServerTyped', NEW d \in Client,
         \/ LoadPage(d) \/ OpenStream(d) \/ TakeEvent(d) \/ Handle(d)
         \/ Written(d) \/ HandleFails(d) \/ Leave(d) \/ Gone(d)
  PROVE  FeedInv'
<1> USE DEF FeedInv, ServerTyped, PageTyped, HubTypeOK
<1>1. PageOf[d] \in Topic
  OBVIOUS
<1>2. CASE LoadPage(d)
  <2>1. PageTyped'
    BY <1>2 DEF LoadPage, hubVars
  <2>2. ASSUME NEW c \in Client PROVE Subscribed(c)' /\ Served(c)'
    BY <1>2 DEF LoadPage, Subscribed, Served, Connected, hubVars
  <2>3. QED
    BY <2>1, <2>2
<1>3. CASE OpenStream(d)
  <2>1. PageTyped'
    BY <1>1, <1>3 DEF OpenStream, Subscribe
  <2>2. ASSUME NEW c \in Client PROVE Subscribed(c)'
    BY <1>1, <1>3 DEF OpenStream, Subscribe, Unlocked, Subscribed, Connected
  <2>3. ASSUME NEW c \in Client PROVE Served(c)'
    BY <1>3 DEF OpenStream, Subscribe, Unlocked, Served
  <2>4. QED
    BY <2>1, <2>2, <2>3
<1>4. CASE TakeEvent(d)
  <2>1. /\ place[d] = "open" /\ queued[d] > 0
        /\ queued' = [queued EXCEPT ![d] = queued[d] - 1]
        /\ place' = [place EXCEPT ![d] = "handling"]
        /\ UNCHANGED <<subs, open, sending, batches, view, owed, failed>>
    BY <1>4 DEF TakeEvent, Receive
  <2>2. queued' \in [Client -> 0..BufferCap]
    <3>1. queued[d] - 1 \in 0..BufferCap
      BY <2>1
    <3>2. QED
      BY <2>1, <3>1
  <2>3. PageTyped'
    <3>1. place' \in [Client -> {"away", "page", "open", "handling", "writing", "leaving"}]
      BY <2>1, Moves
    <3>2. HubTypeOK'
      BY <2>1, <2>2
    <3>3. QED
      BY <2>1, <2>2, <3>1, <3>2
  <2>4. ASSUME NEW c \in Client PROVE Subscribed(c)'
    <3>1. Connected(c)' <=> Connected(c)
      BY <2>1 DEF Connected
    <3>2. QED
      BY <2>1, <3>1, StaysSubscribed
  <2>5. ASSUME NEW c \in Client PROVE Served(c)'
    <3>1. CASE c = d
      BY <2>1, <3>1 DEF Served
    <3>2. CASE c # d
      BY <2>1, <3>2, StaysServed
    <3>3. QED
      BY <3>1, <3>2
  <2>6. QED
    BY <2>3, <2>4, <2>5
<1>5. CASE Handle(d)
  <2>1. /\ place[d] = "handling"
        /\ place' = [place EXCEPT ![d] = "writing"]
        /\ view' = [view EXCEPT ![d] = Len(batches)]
        /\ failed' = [failed EXCEPT ![d] = FALSE]
        /\ UNCHANGED <<subs, queued, open, sending, batches, owed>>
    BY <1>5, HandleDoes DEF hubVars
  <2>2. view' \in [Client -> Nat] /\ failed' \in [Client -> BOOLEAN]
    <3>1. Len(batches) \in Nat
      OBVIOUS
    <3>2. QED
      BY <2>1, <3>1
  <2>3. PageTyped'
    <3>1. place' \in [Client -> {"away", "page", "open", "handling", "writing", "leaving"}]
      BY <2>1, Moves
    <3>2. HubTypeOK'
      BY <2>1, <2>2
    <3>3. QED
      BY <2>1, <2>2, <3>1, <3>2
  <2>4. ASSUME NEW c \in Client PROVE Subscribed(c)'
    <3>1. Connected(c)' <=> Connected(c)
      BY <2>1 DEF Connected
    <3>2. QED
      BY <2>1, <3>1, StaysSubscribed
  <2>5. ASSUME NEW c \in Client PROVE Served(c)'
    <3>1. CASE c = d
      <4>1. view'[d] = Len(batches) /\ place'[d] = "writing" /\ owed' = owed
        BY <2>1
      <4>2. owed[d] <= Len(batches) /\ owed[d] \in Nat /\ Len(batches) \in Nat
        BY DEF Served
      <4>3. QED
        BY <2>1, <3>1, <4>1, <4>2 DEF Served
    <3>2. CASE c # d
      BY <2>1, <3>2, StaysServed
    <3>3. QED
      BY <3>1, <3>2
  <2>6. QED
    BY <2>3, <2>4, <2>5
<1>6. CASE Written(d)
  <2>1. PageTyped'
    BY <1>6 DEF Written, hubVars
  <2>2. ASSUME NEW c \in Client PROVE Subscribed(c)' /\ Served(c)'
    BY <1>6 DEF Written, Subscribed, Served, Connected, hubVars
  <2>3. QED
    BY <2>1, <2>2
<1>7. CASE HandleFails(d)
  <2>1. PageTyped'
    BY <1>7 DEF HandleFails, hubVars
  <2>2. ASSUME NEW c \in Client PROVE Subscribed(c)' /\ Served(c)'
    BY <1>7 DEF HandleFails, Subscribed, Served, Connected, hubVars
  <2>3. QED
    BY <2>1, <2>2
<1>8. CASE Leave(d)
  <2>1. PageTyped'
    BY <1>8 DEF Leave, Unsubscribe
  <2>2. ASSUME NEW c \in Client PROVE Subscribed(c)' /\ Served(c)'
    BY <1>8 DEF Leave, Unsubscribe, Unlocked, Subscribed, Served, Connected
  <2>3. QED
    BY <2>1, <2>2
<1>9. CASE Gone(d)
  <2>1. PageTyped'
    <3>1. HubTypeOK'
      BY <1>9 DEF Gone, Close
    <3>2. /\ place' \in [Client -> {"away", "page", "open", "handling", "writing", "leaving"}]
          /\ view' \in [Client -> Nat]
      <4>1. \/ place' = [place EXCEPT ![d] = "page"] /\ view' = view
            \/ place' = [place EXCEPT ![d] = "away"] /\ view' = [view EXCEPT ![d] = 0]
        BY <1>9 DEF Gone
      <4>2. CASE place' = [place EXCEPT ![d] = "page"] /\ view' = view
        BY <4>2
      <4>3. CASE place' = [place EXCEPT ![d] = "away"] /\ view' = [view EXCEPT ![d] = 0]
        BY <4>3
      <4>4. QED
        BY <4>1, <4>2, <4>3
    <3>3. owed' \in [Client -> Nat] /\ failed' \in [Client -> BOOLEAN]
      BY <1>9 DEF Gone
    <3>4. QED
      BY <3>1, <3>2, <3>3
  <2>2. /\ place[d] = "leaving" /\ place'[d] \in {"page", "away"}
        /\ open' = open \ {d} /\ owed'[d] = 0
        /\ UNCHANGED <<subs, sending, batches>>
        /\ \A c \in Client \ {d} : /\ place'[c] = place[c] /\ view'[c] = view[c]
                                    /\ owed'[c] = owed[c] /\ failed'[c] = failed[c]
                                    /\ queued'[c] = queued[c]
    BY <1>9 DEF Gone, Close
  <2>3. ASSUME NEW c \in Client PROVE Subscribed(c)'
    BY <2>2 DEF Subscribed, Connected
  <2>4. ASSUME NEW c \in Client PROVE Served(c)'
    <3>1. CASE c = d
      BY <2>2, <3>1 DEF Served
    <3>2. CASE c # d
      BY <2>2, <3>2, StaysServed
    <3>3. QED
      BY <3>1, <3>2
  <2>5. QED
    BY <2>1, <2>3, <2>4
<1>10. QED
  BY <1>2, <1>3, <1>4, <1>5, <1>6, <1>7, <1>8, <1>9

LEMMA WebCrashStep == ASSUME FeedInv, ServerTyped', WebCrash PROVE FeedInv'
<1> USE DEF FeedInv, ServerTyped, PageTyped, HubTypeOK
<1>1. PageTyped'
  <2>1. HubTypeOK'
    BY DEF WebCrash
  <2>2. place' \in [Client -> {"away", "page", "open", "handling", "writing", "leaving"}]
    BY DEF WebCrash
  <2>3. view' \in [Client -> Nat] /\ owed' \in [Client -> Nat] /\ failed' \in [Client -> BOOLEAN]
    BY DEF WebCrash
  <2>4. QED
    BY <2>1, <2>2, <2>3
<1>2. ASSUME NEW c \in Client PROVE Subscribed(c)' /\ Served(c)'
  BY DEF WebCrash, Subscribed, Served, Connected
<1>3. QED
  BY <1>1, <1>2

(* The notifications and the pages stay in step whatever happens.          *)
LEMMA FeedStep == FeedInv /\ [Next]_vars => FeedInv'
<1> SUFFICES ASSUME FeedInv, [Next]_vars PROVE FeedInv'
  OBVIOUS
<1>1. ServerTyped'
  BY ServerStep
<1>2. ASSUME Len(batches) <= Len(batches'),
             UNCHANGED <<hubVars, place, view, owed, failed>>
      PROVE  FeedInv'
  BY <1>1, <1>2, PagesKept
<1>3. Len(batches) \in Nat
  BY DEF FeedInv, ServerTyped
<1>4. ASSUME NEW b \in Batches, Commit(b) PROVE FeedInv'
  <2>1. Len(batches) <= Len(batches')
    BY <1>4 DEF Commit, FeedInv, ServerTyped
  <2>2. QED
    BY <1>2, <1>4, <2>1 DEF Commit, clientVars
<1>5. CASE Announce \/ AnnounceFails \/ Connect \/ SessionLost \/ Notified
  BY <1>2, <1>3, <1>5 DEF Announce, AnnounceFails, Connect, SessionLost, Notified, clientVars
<1>6. CASE PublishTopic \/ Publishing
  BY <1>1, <1>6, PublishStep
<1>7. CASE WebCrash
  BY <1>1, <1>7, WebCrashStep
<1>8. ASSUME NEW c \in Client,
             \/ LoadPage(c) \/ OpenStream(c) \/ TakeEvent(c) \/ Handle(c)
             \/ Written(c) \/ HandleFails(c) \/ Leave(c) \/ Gone(c)
      PROVE  FeedInv'
  BY <1>1, <1>8, ClientStep
<1>9. CASE UNCHANGED vars
  BY <1>2, <1>3, <1>9 DEF vars, clientVars
<1>10. QED
  BY <1>4, <1>5, <1>6, <1>7, <1>8, <1>9 DEF Next, Bridge, Handler

THEOREM FeedInvariant == Spec => []FeedInv
  BY FeedInit, FeedStep, PTL DEF Spec

(* Hub.Publish never sends on a channel that the unsubscribe function of   *)
(* Hub.Subscribe has closed: unsubscribing waits for the publication that  *)
(* is running, and a publication begun later does not find the channel.    *)
THEOREM NoSendOnClosedHolds == Spec => []NoSendOnClosed
<1>1. FeedInv => NoSendOnClosed
  BY DEF FeedInv, PageTyped, HubTypeOK, Subscribed, NoSendOnClosed
<1>2. QED
  BY <1>1, FeedInvariant, PTL

(* Events that Hub.Publish drops at a full channel leave no page behind: the *)
(* handlers query the tables afresh, so an event that is still queued tells*)
(* them all that the dropped ones did.                                     *)
THEOREM DropsAreHarmlessHolds == Spec => []DropsAreHarmless
<1>1. FeedInv => DropsAreHarmless
  BY DEF FeedInv, Served, DropsAreHarmless
<1>2. QED
  BY <1>1, FeedInvariant, PTL

-----------------------------------------------------------------------------
(* The rows that a client was sent in this connection.                     *)
Sent(c) == {pushed[c][k] : k \in DOMAIN pushed[c]}

(* The feed's position is the time of the row it sent last, zero before the *)
(* first one; what it has sent was there when its last query ran.          *)
FedTyped(c) ==
    /\ \A k \in DOMAIN pushed[c] : pushed[c][k] \in Rows /\ pushed[c][k] <= view[c]
    /\ pushed[c] = <<>> => lastTS[c] = 0
    /\ pushed[c] # <<>> => lastTS[c] = TS(pushed[c][Len(pushed[c])])

FedInOrder(c) ==
    \A i, j \in DOMAIN pushed[c] :
        i < j => /\ TS(pushed[c][i]) <= TS(pushed[c][j])
                 /\ pushed[c][i] # pushed[c][j]

(* A row not sent to a page that was sent some is late or was cut off.     *)
FedAllBut(c) ==
    pushed[c] # <<>> =>
        \A i \in Rows : i <= view[c] /\ i \notin Sent(c) =>
            \/ \E j \in Sent(c) : j < i /\ TS(j) >= TS(i)
            \/ \E s \in SUBSET Sent(c) : /\ Cardinality(s) >= Limit
                                        /\ \A j \in s : TS(j) >= TS(i)

Fed(c) == FedTyped(c) /\ FedInOrder(c) /\ FedAllBut(c)

FeedsTyped ==
    /\ session \in {"up", "down"}
    /\ pushed \in [Client -> Seq(Nat)]
    /\ lastTS \in [Client -> Nat]
    /\ view \in [Client -> Nat]
    /\ \A c \in Client : view[c] <= Len(batches)
    /\ \A c \in Client : place[c] = "away" \/ PageOf[c] # "live-feed" => pushed[c] = <<>>

FeedsInv == FeedsTyped /\ \A c \in Client : Fed(c)

LEMMA FeedsInit == Init => FeedsInv
<1> SUFFICES ASSUME Init PROVE FeedsInv
  OBVIOUS
<1>1. FeedsTyped
  BY DEF Init, FeedsTyped
<1>2. ASSUME NEW c \in Client PROVE Fed(c)
  <2>1. pushed[c] = <<>> /\ lastTS[c] = 0 /\ DOMAIN pushed[c] = {}
    BY DEF Init
  <2>2. QED
    BY <2>1 DEF Fed, FedTyped, FedInOrder, FedAllBut
<1>3. QED
  BY <1>1, <1>2 DEF FeedsInv

(* Rows stay where they are in the log of batches.                         *)
LEMMA RowsStay ==
  ASSUME batches \in Seq(Batches), batches' \in Seq(Batches), Len(batches) <= Len(batches'),
         \A i \in DOMAIN batches : batches'[i] = batches[i]
  PROVE  /\ \A i \in Rows : i \in Rows' /\ TS(i)' = TS(i)
         /\ \A i \in Rows' : i <= Len(batches) => i \in Rows
  BY DEF Rows, TS

(* A client to which nothing was sent meanwhile.                           *)
LEMMA FedKept ==
  ASSUME batches \in Seq(Batches), FeedsTyped, NEW c \in Client, Fed(c),
         batches' \in Seq(Batches), Len(batches) <= Len(batches'),
         \A i \in DOMAIN batches : batches'[i] = batches[i],
         pushed'[c] = pushed[c], lastTS'[c] = lastTS[c], view'[c] = view[c]
  PROVE  Fed(c)'
<1>1. /\ \A i \in Rows : i \in Rows' /\ TS(i)' = TS(i)
      /\ \A i \in Rows' : i <= Len(batches) => i \in Rows
  BY RowsStay
<1>2. pushed[c] \in Seq(Nat) /\ view[c] \in Nat /\ view[c] <= Len(batches)
  BY DEF FeedsTyped
<1>3. DOMAIN pushed[c] = 1..Len(pushed[c]) /\ Len(pushed[c]) \in Nat
  BY <1>2
<1>4. pushed[c] # <<>> => Len(pushed[c]) \in DOMAIN pushed[c]
  BY <1>2, <1>3
<1>5. \A k \in DOMAIN pushed[c] : pushed[c][k] \in Rows
  BY DEF Fed, FedTyped
<1>6. Sent(c)' = Sent(c) /\ Sent(c) \subseteq Rows
  BY <1>5 DEF Sent
<1>7. FedTyped(c)'
  BY <1>1, <1>4, <1>5 DEF Fed, FedTyped
<1>8. FedInOrder(c)'
  BY <1>1, <1>5 DEF Fed, FedInOrder
<1>9. FedAllBut(c)'
  <2> SUFFICES ASSUME pushed[c] # <<>>, NEW i \in Rows', i <= view[c], i \notin Sent(c)
               PROVE  \/ \E j \in Sent(c) : j < i /\ TS(j)' >= TS(i)'
                      \/ \E s \in SUBSET Sent(c) : /\ Cardinality(s) >= Limit
                                                  /\ \A j \in s : TS(j)' >= TS(i)'
    BY <1>6 DEF FedAllBut
  <2>1. i \in Nat
    BY DEF Rows
  <2>2. i \in Rows
    BY <1>1, <1>2, <2>1
  <2>3. QED
    BY <1>1, <1>6, <2>2 DEF Fed, FedAllBut
<1>10. QED
  BY <1>7, <1>8, <1>9 DEF Fed

(* A client whose connection is over has been sent nothing.                *)
LEMMA FedAfresh ==
  ASSUME NEW c \in Client, pushed'[c] = <<>>, lastTS'[c] = 0
  PROVE  Fed(c)'
<1>1. DOMAIN pushed'[c] = {}
  OBVIOUS
<1>2. QED
  BY <1>1 DEF Fed, FedTyped, FedInOrder, FedAllBut

(* A sequence of a set's elements has each of them once.                   *)
LEMMA EachOnce ==
  ASSUME NEW S, IsFiniteSet(S), NEW f \in SetToSeqs(S)
  PROVE  /\ Len(f) = Cardinality(S) /\ Len(f) \in Nat /\ DOMAIN f = 1..Len(f)
         /\ f \in [1..Len(f) -> S]
         /\ \A i, j \in 1..Len(f) : i # j => f[i] # f[j]
         /\ S = {f[k] : k \in 1..Len(f)}
<1> DEFINE n == Cardinality(S)
<1>1. n \in Nat
  BY FS_CardinalityType
<1>2. f \in [1..n -> S] /\ \A i, j \in 1..n : i # j => f[i] # f[j]
  BY DEF SetToSeqs
<1>3. f \in Injection(1..n, S)
  BY <1>2, Fun_IsInj
<1>4. IsFiniteSet(1..n) /\ Cardinality(1..n) = n
  BY <1>1, FS_Interval
<1>5. f \in Surjection(1..n, S)
  BY <1>3, <1>4, FS_Injection
<1>6. \A x \in S : \E k \in 1..n : f[k] = x
  BY <1>5 DEF Surjection
<1>7. f \in Seq(S) /\ Len(f) = n
  BY <1>1, <1>2
<1>8. QED
  BY <1>1, <1>2, <1>6, <1>7

LEMMA RowsAreFinite ==
  ASSUME batches \in Seq(Batches), NEW S \in SUBSET Rows
  PROVE  IsFiniteSet(S) /\ Cardinality(S) \in Nat
<1>1. Len(batches) \in Nat /\ DOMAIN batches = 1..Len(batches)
  OBVIOUS
<1>2. Rows \subseteq 1..Len(batches)
  BY <1>1 DEF Rows
<1>3. IsFiniteSet(1..Len(batches))
  BY <1>1, FS_Interval
<1>4. IsFiniteSet(S)
  BY <1>2, <1>3, FS_Subset
<1>5. QED
  BY <1>4, FS_CardinalityType

(* What the feed's query finds: rows that are newer, and of those that it  *)
(* does not find every one was cut off by as many rows as a page may have. *)
LEMMA Found ==
  ASSUME batches \in Seq(Batches), NEW since \in Nat, NEW rows \in LiveSince(since)
  PROVE  /\ rows \subseteq Rows /\ \A i \in rows : TS(i) > since
         /\ \A i \in Rows \ rows : TS(i) > since =>
               Cardinality(rows) >= Limit /\ \A j \in rows : TS(j) >= TS(i)
<1> DEFINE newer == {i \in Rows : TS(i) > since}
<1>1. rows \subseteq newer
  BY DEF LiveSince
<1>2. Cardinality(rows) = IF Limit < Cardinality(newer) THEN Limit ELSE Cardinality(newer)
  BY DEF LiveSince
<1>3. \A i \in rows, j \in newer \ rows : TS(i) >= TS(j)
  BY DEF LiveSince
<1>4. IsFiniteSet(newer)
  BY RowsAreFinite
<1>5. ASSUME NEW i \in newer \ rows PROVE Cardinality(rows) >= Limit
  <2>1. Cardinality(rows) # Cardinality(newer)
    BY <1>1, <1>4, <1>5, FS_Subset
  <2>2. QED
    BY <1>2, <2>1
<1>6. QED
  BY <1>1, <1>3, <1>5

LEMMA HandleFeeds ==
  ASSUME NEW c \in Client, Handle(c)
  PROVE  /\ PageOf[c] # "live-feed" => UNCHANGED <<lastTS, pushed>>
         /\ PageOf[c] = "live-feed" =>
               \E rows \in LiveSince(lastTS[c]) : \E sent \in OldestFirst(rows) :
                  /\ pushed' = [pushed EXCEPT ![c] = pushed[c] \o sent]
                  /\ lastTS' = [lastTS EXCEPT ![c] = IF sent = <<>> THEN lastTS[c]
                                                   ELSE TS(Last(sent))]
  BY Zenon DEF Handle

(* Sending what was found leaves the feed in order.                        *)
LEMMA FeedsMore ==
  ASSUME batches \in Seq(Batches), UNCHANGED batches, FeedsTyped, NEW c \in Client, Fed(c),
         view'[c] = Len(batches),
         NEW rows \in LiveSince(lastTS[c]), NEW sent \in OldestFirst(rows),
         pushed'[c] = pushed[c] \o sent,
         lastTS'[c] = IF sent = <<>> THEN lastTS[c] ELSE TS(Last(sent))
  PROVE  pushed'[c] \in Seq(Nat) /\ lastTS'[c] \in Nat /\ Fed(c)'
<1> DEFINE old == pushed[c]
           new == old \o sent
           n == Len(old)
           m == Len(sent)
<1>1. /\ rows \subseteq Rows /\ \A i \in rows : TS(i) > lastTS[c]
      /\ \A i \in Rows \ rows : TS(i) > lastTS[c] =>
            Cardinality(rows) >= Limit /\ \A j \in rows : TS(j) >= TS(i)
  BY Found DEF FeedsTyped
<1>2. /\ m \in Nat /\ DOMAIN sent = 1..m /\ sent \in [1..m -> rows]
      /\ \A i, j \in 1..m : i # j => sent[i] # sent[j]
      /\ rows = {sent[k] : k \in 1..m}
  <2>1. sent \in SetToSeqs(rows)
    BY Zenon DEF OldestFirst
  <2>2. QED
    BY <1>1, <2>1, RowsAreFinite, EachOnce
<1>3. \A i, j \in 1..m : i < j => TS(sent[i]) <= TS(sent[j])
  <2>1. \A i, j \in DOMAIN sent : i < j => TS(sent[i]) <= TS(sent[j])
    BY Zenon DEF OldestFirst
  <2>2. QED
    BY <1>2, <2>1
<1>4. \A i \in Rows : i \in Nat /\ i <= Len(batches) /\ TS(i) \in Nat \ {0}
  BY DEF Rows, TS
<1>5. old \in Seq(Nat) /\ n \in Nat /\ DOMAIN old = 1..n /\ lastTS[c] \in Nat
      /\ view[c] \in Nat /\ view[c] <= Len(batches) /\ Len(batches) \in Nat
  BY DEF FeedsTyped
<1>6. sent \in Seq(Nat) /\ Len(sent) = m
  <2>1. sent \in [1..m -> Nat]
    BY <1>1, <1>2, <1>4
  <2>2. QED
    BY <1>2, <2>1
<1>7. /\ new \in Seq(Nat) /\ Len(new) = n + m /\ DOMAIN new = 1..(n + m)
      /\ \A k \in 1..n : new[k] = old[k]
      /\ \A k \in 1..m : new[n + k] = sent[k]
  BY <1>5, <1>6, ConcatProperties
<1>8. \A k \in (n + 1)..(n + m) : k - n \in 1..m /\ new[k] = sent[k - n]
  <2> TAKE k \in (n + 1)..(n + m)
  <2>1. k - n \in 1..m /\ n + (k - n) = k
    BY <1>2, <1>5
  <2>2. QED
    BY <1>7, <2>1
<1>14. pushed'[c] = new /\ Sent(c) = {old[k] : k \in 1..n}
  BY <1>5 DEF Sent
<1>19. /\ \A k \in 1..n : old[k] \in Rows /\ old[k] <= view[c]
       /\ old = <<>> => lastTS[c] = 0
       /\ old # <<>> => n \in 1..n /\ lastTS[c] = TS(old[n])
  BY <1>5 DEF Fed, FedTyped
<1>20. \A i, j \in 1..n : i < j => TS(old[i]) <= TS(old[j]) /\ old[i] # old[j]
  BY <1>5 DEF Fed, FedInOrder
<1>21. n = 0 <=> old = <<>>
  BY <1>5
<1>22. m = 0 <=> sent = <<>>
  BY <1>6
<1>23. m = 0 => new = old
  BY <1>5, <1>22
<1>24. n \in Nat /\ m \in Nat /\ view[c] \in Nat
  BY <1>2, <1>5
<1> HIDE DEF new, old, n, m
<1>9. \A k \in 1..n : old[k] \in Rows /\ old[k] <= view[c] /\ TS(old[k]) <= lastTS[c]
  <2> TAKE k \in 1..n
  <2>1. old[k] \in Rows /\ old[k] <= view[c] /\ old # <<>> /\ n \in 1..n
    BY <1>5, <1>19, <1>21
  <2>2. lastTS[c] = TS(old[n]) /\ old[n] \in Rows
    BY <1>19, <2>1
  <2>3. k = n \/ TS(old[k]) <= TS(old[n])
    BY <1>5, <1>20, <2>1
  <2>4. QED
    BY <1>4, <2>1, <2>2, <2>3
<1>10. \A k \in 1..m : sent[k] \in Rows /\ TS(sent[k]) > lastTS[c]
  BY <1>1, <1>2
<1>11. Sent(c)' = Sent(c) \cup rows
  <2>1. Sent(c)' = {new[k] : k \in 1..(n + m)}
    BY <1>7, <1>14 DEF Sent
  <2>2. \A k \in 1..(n + m) : k \in 1..n \/ k \in (n + 1)..(n + m)
    BY <1>2, <1>5
  <2>3. \A k \in 1..n : k \in 1..(n + m)
    BY <1>2, <1>5
  <2>4. \A k \in 1..m : n + k \in 1..(n + m)
    BY <1>2, <1>5
  <2>5. Sent(c)' \subseteq Sent(c) \cup rows
    <3>1. \A k \in 1..n : new[k] \in Sent(c)
      BY <1>7, <1>14
    <3>2. \A k \in (n + 1)..(n + m) : new[k] \in rows
      BY <1>2, <1>8
    <3>3. QED
      BY <2>1, <2>2, <3>1, <3>2
  <2>6. Sent(c) \subseteq Sent(c)'
    BY <1>7, <1>14, <2>1, <2>3
  <2>7. rows \subseteq Sent(c)'
    BY <1>2, <1>7, <2>1, <2>4
  <2>8. QED
    BY <2>5, <2>6, <2>7
<1>12. lastTS'[c] \in Nat
  <2>1. CASE sent = <<>>
    BY <1>5, <2>1
  <2>2. CASE sent # <<>>
    <3>1. m \in 1..m /\ Last(sent) = sent[m]
      BY <1>2, <1>6, <1>22, <2>2 DEF Last
    <3>2. QED
      BY <1>4, <1>10, <2>2, <3>1
  <2>3. QED
    BY <2>1, <2>2
<1>13. UNCHANGED Rows /\ \A i : TS(i)' = TS(i)
  BY DEF Rows, TS
<1>15. FedTyped(c)'
  <2>1. \A k \in 1..(n + m) : new[k] \in Rows /\ new[k] <= Len(batches)
    <3> TAKE k \in 1..(n + m)
    <3>1. CASE k \in 1..n
      BY <1>4, <1>7, <1>9, <3>1
    <3>2. CASE k \in (n + 1)..(n + m)
      BY <1>4, <1>8, <1>10, <3>2
    <3>3. QED
      BY <1>2, <1>5, <3>1, <3>2
  <2>2. CASE m = 0
    <3>1. sent = <<>> /\ new = old
      BY <1>22, <1>23, <2>2
    <3>2. lastTS'[c] = lastTS[c]
      BY <3>1
    <3>3. Len(new) = n
      BY <1>5, <1>7, <2>2
    <3>4. QED
      BY <1>7, <1>13, <1>14, <1>19, <2>1, <3>1, <3>2, <3>3 DEF FedTyped
  <2>3. CASE m # 0
    <3>1. m \in 1..m /\ n + m # 0
      BY <1>2, <1>5, <2>3
    <3>4. sent # <<>> /\ new # <<>> /\ new[n + m] = sent[m]
      BY <1>7, <1>22, <2>3, <3>1
    <3>2. lastTS'[c] = TS(sent[m])
      BY <1>6, <3>4 DEF Last
    <3>3. QED
      BY <1>7, <1>13, <1>14, <2>1, <3>4, <3>2 DEF FedTyped
  <2>4. QED
    BY <2>2, <2>3
<1>16. FedInOrder(c)'
  <2> SUFFICES ASSUME NEW i \in 1..(n + m), NEW j \in 1..(n + m), i < j
               PROVE  TS(new[i]) <= TS(new[j]) /\ new[i] # new[j]
    BY <1>7, <1>13, <1>14 DEF FedInOrder
  <2>1. CASE j \in 1..n
    <3>1. i \in 1..n
      BY <1>5, <2>1
    <3>2. TS(old[i]) <= TS(old[j]) /\ old[i] # old[j]
      BY <1>20, <2>1, <3>1
    <3>3. QED
      BY <1>7, <2>1, <3>1, <3>2
  <2>2. CASE i \in 1..n /\ j \in (n + 1)..(n + m)
    <3>1. TS(new[j]) > lastTS[c] /\ TS(new[j]) \in Nat
      BY <1>4, <1>8, <1>10, <2>2
    <3>2. TS(new[i]) <= lastTS[c] /\ TS(new[i]) \in Nat
      BY <1>4, <1>7, <1>9, <2>2
    <3>3. TS(new[i]) < TS(new[j])
      BY <1>5, <3>1, <3>2
    <3>4. QED
      BY <1>5, <3>1, <3>2, <3>3
  <2>3. CASE i \in (n + 1)..(n + m) /\ j \in (n + 1)..(n + m)
    <3>1. i - n \in 1..m /\ j - n \in 1..m
      BY <1>8, <2>3
    <3>3. i - n < j - n
      BY <1>24
    <3>2. QED
      BY <1>2, <1>3, <1>8, <1>24, <2>3, <3>1, <3>3
  <2>4. QED
    BY <1>2, <1>5, <2>1, <2>2, <2>3
<1>17. FedAllBut(c)'
  <2> SUFFICES ASSUME NEW i \in Rows, i <= Len(batches), i \notin Sent(c) \cup rows,
                      new # <<>>
               PROVE  \/ \E j \in Sent(c) \cup rows : j < i /\ TS(j) >= TS(i)
                      \/ \E s \in SUBSET (Sent(c) \cup rows) :
                            /\ Cardinality(s) >= Limit
                            /\ \A j \in s : TS(j) >= TS(i)
    BY <1>11, <1>13, <1>14 DEF FedAllBut
  <2>1. i \in Nat /\ TS(i) \in Nat \ {0}
    BY <1>4
  <2>2. CASE TS(i) > lastTS[c]
    BY <1>1, <2>2
  <2>3. CASE ~(TS(i) > lastTS[c])
    <3>1. TS(i) <= lastTS[c] /\ old # <<>>
      BY <1>5, <1>19, <2>1, <2>3
    <3>2. CASE i <= view[c]
      BY <3>1, <3>2 DEF Fed, FedAllBut, old
    <3>3. CASE ~(i <= view[c])
      <4>1. old[n] \in Rows /\ old[n] <= view[c] /\ TS(old[n]) = lastTS[c]
        BY <1>19, <3>1
      <4>2. old[n] \in Sent(c)
        BY <1>14, <1>19, <3>1
      <4>3. old[n] < i
        <5>1. old[n] \in Nat
          BY <1>4, <4>1
        <5>2. QED
          BY <1>24, <2>1, <3>3, <4>1, <5>1
      <4>4. TS(old[n]) >= TS(i)
        BY <1>5, <2>1, <3>1, <4>1
      <4>5. QED
        BY <4>2, <4>3, <4>4
    <3>4. QED
      BY <3>2, <3>3
  <2>4. QED
    BY <2>2, <2>3
<1>18. QED
  BY <1>7, <1>12, <1>14, <1>15, <1>16, <1>17 DEF Fed

(* The clients' steps, those of others leaving alone what a client was sent. *)
LEMMA FeedsClientStep ==
  ASSUME FeedInv, FeedsInv, NEW d \in Client,
         \/ LoadPage(d) \/ OpenStream(d) \/ TakeEvent(d) \/ Handle(d)
         \/ Written(d) \/ HandleFails(d) \/ Leave(d) \/ Gone(d)
  PROVE  FeedsInv'
<1> USE DEF FeedsInv
<1>1. /\ batches \in Seq(Batches) /\ Len(batches) \in Nat
      /\ place \in [Client -> {"away", "page", "open", "handling", "writing", "leaving"}]
  BY DEF FeedInv, ServerTyped, PageTyped
<1>2. UNCHANGED <<batches, session>>
  BY HandleDoes DEF LoadPage, OpenStream, TakeEvent, Written, HandleFails, Leave, Gone
<1>3. ASSUME NEW c \in Client, pushed'[c] = pushed[c], lastTS'[c] = lastTS[c],
             view'[c] = view[c]
      PROVE  Fed(c)'
  BY <1>1, <1>2, <1>3, FedKept
<1>4. CASE OpenStream(d) \/ TakeEvent(d) \/ Written(d) \/ HandleFails(d) \/ Leave(d)
  <2>1. /\ UNCHANGED <<pushed, lastTS, view>>
        /\ place[d] # "away"
        /\ \E there \in {"open", "handling", "leaving"} : place' = [place EXCEPT ![d] = there]
    BY <1>4 DEF OpenStream, TakeEvent, Written, HandleFails, Leave
  <2>2. FeedsTyped'
    BY <1>1, <1>2, <2>1 DEF FeedsTyped
  <2>3. QED
    BY <1>3, <2>1, <2>2
<1>5. CASE LoadPage(d)
  <2>1. /\ UNCHANGED <<pushed, lastTS>> /\ view' = [view EXCEPT ![d] = Len(batches)]
        /\ place[d] = "away" /\ place' = [place EXCEPT ![d] = "page"]
    BY <1>5 DEF LoadPage
  <2>2. FeedsTyped'
    BY <1>1, <1>2, <2>1 DEF FeedsTyped
  <2>3. pushed[d] = <<>> /\ lastTS[d] = 0
    BY <2>1 DEF FeedsTyped, Fed, FedTyped
  <2>4. ASSUME NEW c \in Client PROVE Fed(c)'
    <3>1. CASE c = d
      BY <2>1, <2>3, <3>1, FedAfresh
    <3>2. CASE c # d
      BY <1>3, <2>1, <3>2 DEF FeedsTyped
    <3>3. QED
      BY <3>1, <3>2
  <2>5. QED
    BY <2>2, <2>4
<1>6. CASE Gone(d)
  <2>1. /\ pushed' = [pushed EXCEPT ![d] = <<>>] /\ lastTS' = [lastTS EXCEPT ![d] = 0]
        /\ \/ place' = [place EXCEPT ![d] = "page"] /\ view' = view
           \/ place' = [place EXCEPT ![d] = "away"] /\ view' = [view EXCEPT ![d] = 0]
    BY <1>6 DEF Gone
  <2>2. view' \in [Client -> Nat] /\ \A c \in Client : view'[c] <= Len(batches)
    <3>1. view \in [Client -> Nat] /\ \A c \in Client : view[c] <= Len(batches)
      BY DEF FeedsTyped
    <3>2. CASE view' = view
      BY <3>1, <3>2
    <3>3. CASE view' = [view EXCEPT ![d] = 0]
      BY <1>1, <3>1, <3>3
    <3>4. QED
      BY <2>1, <3>2, <3>3
  <2>3. \A c \in Client : place'[c] = "away" \/ PageOf[c] # "live-feed" => pushed'[c] = <<>>
    BY <1>1, <2>1 DEF FeedsTyped
  <2>4. pushed' \in [Client -> Seq(Nat)] /\ lastTS' \in [Client -> Nat]
    BY <2>1 DEF FeedsTyped
  <2>5. FeedsTyped'
    BY <1>2, <2>2, <2>3, <2>4 DEF FeedsTyped
  <2>6. ASSUME NEW c \in Client PROVE Fed(c)'
    <3>1. CASE c = d
      BY <2>1, <3>1, FedAfresh DEF FeedsTyped
    <3>2. CASE c # d
      <4>1. pushed'[c] = pushed[c] /\ lastTS'[c] = lastTS[c] /\ view'[c] = view[c]
        BY <2>1, <3>2 DEF FeedsTyped
      <4>2. QED
        BY <1>3, <4>1
    <3>3. QED
      BY <3>1, <3>2
  <2>7. QED
    BY <2>5, <2>6
<1>7. CASE Handle(d)
  <2>1. /\ place' = [place EXCEPT ![d] = "writing"]
        /\ view' = [view EXCEPT ![d] = Len(batches)]
    BY <1>7, HandleDoes
  <2>2. view' \in [Client -> Nat] /\ view'[d] = Len(batches)
        /\ \A c \in Client : view'[c] <= Len(batches)
    BY <1>1, <2>1 DEF FeedsTyped
  <2>3. CASE PageOf[d] # "live-feed"
    <3>5. UNCHANGED <<lastTS, pushed>>
      BY <1>7, <2>3, HandleFeeds
    <3>1. FeedsTyped'
      BY <1>1, <1>2, <2>1, <2>2, <2>3, <3>5 DEF FeedsTyped
    <3>2. pushed[d] = <<>> /\ lastTS[d] = 0
      BY <2>3 DEF FeedsTyped, Fed, FedTyped
    <3>3. ASSUME NEW c \in Client PROVE Fed(c)'
      <4>1. CASE c = d
        BY <3>2, <3>5, <4>1, FedAfresh
      <4>2. CASE c # d
        BY <1>3, <2>1, <3>5, <4>2 DEF FeedsTyped
      <4>3. QED
        BY <4>1, <4>2
    <3>4. QED
      BY <3>1, <3>3
  <2>4. CASE PageOf[d] = "live-feed"
    <3>1. PICK rows \in LiveSince(lastTS[d]) : \E sent \in OldestFirst(rows) :
               /\ pushed' = [pushed EXCEPT ![d] = pushed[d] \o sent]
               /\ lastTS' = [lastTS EXCEPT ![d] = IF sent = <<>> THEN lastTS[d]
                                                ELSE TS(Last(sent))]
      BY <1>7, <2>4, HandleFeeds
    <3>2. PICK sent \in OldestFirst(rows) :
               /\ pushed' = [pushed EXCEPT ![d] = pushed[d] \o sent]
               /\ lastTS' = [lastTS EXCEPT ![d] = IF sent = <<>> THEN lastTS[d]
                                                ELSE TS(Last(sent))]
      BY <3>1
    <3>3. /\ pushed'[d] = pushed[d] \o sent
          /\ lastTS'[d] = IF sent = <<>> THEN lastTS[d] ELSE TS(Last(sent))
      BY <3>2, Zenon DEF FeedsTyped
    <3>4. pushed'[d] \in Seq(Nat) /\ lastTS'[d] \in Nat /\ Fed(d)'
      BY <1>1, <1>2, <2>2, <3>3, FeedsMore
    <3>5. \A c \in Client \ {d} : /\ pushed'[c] = pushed[c] /\ lastTS'[c] = lastTS[c]
                                  /\ view'[c] = view[c] /\ place'[c] = place[c]
      BY <1>1, <2>1, <3>2 DEF FeedsTyped
    <3>6. DOMAIN pushed' = Client /\ DOMAIN lastTS' = Client
          /\ pushed' = [c \in Client |-> pushed'[c]] /\ lastTS' = [c \in Client |-> lastTS'[c]]
      BY <3>2 DEF FeedsTyped
    <3>7. pushed' \in [Client -> Seq(Nat)]
      <4>1. \A c \in Client : pushed'[c] \in Seq(Nat)
        BY <3>4, <3>5 DEF FeedsTyped
      <4>2. QED
        BY <3>6, <4>1, Zenon
    <3>8. lastTS' \in [Client -> Nat]
      <4>1. \A c \in Client : lastTS'[c] \in Nat
        BY <3>4, <3>5 DEF FeedsTyped
      <4>2. QED
        BY <3>6, <4>1, Zenon
    <3>9. \A c \in Client : place'[c] = "away" \/ PageOf[c] # "live-feed" => pushed'[c] = <<>>
      <4>1. place'[d] = "writing"
        BY <1>1, <2>1
      <4>2. QED
        BY <2>4, <3>5, <4>1 DEF FeedsTyped
    <3>10. FeedsTyped'
      BY <1>2, <2>2, <3>7, <3>8, <3>9 DEF FeedsTyped
    <3>11. QED
      BY <1>3, <3>4, <3>5, <3>10
  <2>5. QED
    BY <1>7, <2>3, <2>4, HandleFeeds
<1>8. QED
  BY <1>4, <1>5, <1>6, <1>7

(* What the server does, and what becomes of the feeds when it dies.       *)
LEMMA FeedsStep == FeedInv /\ FeedInv' /\ FeedsInv /\ [Next]_vars => FeedsInv'
<1> SUFFICES ASSUME FeedInv, FeedInv', FeedsInv, [Next]_vars PROVE FeedsInv'
  OBVIOUS
<1>1. /\ batches \in Seq(Batches) /\ Len(batches) \in Nat /\ batches' \in Seq(Batches)
      /\ DOMAIN batches = 1..Len(batches)
      /\ place \in [Client -> {"away", "page", "open", "handling", "writing", "leaving"}]
  BY DEF FeedInv, ServerTyped, PageTyped
<1>2. ASSUME UNCHANGED <<pushed, lastTS, view, place>>, session' \in {"up", "down"},
             Len(batches') \in Nat, Len(batches) <= Len(batches'),
             \A i \in DOMAIN batches : batches'[i] = batches[i]
      PROVE  FeedsInv'
  <2>1. FeedsTyped'
    BY <1>1, <1>2 DEF FeedsInv, FeedsTyped
  <2>2. ASSUME NEW c \in Client PROVE Fed(c)'
    BY <1>1, <1>2, FedKept DEF FeedsInv
  <2>3. QED
    BY <2>1, <2>2 DEF FeedsInv
<1>3. session \in {"up", "down"}
  BY DEF FeedsInv, FeedsTyped
<1>4. ASSUME NEW b \in Batches, Commit(b) PROVE FeedsInv'
  <2>1. batches' = Append(batches, b) /\ UNCHANGED <<pushed, lastTS, view, place, session>>
    BY <1>4 DEF Commit, clientVars
  <2>2. Len(batches') = Len(batches) + 1 /\ \A i \in DOMAIN batches : batches'[i] = batches[i]
    BY <1>1, <2>1
  <2>3. QED
    BY <1>1, <1>2, <1>3, <2>1, <2>2
<1>5. CASE Announce \/ AnnounceFails \/ Connect \/ SessionLost \/ Bridge \/ UNCHANGED vars
  <2>1. UNCHANGED <<batches, pushed, lastTS, view, place>> /\ session' \in {"up", "down"}
    BY <1>3, <1>5 DEF Announce, AnnounceFails, Connect, SessionLost, Bridge, Notified,
                      PublishTopic, Publishing, vars, clientVars
  <2>2. QED
    BY <1>1, <1>2, <2>1
<1>6. CASE WebCrash
  <2>1. /\ pushed' = [c \in Client |-> <<>>] /\ lastTS' = [c \in Client |-> 0]
        /\ UNCHANGED <<batches, view>> /\ session' = "down"
    BY <1>6 DEF WebCrash
  <2>2. FeedsTyped'
    BY <2>1 DEF FeedsInv, FeedsTyped
  <2>3. ASSUME NEW c \in Client PROVE Fed(c)'
    BY <2>1, FedAfresh
  <2>4. QED
    BY <2>2, <2>3 DEF FeedsInv
<1>7. ASSUME NEW c \in Client,
             \/ LoadPage(c) \/ OpenStream(c) \/ Handler(c) \/ HandleFails(c)
             \/ Leave(c) \/ Gone(c)
      PROVE  FeedsInv'
  BY <1>7, FeedsClientStep DEF Handler
<1>8. QED
  BY <1>4, <1>5, <1>6, <1>7 DEF Next

THEOREM FeedsInvariant == Spec => []FeedsInv
  BY FeedInvariant, FeedsInit, FeedsStep, PTL DEF Spec

-----------------------------------------------------------------------------
(* Every variable of the hub, the bridge and the pages keeps its type.     *)
THEOREM FeedTyped == Spec => []TypeOK
<1>1. FeedInv /\ FeedsInv => TypeOK
  <2> SUFFICES ASSUME FeedInv, FeedsInv PROVE TypeOK
    OBVIOUS
  <2>1. /\ inbox \in Seq(Nat) /\ \A i \in 1..Len(inbox) : inbox[i] \in 1..Len(batches)
        /\ Len(batches) \in Nat
    BY DEF FeedInv, ServerTyped
  <2>2. inbox \in Seq(1..Len(batches))
    BY <2>1
  <2>3. ASSUME NEW c \in Client
        PROVE  /\ pushed[c] \in Seq(1..Len(batches))
               /\ view[c] \in 0..Len(batches) /\ owed[c] \in 0..Len(batches)
               /\ failed[c] \in BOOLEAN
    <3>1. /\ view[c] \in Nat /\ view[c] <= Len(batches)
          /\ owed[c] \in Nat /\ owed[c] <= Len(batches) /\ failed[c] \in BOOLEAN
      BY DEF FeedInv, PageTyped, Served, FeedsInv, FeedsTyped
    <3>2. pushed[c] \in Seq(Nat) /\ \A k \in DOMAIN pushed[c] : pushed[c][k] \in Rows
      BY DEF FeedsInv, FeedsTyped, Fed, FedTyped
    <3>3. Rows \subseteq 1..Len(batches)
      BY DEF Rows, FeedInv, ServerTyped
    <3>4. \A k \in 1..Len(pushed[c]) : pushed[c][k] \in 1..Len(batches)
      BY <3>2, <3>3
    <3>5. pushed[c] \in Seq(1..Len(batches))
      BY <3>2, <3>4
    <3>6. QED
      BY <2>1, <3>1, <3>5
  <2>4. QED
    BY <2>2, <2>3 DEF TypeOK, FeedInv, ServerTyped, PageTyped, FeedsInv, FeedsTyped
<1>2. QED
  BY <1>1, FeedInvariant, FeedsInvariant, PTL

(* The rows that sseLive sends in one connection come in the order of their *)
(* times, and none comes twice: queryLiveSince asks for what is newer than *)
(* the newest row sent.                                                    *)
THEOREM FeedOrderedHolds == Spec => []FeedOrdered
<1>1. FeedsInv => FeedOrdered
  BY DEF FeedsInv, Fed, FedInOrder, FeedOrdered
<1>2. QED
  BY <1>1, FeedsInvariant, PTL

(* A row that the feed has passed over came late, after a row as new that  *)
(* was sent, or was cut off by LIMIT; nothing that happens to the hub, the *)
(* session or the notifications makes the feed lose a row.                 *)
THEOREM MissedOnlyLateOrCutHolds == Spec => []MissedOnlyLateOrCut
<1>1. FeedInv /\ FeedsInv => MissedOnlyLateOrCut
  <2> SUFFICES ASSUME FeedInv, FeedsInv, NEW c \in Client, Sent(c) # {},
                      NEW i \in Rows, i <= view[c], i \notin Sent(c)
               PROVE  \/ \E j \in {k \in Sent(c) : TS(k) >= TS(i)} : j < i
                      \/ Cardinality({k \in Sent(c) : TS(k) >= TS(i)}) >= Limit
    BY DEF MissedOnlyLateOrCut, Sent
  <2> DEFINE newer == {k \in Sent(c) : TS(k) >= TS(i)}
  <2>1. batches \in Seq(Batches) /\ Fed(c) /\ pushed[c] # <<>>
    BY DEF FeedInv, ServerTyped, FeedsInv, Sent
  <2>2. newer \subseteq Rows
    BY <2>1 DEF Fed, FedTyped, Sent
  <2>3. IsFiniteSet(newer) /\ Cardinality(newer) \in Nat
    BY <2>1, <2>2, RowsAreFinite
  <2>4. CASE \E j \in Sent(c) : j < i /\ TS(j) >= TS(i)
    BY <2>4
  <2>5. ASSUME NEW s \in SUBSET Sent(c), Cardinality(s) >= Limit, \A j \in s : TS(j) >= TS(i)
        PROVE  Cardinality(newer) >= Limit
    <3>1. s \subseteq newer
      BY <2>5
    <3>2. Cardinality(s) <= Cardinality(newer) /\ IsFiniteSet(s)
      BY <2>3, <3>1, FS_Subset
    <3>3. Cardinality(s) \in Nat
      BY <3>2, FS_CardinalityType
    <3>4. QED
      BY <2>3, <2>5, <3>2, <3>3
  <2>6. QED
    BY <2>1, <2>4, <2>5 DEF Fed, FedAllBut
<1>2. QED
  BY <1>1, FeedInvariant, FeedsInvariant, PTL
=============================================================================

------------------------------ MODULE LiveFeed ------------------------------
(***************************************************************************)
(* From a committed batch to the browser: the projector announces what it  *)
(* committed, the web service's LISTEN session queues the notifications,   *)
(* the bridge turns each into publications on the hub, and the handler of  *)
(* each open page queries the tables again.  A batch has one thing to      *)
(* tell, its number stands for what a query made after it can see, and the *)
(* notification's payload is the batch it was sent for.                    *)
(***************************************************************************)
EXTENDS Hub, SequencesExt

CONSTANTS
    PageOf,      \* [Client -> Topic]: the topic of the page a client shows
    Batches,     \* what a batch may tell: [kind, obs, ts]
    MaxBatches,  \* bound: batches committed in a behaviour
    Limit,       \* rows that a query of the live feed returns at most (50)
    Faults,      \* the kinds of fault this instance may meet
    MaxFaults    \* bound: how many faults a behaviour contains

ASSUME LiveFeedAssumption ==
    /\ PageOf \in [Client -> Topic]
    /\ \A b \in Batches : b.kind \in {"packets", "status", "anomaly"} /\ b.ts \in Nat \ {0}
    /\ {"live-feed", "overview", "anomalies"} \cup {b.obs : b \in Batches} \subseteq Topic
    /\ MaxBatches \in Nat
    /\ Limit \in Nat \ {0}
    /\ Faults \subseteq {"notify", "session", "query", "webCrash"}
    /\ MaxFaults \in Nat

VARIABLES
    batches,    \* the committed batches, in commit order
    announcing, \* the batch whose notification is still to be sent, 0 if none
    session,    \* "up" while the web service listens, else "down"
    inbox,      \* notifications queued on the session
    current,    \* the notification that the bridge is handling
    todo,       \* topics it has still to publish for it
    place,      \* where each client is
    lastTS,     \* the live handler's position
    pushed,     \* rows sent to the client in this connection, oldest first
    view,       \* the last batch that the client's last query could see
    owed,       \* the last batch published to the client's channel, full or not
    failed,     \* the client's last query in this connection failed
    faults      \* faults so far

webVars == <<inbox, current, todo>>
clientVars == <<place, lastTS, pushed, view, owed, failed>>
vars == <<hubVars, batches, announcing, session, webVars, clientVars, faults>>

(* Mutant of TopicsOf: a packet notification forgets the observers it names. *)
TopicsOfShared(b) ==
    CASE b.kind = "packets" -> <<"live-feed", "overview">>
      [] b.kind = "status"  -> <<"overview", b.obs>>
      [] b.kind = "anomaly" -> <<"anomalies", "overview">>

(* bridgeNotification's topics, in order. *)
TopicsOf(b) ==
    CASE b.kind = "packets" -> <<"live-feed", "overview", b.obs>>
      [] b.kind = "status"  -> <<"overview", b.obs>>
      [] b.kind = "anomaly" -> <<"anomalies", "overview">>

TypeOK ==
    /\ HubTypeOK
    /\ batches \in Seq(Batches)
    /\ announcing \in 0..Len(batches)
    /\ session \in {"up", "down"}
    /\ inbox \in Seq(1..Len(batches))
    /\ current \in 0..Len(batches)
    /\ todo \in Seq(Topic)
    /\ place \in [Client -> {"away", "page", "open", "handling", "writing", "leaving"}]
    /\ \A c \in Client :
          /\ pushed[c] \in Seq(1..Len(batches))
          /\ view[c] \in 0..Len(batches) /\ owed[c] \in 0..Len(batches)
          /\ failed[c] \in BOOLEAN

Init ==
    /\ HubInit
    /\ batches = <<>> /\ announcing = 0
    /\ session = "down" /\ inbox = <<>>
    /\ current = 0 /\ todo = <<>>
    /\ place = [c \in Client |-> "away"]
    /\ lastTS = [c \in Client |-> 0]
    /\ pushed = [c \in Client |-> <<>>]
    /\ view = [c \in Client |-> 0]
    /\ owed = [c \in Client |-> 0]
    /\ failed = [c \in Client |-> FALSE]
    /\ faults = 0

Fault(k) ==
    /\ k \in Faults
    /\ faults < MaxFaults
    /\ faults' = faults + 1

-----------------------------------------------------------------------------
(* The projector: a batch is announced after its commit, before the next.   *)
Commit(b) ==
    /\ announcing = 0
    /\ Len(batches) < MaxBatches
    /\ batches' = Append(batches, b)
    /\ announcing' = Len(batches) + 1
    /\ UNCHANGED <<hubVars, session, webVars, clientVars, faults>>

Announce ==
    /\ announcing # 0
    /\ inbox' = IF session = "up" THEN Append(inbox, announcing) ELSE inbox
    /\ announcing' = 0
    /\ UNCHANGED <<hubVars, batches, session, current, todo, clientVars, faults>>

(* Publish returns an error (pg_notify failed, or the payload names too many *)
(* observers for its 7900 bytes), which no stage looks at; or the projector  *)
(* died after its commit.                                                    *)
AnnounceFails ==
    /\ announcing # 0
    /\ Fault("notify")
    /\ announcing' = 0
    /\ UNCHANGED <<hubVars, batches, session, webVars, clientVars>>

-----------------------------------------------------------------------------
(* The web service's listener and bridge, one goroutine. *)
Connect ==
    /\ session = "down"
    /\ session' = "up"
    /\ inbox' = <<>>
    /\ UNCHANGED <<hubVars, batches, announcing, current, todo, clientVars, faults>>

SessionLost ==
    /\ session = "up"
    /\ Fault("session")
    /\ session' = "down"
    /\ inbox' = <<>>
    /\ UNCHANGED <<hubVars, batches, announcing, current, todo, clientVars>>

Notified ==
    /\ session = "up" /\ inbox # <<>>
    /\ todo = <<>> /\ Unlocked
    /\ current' = Head(inbox)
    /\ inbox' = Tail(inbox)
    /\ todo' = TopicsOf(batches[Head(inbox)])
    /\ UNCHANGED <<hubVars, batches, announcing, session, clientVars, faults>>

PublishTopic ==
    /\ todo # <<>>
    /\ BeginPublish(Head(todo))
    /\ todo' = Tail(todo)
    /\ owed' = [c \in Client |-> IF c \in subs[Head(todo)] THEN current ELSE owed[c]]
    /\ UNCHANGED <<batches, announcing, session, inbox, current, place, lastTS, pushed,
                   view, failed, faults>>

Publishing ==
    /\ \E c \in Client : SendTo(c)
    /\ UNCHANGED <<batches, announcing, session, webVars, clientVars, faults>>

Bridge == Notified \/ PublishTopic \/ Publishing

-----------------------------------------------------------------------------
(* The page itself is rendered by a query of its own. *)
LoadPage(c) ==
    /\ place[c] = "away"
    /\ place' = [place EXCEPT ![c] = "page"]
    /\ view' = [view EXCEPT ![c] = Len(batches)]
    /\ UNCHANGED <<hubVars, batches, announcing, session, webVars, lastTS, pushed, owed,
                   failed, faults>>

(* The page opens its event stream, for the first time or again. *)
OpenStream(c) ==
    /\ place[c] = "page"
    /\ Subscribe(c, PageOf[c])
    /\ place' = [place EXCEPT ![c] = "open"]
    /\ UNCHANGED <<batches, announcing, session, webVars, lastTS, pushed, view, owed,
                   failed, faults>>

TakeEvent(c) ==
    /\ place[c] = "open"
    /\ Receive(c)
    /\ place' = [place EXCEPT ![c] = "handling"]
    /\ UNCHANGED <<batches, announcing, session, webVars, lastTS, pushed, view, owed,
                   failed, faults>>

Rows == {i \in DOMAIN batches : batches[i].kind = "packets"}
TS(i) == batches[i].ts

(* Mutant of LiveSince: the oldest rows come first. *)
LiveSinceOldest(since) ==
    LET newer == {i \in Rows : TS(i) > since}
    IN  {s \in SUBSET newer :
            /\ Cardinality(s) = IF Limit < Cardinality(newer) THEN Limit
                                ELSE Cardinality(newer)
            /\ \A i \in s, j \in newer \ s : TS(i) <= TS(j)}

(* Mutant of LiveSince: rows as old as the last one are sent again. *)
LiveSinceInclusive(since) ==
    LET newer == {i \in Rows : TS(i) >= since}
    IN  {s \in SUBSET newer :
            /\ Cardinality(s) = IF Limit < Cardinality(newer) THEN Limit
                                ELSE Cardinality(newer)
            /\ \A i \in s, j \in newer \ s : TS(i) >= TS(j)}

(* queryLiveSince: ts > since ORDER BY ts DESC LIMIT, rows of one time being *)
(* cut off in any order.                                                     *)
LiveSince(since) ==
    LET newer == {i \in Rows : TS(i) > since}
    IN  {s \in SUBSET newer :
            /\ Cardinality(s) = IF Limit < Cardinality(newer) THEN Limit
                                ELSE Cardinality(newer)
            /\ \A i \in s, j \in newer \ s : TS(i) >= TS(j)}

(* The handler sends a result from its end, so the oldest row first; rows of *)
(* one time come in any order.                                              *)
OldestFirst(rows) ==
    {sent \in SetToSeqs(rows) :
        \A i, j \in DOMAIN sent : i < j => TS(sent[i]) <= TS(sent[j])}

(* The query, and what it found being written to the page: the live page    *)
(* gets the new rows, the others are rendered anew.                         *)
Handle(c) ==
    /\ place[c] = "handling"
    /\ place' = [place EXCEPT ![c] = "writing"]
    /\ view' = [view EXCEPT ![c] = Len(batches)]
    /\ failed' = [failed EXCEPT ![c] = FALSE]
    /\ IF PageOf[c] # "live-feed" THEN UNCHANGED <<lastTS, pushed>>
       ELSE \E rows \in LiveSince(lastTS[c]) : \E sent \in OldestFirst(rows) :
                /\ pushed' = [pushed EXCEPT ![c] = @ \o sent]
                /\ lastTS' = [lastTS EXCEPT ![c] = IF sent = <<>> THEN @ ELSE TS(Last(sent))]
    /\ UNCHANGED <<hubVars, batches, announcing, session, webVars, owed, faults>>

(* Mutant of Written: the events queued meanwhile are discarded as done. *)
WrittenDrains(c) ==
    /\ place[c] = "writing"
    /\ place' = [place EXCEPT ![c] = "open"]
    /\ queued' = [queued EXCEPT ![c] = 0]
    /\ UNCHANGED <<subs, open, sending, batches, announcing, session, webVars, lastTS,
                   pushed, view, owed, failed, faults>>

(* The handler has written its patches and selects again. *)
Written(c) ==
    /\ place[c] = "writing"
    /\ place' = [place EXCEPT ![c] = "open"]
    /\ UNCHANGED <<hubVars, batches, announcing, session, webVars, lastTS, pushed, view,
                   owed, failed, faults>>

(* The query fails: the event is gone and the page stays as it is. *)
HandleFails(c) ==
    /\ place[c] = "handling"
    /\ Fault("query")
    /\ place' = [place EXCEPT ![c] = "open"]
    /\ failed' = [failed EXCEPT ![c] = TRUE]
    /\ UNCHANGED <<hubVars, batches, announcing, session, webVars, lastTS, pushed, view, owed>>

(* The connection ends, seen by the handler when it selects again (a query  *)
(* that runs on its context fails with it).                                 *)
Leave(c) ==
    /\ place[c] \in {"open", "handling", "writing"}
    /\ Unsubscribe(c)
    /\ place' = [place EXCEPT ![c] = "leaving"]
    /\ UNCHANGED <<batches, announcing, session, webVars, lastTS, pushed, view, owed,
                   failed, faults>>

(* The handler and its locals are gone; the browser has left the page or    *)
(* will open the stream again.                                              *)
Gone(c) ==
    /\ place[c] = "leaving"
    /\ Close(c)
    /\ lastTS' = [lastTS EXCEPT ![c] = 0]
    /\ pushed' = [pushed EXCEPT ![c] = <<>>]
    /\ owed' = [owed EXCEPT ![c] = 0]
    /\ failed' = [failed EXCEPT ![c] = FALSE]
    /\ \/ /\ place' = [place EXCEPT ![c] = "page"]
          /\ UNCHANGED view
       \/ /\ place' = [place EXCEPT ![c] = "away"]
          /\ view' = [view EXCEPT ![c] = 0]
    /\ UNCHANGED <<batches, announcing, session, webVars, faults>>

(* The web process dies and comes back without any of its state. *)
WebCrash ==
    /\ Fault("webCrash")
    /\ subs' = [t \in Topic |-> {}]
    /\ queued' = [c \in Client |-> 0]
    /\ open' = {}
    /\ sending' = {}
    /\ session' = "down" /\ inbox' = <<>> /\ current' = 0 /\ todo' = <<>>
    /\ place' = [c \in Client |-> IF place[c] = "away" THEN "away" ELSE "page"]
    /\ lastTS' = [c \in Client |-> 0]
    /\ pushed' = [c \in Client |-> <<>>]
    /\ owed' = [c \in Client |-> 0]
    /\ failed' = [c \in Client |-> FALSE]
    /\ UNCHANGED <<batches, announcing, view>>

Handler(c) == TakeEvent(c) \/ Handle(c) \/ Written(c)

Next ==
    \/ \E b \in Batches : Commit(b)
    \/ Announce \/ AnnounceFails
    \/ Connect \/ SessionLost \/ Bridge \/ WebCrash
    \/ \E c \in Client :
          \/ LoadPage(c) \/ OpenStream(c) \/ Handler(c) \/ HandleFails(c)
          \/ Leave(c) \/ Gone(c)

Spec == Init /\ [][Next]_vars

(* The bridge's goroutine and the handlers' run; nothing obliges a batch, a *)
(* browser or a fault to come.                                              *)
FairSpec == Spec /\ WF_vars(Bridge) /\ \A c \in Client : WF_vars(Handler(c))

-----------------------------------------------------------------------------
Connected(c) == place[c] \in {"open", "handling", "writing"}

(* What a batch told has to do with the page. *)
Concerns(b, c) ==
    \/ PageOf[c] = "overview"
    \/ PageOf[c] = "live-feed" /\ b.kind = "packets"
    \/ PageOf[c] = "anomalies" /\ b.kind = "anomaly"
    \/ PageOf[c] = b.obs /\ b.kind # "anomaly"

(* A channel that is full drops events, and no page is the worse for it: a  *)
(* connected page that is behind what was published to it has an event      *)
(* waiting, or about to be offered, whose query will see it all.            *)
DropsAreHarmless ==
    \A c \in Client :
        (place[c] \in {"open", "writing"} /\ ~failed[c] /\ view[c] < owed[c])
            => queued[c] > 0 \/ c \in sending

(* In one connection the feed shows rows in the order of their times, and   *)
(* none of them twice.                                                      *)
FeedOrdered ==
    \A c \in Client : \A i, j \in DOMAIN pushed[c] :
        i < j => /\ TS(pushed[c][i]) <= TS(pushed[c][j])
                 /\ pushed[c][i] # pushed[c][j]

(* A row that the feed has passed over was late (it was committed after a   *)
(* row that is at least as new and was shown) or cut off by a full page of  *)
(* rows that are at least as new: dropped events, reconnections and lost    *)
(* sessions are no reason for a row to be missing.                          *)
MissedOnlyLateOrCut ==
    \A c \in {x \in Client : PageOf[x] = "live-feed" /\ Connected(x)} :
        LET shown == {pushed[c][k] : k \in DOMAIN pushed[c]}
        IN  shown # {} =>
              \A i \in {x \in Rows : x <= view[c]} \ shown :
                  LET newer == {j \in shown : TS(j) >= TS(i)}
                  IN  (\E j \in newer : j < i) \/ Cardinality(newer) >= Limit

(* A notification queued on the web service's session ends in a query that  *)
(* sees its batch, on every page that is open by then and has to do with    *)
(* it, unless the page leaves, the session is lost or a query fails.        *)
ShownInTheEnd ==
    \A c \in Client, n \in 1..MaxBatches :
        (/\ Connected(c)
         /\ \E k \in DOMAIN inbox : inbox[k] = n
         /\ Concerns(batches[n], c))
        ~> (view[c] >= n \/ ~Connected(c) \/ session = "down" \/ failed[c])
=============================================================================

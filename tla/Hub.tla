-------------------------------- MODULE Hub ---------------------------------
(***************************************************************************)
(* The in-process hub of the web service.  A publication holds the read    *)
(* lock while it offers the event to one subscriber of the topic after the *)
(* other; subscribing and unsubscribing take the write lock, and the       *)
(* channel is closed after that lock was released.  Events carry nothing   *)
(* the handlers look at, so a channel is the number of events in it.       *)
(***************************************************************************)
EXTENDS Integers, Sequences, FiniteSets

CONSTANTS
    Client,     \* browser connections
    Topic,      \* topics of the hub
    BufferCap   \* capacity of a subscriber's channel (64)

ASSUME HubAssumption == BufferCap \in Nat \ {0}

VARIABLES
    subs,     \* [Topic -> SUBSET Client]: the subscribers' channels by topic
    queued,   \* [Client -> Nat]: events in the client's channel
    open,     \* the clients whose channel is not closed
    sending   \* the subscribers that a running publication has still to serve

hubVars == <<subs, queued, open, sending>>

HubTypeOK ==
    /\ subs \in [Topic -> SUBSET Client]
    /\ queued \in [Client -> 0..BufferCap]
    /\ open \subseteq Client
    /\ sending \subseteq Client

HubInit ==
    /\ subs = [t \in Topic |-> {}]
    /\ queued = [c \in Client |-> 0]
    /\ open = {}
    /\ sending = {}

(* The read lock is not held (that of a publication which has served its  *)
(* last subscriber is as good as released), so the write lock can be taken. *)
Unlocked == sending = {}

Subscribe(c, t) ==
    /\ Unlocked
    /\ subs' = [subs EXCEPT ![t] = @ \cup {c}]
    /\ queued' = [queued EXCEPT ![c] = 0]
    /\ open' = open \cup {c}
    /\ UNCHANGED sending

(* Mutant of Unsubscribe: the entry is deleted without the lock. *)
UnsubscribeUnlocked(c) ==
    /\ subs' = [t \in Topic |-> subs[t] \ {c}]
    /\ UNCHANGED <<queued, open, sending>>

(* The first half of the unsubscribe function; Close is the second one. *)
Unsubscribe(c) ==
    /\ Unlocked
    /\ subs' = [t \in Topic |-> subs[t] \ {c}]
    /\ UNCHANGED <<queued, open, sending>>

Close(c) ==
    /\ open' = open \ {c}
    /\ queued' = [queued EXCEPT ![c] = 0]
    /\ UNCHANGED <<subs, sending>>

BeginPublish(t) ==
    /\ Unlocked
    /\ sending' = subs[t]
    /\ UNCHANGED <<subs, queued, open>>

(* Mutant of SendTo: the event is queued however many there are. *)
SendToFull(c) ==
    /\ c \in sending
    /\ sending' = sending \ {c}
    /\ queued' = [queued EXCEPT ![c] = @ + 1]
    /\ UNCHANGED <<subs, open>>

(* A full channel misses the event. *)
SendTo(c) ==
    /\ c \in sending
    /\ sending' = sending \ {c}
    /\ queued' = [queued EXCEPT ![c] = IF @ < BufferCap THEN @ + 1 ELSE @]
    /\ UNCHANGED <<subs, open>>

Receive(c) ==
    /\ queued[c] > 0
    /\ queued' = [queued EXCEPT ![c] = @ - 1]
    /\ UNCHANGED <<subs, open, sending>>

(* Sending on a closed channel would bring the process down: no publication *)
(* is about to reach a subscriber whose handler has left, however the       *)
(* publication and the two halves of unsubscribing interleave.              *)
NoSendOnClosed == sending \subseteq open
=============================================================================

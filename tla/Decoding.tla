------------------------------ MODULE Decoding ------------------------------
(***************************************************************************)
(* From a row of raw_events to the event that the stages see.              *)
(*                                                                         *)
(* A row has a topic, the sequence of its segments, and a payload.  A      *)
(* segment is <<"id", o>> if it is an observer's id of 32 bytes in hex and *)
(* <<"text", x>> otherwise.  A payload that is JSON of the right shape     *)
(* (json) has the fields that the stages tell apart.  A number is [form,   *)
(* value]: "absent", a JSON "int", a "float" (with its whole part), a      *)
(* string holding an integer ("quoted"), or any "other" string.  A hash is *)
(* None, "other" text or hex digits.  The frame that a packet carries is   *)
(* not read if there is none, if it is too short, marked as not to be      *)
(* retransmitted or refused by the library; else it has what the library   *)
(* finds in it: route, type, the hops of the path, the originator that the *)
(* payload names, and the advert.                                          *)
(***************************************************************************)
EXTENDS Events

LOCAL INSTANCE SequencesExt

Absent == [form |-> "absent", value |-> 0]
Whole(v) == [form |-> "int", value |-> v]

(* flexInt: an error refuses the whole payload. *)
FlexReads(field) == field.form \in {"absent", "int", "float"}
FlexInt(field) == IF field.form = "absent" THEN None ELSE field.value

(* flexStr and atoiPtr: integers only, quoted or not, and never an error. *)
Atoi(field) == IF field.form \in {"int", "quoted"} THEN field.value ELSE None

(* hex.DecodeString without a look at its error. *)
HashOf(hash) == IF hash = "other" THEN Blank ELSE hash

(* NeighborSource: the last hop, else the originator the payload names. *)
NeighborSource(frame) == IF frame.path # <<>> THEN Last(frame.path) ELSE frame.from

-----------------------------------------------------------------------------
(* parseTopicHash with the prefix "meshcore/", whatever ingest subscribed to. *)
AfterPrefix(topic) == IF topic[1] = <<"text", "meshcore">> THEN Tail(topic) ELSE topic

TopicReads(topic) == Len(AfterPrefix(topic)) >= 3 /\ AfterPrefix(topic)[2][1] = "id"
ObserverOf(topic) == AfterPrefix(topic)[2][2]
KindOf(topic) == Last(AfterPrefix(topic))[2]

DecodeStatus(row) ==
    IF ~row.payload.json THEN Dropped(row.ts)
    ELSE IF ~FlexReads(row.payload.floor) THEN Dropped(row.ts)
    ELSE Status(row.ts, ObserverOf(row.topic), row.payload.origin,
                FlexInt(row.payload.floor))

(* What the frame can tell fills the fields that the observer left out; the *)
(* rollups count "F" as flood, which the library never calls a route.       *)
DecodePacket(row) ==
    IF ~row.payload.json THEN Dropped(row.ts)
    ELSE LET p == row.payload
             read == p.frame.read
             event == Packet(row.ts, ObserverOf(row.topic), HashOf(p.hash),
                             IF read THEN Coalesce(p.type, p.frame.type) ELSE p.type,
                             IF read THEN NeighborSource(p.frame) ELSE None,
                             (IF read THEN Coalesce(p.route, p.frame.route) ELSE p.route) = "F",
                             Atoi(p.rssi))
         IN  IF ~read THEN event
             ELSE IF p.frame.advert = None THEN event
             ELSE WithAdvert(event, p.frame.advert.key, p.frame.advert.at,
                             p.frame.advert.name)

Decode(row) ==
    IF ~TopicReads(row.topic) THEN Dropped(row.ts)
    ELSE CASE KindOf(row.topic) = "status"  -> DecodeStatus(row)
           [] KindOf(row.topic) = "packets" -> DecodePacket(row)
           [] OTHER -> Dropped(row.ts)
=============================================================================

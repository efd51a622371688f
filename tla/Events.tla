------------------------------- MODULE Events -------------------------------
(***************************************************************************)
(* Decoded events as the pipeline's stages see them, and the few data      *)
(* operations that their Apply and Flush methods share.                    *)
(*                                                                         *)
(* An event is a record.  kind is "packet", "status", or "dropped" for a   *)
(* row that Decode refuses; ts is the server time of reception, which      *)
(* need not grow along the log; obs is the observer.  Of the payload only  *)
(* what the stages tell apart is kept: the packet hash, one field that is  *)
(* overwritten by later values (type, which stands for packet_type, route  *)
(* and decoded_type), one that keeps its first value (src, the source      *)
(* prefix), the route counter's condition (flood), the RSSI, the advert    *)
(* that the packet carries, and for a status its noise floor and one more  *)
(* optional field (origin, which stands for the name, region, model,       *)
(* firmware, client, source and radio fields that describe the observer).  *)
(***************************************************************************)
EXTENDS Integers, Sequences, FiniteSets

CONSTANTS
    None,     \* an absent optional field (nil or the empty string)
    Blank     \* a hash that is there, but has no byte that could be decoded

ASSUME NoneAssumption == None \notin Int

ZeroTime == 0  \* Go's zero time.Time; real times are positive

Packet(ts, obs, hash, type, src, flood, rssi) ==
    [kind |-> "packet", ts |-> ts, obs |-> obs, hash |-> hash, type |-> type,
     src |-> src, flood |-> flood, rssi |-> rssi, advert |-> None]

(* An ADVERT packet: the node's key, the time the node put on the advert    *)
(* (never Go's zero time), and its name for all that the advert describes.  *)
WithAdvert(packet, key, at, name) ==
    [packet EXCEPT !.advert = [key |-> key, at |-> at, name |-> name]]

Status(ts, obs, origin, floor) ==
    [kind |-> "status", ts |-> ts, obs |-> obs, origin |-> origin, floor |-> floor]

Dropped(ts) == [kind |-> "dropped", ts |-> ts]

IsPacket(e) == e.kind = "packet"

(* len(PacketHash) > 0: a packet without a hash, or with one that is not    *)
(* hexadecimal from its first digit on, has none.                           *)
Hashed(e) == e.hash \notin {None, Blank}

Earlier(a, b) == IF b < a THEN b ELSE a
Later(a, b)   == IF a < b THEN b ELSE a

(* COALESCE: the first of two optional values that is there. *)
Coalesce(a, b) == IF a # None THEN a ELSE b

(* The merge of two optional numbers that keeps the smaller / the larger. *)
OptMin(a, b) == CASE a = None -> b [] b = None -> a [] OTHER -> Earlier(a, b)
OptMax(a, b) == CASE a = None -> b [] b = None -> a [] OTHER -> Later(a, b)

(* Map m with key k set to v. *)
Put(m, k, v) == [x \in DOMAIN m \cup {k} |-> IF x = k THEN v ELSE m[x]]

(* Map m without the keys that fail Keep. *)
Keeping(m, Keep(_)) == [x \in {y \in DOMAIN m : Keep(y)} |-> m[x]]

EmptyMap == [x \in {} |-> x]

RowsOf(table) == {table[i] : i \in DOMAIN table}
=============================================================================

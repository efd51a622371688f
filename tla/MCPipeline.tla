----------------------------- MODULE MCPipeline -----------------------------
(***************************************************************************)
(* Small instances of the pipeline.  Times are few and close to the        *)
(* retention, so that eviction and stragglers occur within a short log.    *)
(***************************************************************************)
EXTENDS Alarms, Shown, Decoding

RowStages    == <<"packet_observations">>
UniqueStages ==
    <<"observers", "observer_status", "packets_unique", "packet_observations">>
FaultStages  == <<"nodes", "rollup_observer", "packet_observations">>
CrashStages  ==
    <<"observers", "nodes", "rollup_observer", "rollup_neighbor", "packet_observations">>
AlarmStages  ==
    <<"rollup_observer", "rollup_neighbor", "packet_observations", "anomalies">>

(* Packets, one of them with a hash; a status; a row that Decode drops. *)
RowEvents ==
    { Packet(1, "a", "h", None, None, FALSE, None),
      Packet(2, "b", None, None, None, FALSE, None),
      Status(2, "a", "x", -110),
      Dropped(9) }

(* Three sightings of hash h by two observers, the last two out of time     *)
(* order; a packet of another hash; statuses, two of them with the same     *)
(* time, the earliest without an origin.                                    *)
UniqueEvents ==
    { Packet(1, "a", "h", "t1", None, FALSE, None),
      Packet(4, "b", "h", None, "s1", FALSE, None),
      Packet(2, "a", "h", "t2", "s2", FALSE, None),
      Packet(4, "a", "g", None, None, FALSE, None),
      Status(4, "a", "x", -110),
      Status(4, "a", "y", -105),
      Status(1, "a", None, -100) }

(* What the observers of this instance publish. *)
On(prefix, o, kind) == <<<<"text", prefix>>, <<"text", "BUF">>, <<"id", o>>, <<"text", kind>>>>
Unread == [read |-> FALSE]
Framed(route, path, advert) ==
    [read |-> TRUE, route |-> route, type |-> None, path |-> path,
     from |-> None, advert |-> advert]
PacketRow(ts, prefix, o, hash, route, rssi, frame) ==
    [ts |-> ts, topic |-> On(prefix, o, "packets"),
     payload |-> [json |-> TRUE, hash |-> hash, type |-> None, route |-> route,
                  rssi |-> rssi, frame |-> frame]]
StatusRow(ts, o, floor) ==
    [ts |-> ts, topic |-> On("meshcore", o, "status"),
     payload |-> [json |-> TRUE, origin |-> "x", floor |-> floor]]

(* Two buckets of observer a, with and without RSSI (none, or not a whole    *)
(* number), hash, flood route (told by the observer or by the frame) and     *)
(* source; an observer that hears the same source and sends no status;       *)
(* adverts of two nodes with the same time; statuses, the later one without  *)
(* a noise floor; a row under another prefix, which Decode drops.            *)
CrashRows ==
    LET x == [key |-> "n", at |-> 5, name |-> "x"]
        y == [key |-> "p", at |-> 5, name |-> "y"]
        z == [key |-> "n", at |-> 5, name |-> "z"]
        quoted(v) == [form |-> "quoted", value |-> v]
    IN  { PacketRow(2, "meshcore", "a", "h", "F", Whole(-100), Framed("FLOOD", <<"r", "s">>, x)),
          PacketRow(3, "meshcore", "b", "g", None, quoted(-80), Framed("FLOOD", <<"s">>, y)),
          PacketRow(2, "meshcore", "a", None, "D", [form |-> "float", value |-> -90],
                    Framed("DIRECT", <<"s">>, None)),
          PacketRow(6, "meshcore", "a", "h", "D", Whole(-90), Framed("DIRECT", <<>>, z)),
          StatusRow(2, "a", [form |-> "float", value |-> -110]),
          StatusRow(3, "a", Absent),
          PacketRow(9, "other", "a", "h", "F", Whole(-100), Unread) }

CrashEvents == {Decode(row) : row \in CrashRows}

(* Fewer of them, so that two faults can hit a log of four; one packet has a *)
(* hash that could not be decoded.                                           *)
FaultEvents ==
    { WithAdvert(Packet(2, "a", "h", None, None, TRUE, -100), "n", 5, "x"),
      WithAdvert(Packet(3, "a", Blank, None, None, FALSE, None), "n", 4, "y"),
      WithAdvert(Packet(6, "a", "g", None, None, FALSE, -90), "n", 5, "z"),
      Dropped(9) }

(* Two observers of source s at minute 1; at minute 2 one of them hears     *)
(* another source and the other one s again, more weakly; then minutes with *)
(* only a noise floor, and with the second observer alone.                  *)
AlarmEvents ==
    { Packet(1, "a", "h", None, "s", FALSE, -80),
      Packet(1, "b", "h", None, "s", FALSE, -80),
      Packet(2, "a", None, None, None, FALSE, -80),
      Packet(2, "b", "h", None, "s", FALSE, -90),
      Status(3, "a", "x", -110),
      Packet(4, "b", "h", None, "s", FALSE, -90) }

DropRule   == [recent |-> 1, base |-> 1, samples |-> 1, threshold |-> 6]
SilentRule == [recent |-> 1, base |-> 3, perMin |-> 100]
GapRule    == [recent |-> 1, base |-> 1, samples |-> 1, perMin |-> 50,
               maxRecent |-> 30, minPeer |-> 50, peers |-> 1]

(* The log may grow only between batches.  A row that is committed while a  *)
(* batch runs is not part of it, so that the same tables are reached when   *)
(* it is committed right after.                                             *)
GrowsBetweenBatches == log' # log => ppc \in {"down", "idle"}
=============================================================================

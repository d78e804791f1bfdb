---------------------------- MODULE StatusServer ----------------------------
(***************************************************************************)
(* Who is told what by the board's status server: prov.c's status_allow,   *)
(* httpreq.c, and statusd.c's handle.  (Its place among the board's tasks  *)
(* is in PhaseGate.)                                                       *)
(*                                                                         *)
(* An address is a network and a host in it.  Left out: decimal octets and *)
(* the characters of a request line.                                       *)
(***************************************************************************)
EXTENDS Integers, Sequences, SequencesExt

CONSTANTS MaxAllow, \* HTTPREQ_MAX_ALLOW
          MaxHead,  \* HTTPREQ_MAX_HEAD
          Bad,      \* an item of the list that is no address
          Nobody    \* no address: the board is not on a network

-----------------------------------------------------------------------------
(* The list.                                                                *)

\* prov_load: only a key that is not there means no list; one that cannot be read is "!".
status_allow(nvs) == CASE nvs.key = "absent" -> [chars |-> 0, items |-> <<>>]
                       [] nvs.key = "unreadable" -> [chars |-> 1, items |-> <<Bad>>]
                       [] nvs.key = "there" -> nvs.text
Broken == [n |-> -1, allow |-> {}]
httpreq_parse_allow_Skips(s) == [n |-> Len(s.items), allow |-> Range(s.items) \ {Bad}]
httpreq_parse_allow(s) ==
    IF Len(s.items) > MaxAllow \/ Bad \in Range(s.items) \/ (s.chars > 0 /\ s.items = <<>>)
      THEN Broken ELSE [n |-> Len(s.items), allow |-> Range(s.items)]

\* httpreq_peer_ok; mask says whether the netmask is known.
httpreq_peer_ok(peer, self, mask, list) ==
    /\ self # Nobody
    /\ IF list.n > 0 THEN peer \in list.allow ELSE mask /\ peer.net = self.net

-----------------------------------------------------------------------------
(* The request: how much of a head has come, and what its first line says.  *)

httpreq_route(h, got) ==
    IF got < h.size THEN IF got >= MaxHead THEN "bad" ELSE "incomplete"
    ELSE IF h.control \/ ~h.three_parts \/ ~h.version THEN "bad"
    ELSE IF h.method # "GET" THEN "bad_method"
    ELSE IF h.target = "no_path" THEN "bad"
    ELSE IF h.target = "/json" THEN "json" ELSE "not_found"
httpreq_status(r) == CASE r = "json" -> 200 [] r = "not_found" -> 404
                       [] r = "bad_method" -> 405 [] r = "bad" -> 400

\* handle: what the peer hears, 0 for nothing.  The bytes come in pieces, up to those that came in time.
\* serves says whether serve_json had the gate and the memory.
Complete(h, n) == httpreq_route(h, n) # "incomplete"
handle(peer, self, mask, list, h, arrived, serves) ==
    IF list.n < 0 \/ ~httpreq_peer_ok(peer, self, mask, list) THEN 0
    ELSE LET room == IF arrived < MaxHead THEN arrived ELSE MaxHead IN
         IF ~Complete(h, room) THEN 0
         ELSE LET r == httpreq_route(h, room) IN
              IF r = "json" /\ ~serves THEN 503 ELSE httpreq_status(r)

-----------------------------------------------------------------------------
\* Whoever hears anything is in the list, whenever there is one at all, broken or not, and on the
\* board's own network when there is none; and a board without an address answers nobody.
\* (httpreq.h:37: "a list that didn't parse mustn't widen to the whole subnet".)
OnlyPeers(nvs, peer, self, mask, h, arrived, serves) ==
    LET list == httpreq_parse_allow(status_allow(nvs)) IN
    handle(peer, self, mask, list, h, arrived, serves) # 0 =>
        /\ self # Nobody
        /\ nvs.key # "absent" => nvs.key = "there"
        /\ nvs.key = "there" /\ nvs.text.chars > 0 => peer \in Range(nvs.text.items)
        /\ nvs.key = "absent" => peer.net = self.net
\* The status document is given for a whole GET of /json only.
StatusIsAskedFor(list, peer, self, mask, h, arrived, serves) ==
    handle(peer, self, mask, list, h, arrived, serves) = 200 =>
        /\ h.method = "GET" /\ h.target = "/json" /\ ~h.control /\ h.three_parts /\ h.version
        /\ h.size <= MaxHead /\ h.size <= arrived /\ serves
=============================================================================

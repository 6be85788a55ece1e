-------------------------- MODULE MCSettingsPatch --------------------------
(***************************************************************************)
(* TLC instance of SettingsPatch: a pool that publishes nothing and one    *)
(* that publishes everything, and a dozen bodies, each field alone and the *)
(* combinations whose parts check each other.                              *)
(***************************************************************************)
EXTENDS SettingsPatch

NoBody ==
  [scalars |-> <<>>,
   actCurrencies |-> [given |-> FALSE, bad |-> FALSE, codes |-> <<"USD", "EUR">>],
   nostrRelays |-> [given |-> FALSE, bad |-> FALSE, count |-> 0, urls |-> 0],
   screens |-> [given |-> FALSE, order |-> "none", ids |-> <<>>, on |-> {}, off |-> {}],
   dnd |-> "absent"]

Set(key, value) == [key |-> key, value |-> value]
Scalars(fields) == [NoBody EXCEPT !.scalars = fields]
Codes(list) == [NoBody EXCEPT !.actCurrencies = [given |-> TRUE, bad |-> FALSE, codes |-> list]]
Relays(n) == [given |-> TRUE, bad |-> FALSE, count |-> n, urls |-> n]
BadRelays(n) == [Relays(n) EXCEPT !.bad = TRUE]
Reorder(list) == [given |-> TRUE, order |-> "all", ids |-> list, on |-> {}, off |-> {}]

(* The order a fresh device lists, the full one, and one of the right      *)
(* length that names a hidden screen (70) for a listed one (0).            *)
Listed == <<40, 20, 0, 3, 4, 6, 10, 30>>
Full   == <<72, 71, 70, 6, 30, 20, 10, 90, 81, 80, 40, 4, 3, 0>>
Swapped == <<40, 20, 70, 3, 4, 6, 10, 30>>

MCBodies ==
  {Scalars(<<Set("miningPoolStats", b)>>) : b \in BOOLEAN}
  \cup {Scalars(<<Set("miningPoolName", p)>>) : p \in {"solo", "pplns", "unknown"}}
  \cup {Scalars(<<Set("nwcEnabled", b)>>) : b \in BOOLEAN}
  \cup {Scalars(<<Set("nostrRelay", 1)>>)}
  \cup {Codes(<<"EUR">>), Codes(<<>>), [Codes(<<>>) EXCEPT !.actCurrencies.bad = TRUE]}
  \cup {[NoBody EXCEPT !.nostrRelays = Relays(n)] : n \in {0, 4}}
  \cup {[Scalars(<<Set("nwcEnabled", TRUE)>>) EXCEPT !.nostrRelays = BadRelays(2)]}
  \cup {[Scalars(<<Set("nwcEnabled", FALSE)>>) EXCEPT !.nostrRelays = Relays(4)]}
  \cup {[NoBody EXCEPT !.screens = Reorder(ids)] : ids \in {Listed, Full, Swapped}}
  \cup {[NoBody EXCEPT !.screens = [given |-> TRUE, order |-> "none", ids |-> <<>>,
                                    on |-> {90}, off |-> ApiIds \ {90}]]}
  \cup {[NoBody EXCEPT !.screens = [Reorder(Listed) EXCEPT !.order = "some"]]}
  \cup {[NoBody EXCEPT !.screens = Reorder(Listed), !.dnd = "out of range"]}
  \cup {Scalars(<<Set("miningPoolStats", TRUE), Set("malformed", TRUE)>>)}
=============================================================================

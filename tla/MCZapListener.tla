--------------------------- MODULE MCZapListener ----------------------------
(***************************************************************************)
(* TLC instances of ZapListener.  A world says who meets whom: two relays  *)
(* that deliver one receipt; one relay, two receipts and the keys they are *)
(* for; a ridden socket.                                                   *)
(***************************************************************************)
EXTENDS ZapListener

CONSTANTS r1, r2, k1, k2

TwoRelays == {r1, r2}
TwoKeys == {k1, k2}
TwoZaps == {1, 2}

World(relays, ridden, calls, to) ==
  [relays |-> relays, ridden |-> ridden, calls |-> calls, to |-> to]

Only(z) == [y \in TwoZaps |-> IF y = z THEN TwoKeys ELSE {}]
Both == [y \in TwoZaps |-> TwoKeys]
OneEach == [y \in TwoZaps |-> IF y = 1 THEN {k1} ELSE {k2}]

RestartWorlds == {World({r1}, TRUE, "restart", Both)}

PatchWorlds == {World({r1}, ridden, "patch", OneEach) : ridden \in BOOLEAN}

MCWorlds ==
  PatchWorlds
  \cup {World({r1, r2}, ridden, "update", Only(1)) : ridden \in BOOLEAN}
  \cup RestartWorlds
=============================================================================

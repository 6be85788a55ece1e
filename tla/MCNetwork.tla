------------------------------ MODULE MCNetwork ------------------------------
(***************************************************************************)
(* TLC instances of Network: a clock that knows its home, with a guest     *)
(* network its user may try, and whose portal may fail to start, and a     *)
(* clock that knows none.                                                  *)
(***************************************************************************)
EXTENDS Network

CONSTANTS home, guest

TwoNetworks == {home, guest}

World(saved, open, calls) == [saved |-> saved, reachable |-> open, refuses |-> calls]

MCWorlds ==
  {World(home, {home}, {}), World(home, {home}, {"start_ap"}), World(None, {home}, {"set_config"})}
RefusingWorlds == {World(home, {}, {"set_config"})}
=============================================================================

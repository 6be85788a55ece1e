---------------------------- MODULE MCNwcClient ----------------------------
(***************************************************************************)
(* TLC instance of NwcClient.  Two payments make the deduplication ring    *)
(* turn and the queue overflow; one is enough for requests that displace   *)
(* each other.                                                             *)
(***************************************************************************)
EXTENDS NwcClient

CONSTANTS p, q   \* payments, model values

MCPayments == {p, q}
Both == {"nip04", "nip44"}

(* Set by SNTP at any time, the first step included. *)
NotSet == {FALSE}

Settled == ToSet(wallet.settled)

(* A burst on the wire: a payment's two notices, or one and an exchange;   *)
(* of a single payment of a NIP-04 wallet, both and INFO or a second       *)
(* request.                                                                *)
FewEvents ==
  Cardinality(wire) <= IF wallet.encryption = "nip04" /\ q \notin Settled THEN 3 ELSE 2

(* The payments differ in nothing: p is the first to settle. *)
InOrder == q \in Settled => wallet.settled[1] = p

(* The second payment, and any announcement before SNTP lands that would   *)
(* be repeated after it, are left to devices whose clock is set.           *)
OneEpoch ==
  /\ q \in Settled => synced
  /\ synced => \A x \in Payments : announced[<<x, FALSE>>] = 0

Bounds == FewEvents /\ InOrder /\ OneEpoch
=============================================================================

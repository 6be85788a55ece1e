----------------------------- MODULE NwcClient -----------------------------
(***************************************************************************)
(* The wallet client (components/nwc/src/client.cpp, queue.cpp) and the    *)
(* three tasks that run it (main/app/boot/init_nwc.cpp):                   *)
(*                                                                         *)
(*   ws      the relay's receive task: INFO, responses, and the light half *)
(*           of a payment notice, which only queues it                     *)
(*   worker  takes notices off the queue, applies the payment and asks for *)
(*           the balance anew                                              *)
(*   main    asks for the balance when the refresh timer says so           *)
(*                                                                         *)
(* The client keeps one outstanding request, its method and its id, which  *)
(* all three write without a lock: a request is noted in one step and      *)
(* published in a later one, a response matched in one and used in a later *)
(* one, and the steps of the tasks interleave.                             *)
(* An id is only ever compared with the noted one, so an event on the wire *)
(* says whether it belongs to the request noted last; equal events of      *)
(* displaced requests count as one.                                        *)
(* The client is modelled from Start() on; the wallet and the relay answer *)
(* in any order, and anything on the wire may be lost.                     *)
(*                                                                         *)
(* A balance is the set of payments it counts.  A payment is its hash;     *)
(* balance_msat_cache_ has no reader and is left out.  What the main task  *)
(* does with an announced payment is in EventLoop.                         *)
(***************************************************************************)
EXTENDS Naturals, FiniteSets, SequencesExt

CONSTANTS
  Payments,        \* payments the wallet may settle
  QueueCapacity,   \* NotificationQueue::kDefaultCapacity
  RingSize,        \* kDedupRing
  MaxExchanges,    \* the timer and a reconnect wait while so many are under way
  Encryptions,     \* what the wallet may advertise, of "nip04" and "nip44"
  Clocks           \* whether SNTP may have landed when the client starts

ASSUME NwcAssumption ==
  /\ QueueCapacity \in Nat \ {0} /\ RingSize \in Nat \ {0}
  /\ MaxExchanges \in Nat \ {0}
  /\ Encryptions \subseteq {"nip44", "nip04"} /\ Clocks \subseteq BOOLEAN

VARIABLES
  client,            \* the fields the tasks share
  ring,              \* the ring of payments seen, guarded by dedup_mu_
  queue,             \* payment notices on their way to the worker
  task,              \* what each task is in the middle of
  refresh_pending,   \* the refresh timer has fired
  boot_poll_done,    \* the one-shot latch of the list_transactions poll
  synced,            \* the wall clock is set: SetNowFn changes its epoch
  hub_balance,       \* nwc_balance_msat on the data hub
  announced,         \* [payment, clock -> how often on_payment fired, up to 2]
  wallet,            \* external: what it settled, in order, and its encryption
  wire,              \* external: events under way between wallet and client
  due                \* payments whose notice arrived while the queue had room

vars == <<client, ring, queue, task, refresh_pending, boot_poll_done, synced,
          hub_balance, announced, wallet, wire, due>>

outside == <<wallet, synced>>

-----------------------------------------------------------------------------
(* Events on the wire. *)

Info == [type |-> "info"]
Request(method) == [type |-> "request", method |-> method, current |-> TRUE]
Response(request, method) ==
  [type |-> "response", method |-> method, current |-> request.current,
   settled |-> IF method = "error" THEN <<>> ELSE wallet.settled]
Notice(kind, p) == [type |-> "notice", kind |-> kind, payment |-> p]

OfType(t) == {m \in wire : m.type = t}
Exchanges == OfType("request") \cup OfType("response")

(* Kind 23196 carries NIP-04, kind 23197 carries NIP-44; a wallet with     *)
(* NIP-44 publishes both for every payment.                                *)
KindOf(encryption) == IF encryption = "nip44" THEN "modern" ELSE "legacy"

NoticeKinds == {"legacy", KindOf(wallet.encryption)}

NoMethod == ""
NoId == "none"
AnId == "signed"

Idle == [at |-> "idle"]
At(t, doing) == task' = [task EXCEPT ![t] = doing]

Init ==
  /\ client = [state |-> "Bootstrapping", encryption |-> "nip44",
               method |-> NoMethod, id |-> NoId]
  /\ ring = [entries |-> [i \in 1 .. RingSize |-> <<>>], next |-> 1]
  /\ queue = <<>>
  /\ task = [t \in {"ws", "worker", "main"} |-> Idle]
  /\ refresh_pending = FALSE
  /\ boot_poll_done = FALSE
  /\ synced \in Clocks
  /\ hub_balance = {}
  /\ announced = [pc \in Payments \X BOOLEAN |-> 0]
  /\ wallet \in [settled : {<<>>} \cup {<<p>> : p \in Payments},
                 encryption : Encryptions]
  /\ wire = {Info}
  /\ due = {}

-----------------------------------------------------------------------------
(* RequestGetBalance, RequestListTransactions: the method is noted first,  *)
(* the id only once the payload is encrypted and the event signed.         *)
Noting(c, method) == [c EXCEPT !.method = method]
Sign(method) == [at |-> "sign", method |-> method]

Displaced(m) == IF "current" \in DOMAIN m THEN [m EXCEPT !.current = FALSE] ELSE m

Publish(t) ==
  /\ task[t].at = "sign"
  /\ client' = [client EXCEPT !.id = AnId]
  /\ wire' = {Displaced(m) : m \in wire} \cup {Request(task[t].method)}
  /\ At(t, Idle)
  /\ UNCHANGED <<ring, queue, refresh_pending, boot_poll_done, hub_balance, announced,
                 due, outside>>

(* Mutant: a payment is compared with the last entry written only. *)
KnownLast(p) ==
  ring.entries[IF ring.next = 1 THEN RingSize ELSE ring.next - 1] = <<p, synced>>

(* ApplyPaymentToBalance: fires on_payment unless the ring knows the hash. *)
(* Its entries carry the clock of the moment; a change of epoch takes      *)
(* every one of them out of the window (now - ts is unsigned).             *)
Known(p) == \E i \in 1 .. RingSize : ring.entries[i] = <<p, synced>>

ApplyPayment(p) ==
  IF Known(p) THEN UNCHANGED <<ring, announced>>
  ELSE /\ ring' = [entries |-> [ring.entries EXCEPT ![ring.next] = <<p, synced>>],
                   next |-> (ring.next % RingSize) + 1]
       /\ announced' = [announced EXCEPT ![<<p, synced>>] = IF @ < 2 THEN @ + 1 ELSE @]

-----------------------------------------------------------------------------
(* The relay's receive task: HandleEvent. *)

Received(m) == m \in wire /\ wire' = wire \ {m}

(* OnInfoEvent, then SetOnReady's callback: the first poll. *)
OnInfo ==
  /\ task["ws"] = Idle
  /\ Received(Info)
  /\ client' = [Noting(client, "get_balance") EXCEPT !.state = "Ready",
                                                    !.encryption = wallet.encryption]
  /\ At("ws", Sign("get_balance"))
  /\ UNCHANGED <<ring, queue, refresh_pending, boot_poll_done, hub_balance, announced,
                 due, outside>>

(* Mutant: the twin is dropped on the encryption alone, which is NIP-44    *)
(* also before INFO.                                                       *)
DropsTwinBeforeInfo(kind) == kind = "legacy" /\ client.encryption = "nip44"

(* The legacy twin of a modern notice is dropped once INFO has come. *)
DropsTwin(kind) ==
  kind = "legacy" /\ client.state = "Ready" /\ client.encryption = "nip44"

(* Mutant: one notice more than the capacity. *)
HasRoomForOneMore == Len(queue) <= QueueCapacity

(* TryPush takes the notice. *)
HasRoom == Len(queue) < QueueCapacity

OnNotification ==
  /\ task["ws"] = Idle
  /\ \E m \in OfType("notice") :
       /\ Received(m)
       /\ queue' = IF DropsTwin(m.kind) \/ ~HasRoom THEN queue
                   ELSE Append(queue, m.payment)
       /\ due' = IF m.kind = KindOf(wallet.encryption) /\ HasRoom
                 THEN due \cup {m.payment} ELSE due
  /\ UNCHANGED <<client, ring, task, refresh_pending, boot_poll_done, hub_balance,
                 announced, outside>>

(* OnResponse takes the response of the outstanding request, or any one    *)
(* while no id is noted.                                                   *)
Matches(m) == client.method # NoMethod /\ (m.current \/ client.id = NoId)

(* The payload decodes as a response to the noted method only. *)
Decoded(m) == IF m.method = client.method THEN m.method ELSE "error"

OnResponse ==
  /\ task["ws"] = Idle
  /\ \E m \in OfType("response") :
       /\ Received(m)
       /\ At("ws", IF Matches(m)
                   THEN [at |-> "matched", reply |-> Decoded(m), settled |-> m.settled]
                   ELSE Idle)
  /\ UNCHANGED <<client, ring, queue, refresh_pending, boot_poll_done, hub_balance,
                 announced, due, outside>>

(* A matched response ends the request whether it decodes or not; then a   *)
(* balance goes to the hub, and the first one asks for the transactions    *)
(* since boot, if the clock is set by then.                                *)
FinishResponse ==
  LET settled == task["ws"].settled
      balance == task["ws"].reply = "get_balance"
      listed == task["ws"].reply = "list_transactions"
      polls == balance /\ ~boot_poll_done /\ synced
  IN  /\ task["ws"].at = "matched"
      /\ client' = [client EXCEPT !.method = IF polls THEN "list_transactions" ELSE NoMethod,
                                  !.id = NoId]
      /\ hub_balance' = IF balance THEN ToSet(settled) ELSE hub_balance
      /\ boot_poll_done' = (boot_poll_done \/ balance)
      /\ At("ws", IF polls THEN Sign("list_transactions")
                  ELSE IF listed /\ settled # <<>>
                       THEN [at |-> "fan", left |-> settled] ELSE Idle)
      /\ UNCHANGED <<ring, queue, refresh_pending, announced, wire, due, outside>>

(* The transactions of the list, in the order they settled. *)
FanOut ==
  /\ task["ws"].at = "fan"
  /\ LET left == task["ws"].left
     IN  /\ ApplyPayment(Head(left))
         /\ At("ws", IF Len(left) > 1 THEN [at |-> "fan", left |-> Tail(left)] ELSE Idle)
  /\ UNCHANGED <<client, queue, refresh_pending, boot_poll_done, hub_balance, wire, due,
                 outside>>

-----------------------------------------------------------------------------
(* The worker: WaitPop, DispatchHeavy. *)

TakeNotice ==
  /\ task["worker"] = Idle
  /\ queue # <<>>
  /\ queue' = Tail(queue)
  /\ At("worker", [at |-> "apply", payment |-> Head(queue)])
  /\ UNCHANGED <<client, ring, refresh_pending, boot_poll_done, hub_balance, announced,
                 wire, due, outside>>

ApplyNotice ==
  /\ task["worker"].at = "apply"
  /\ ApplyPayment(task["worker"].payment)
  /\ At("worker", [at |-> "decide"])
  /\ UNCHANGED <<client, queue, refresh_pending, boot_poll_done, hub_balance, wire, due,
                 outside>>

(* The balance is fetched anew, unless that would displace another request. *)
DecideRefetch ==
  /\ task["worker"].at = "decide"
  /\ At("worker", IF /\ client.state = "Ready"
                     /\ client.method \in {NoMethod, "get_balance"}
                  THEN [at |-> "ask"] ELSE Idle)
  /\ UNCHANGED <<client, ring, queue, refresh_pending, boot_poll_done, hub_balance,
                 announced, wire, due, outside>>

Refetch ==
  /\ task["worker"].at = "ask"
  /\ client' = Noting(client, "get_balance")
  /\ At("worker", Sign("get_balance"))
  /\ UNCHANGED <<ring, queue, refresh_pending, boot_poll_done, hub_balance, announced,
                 wire, due, outside>>

-----------------------------------------------------------------------------
(* The refresh timer and the main task's branch for it (event_loop.cpp).   *)
(* A settings change may start the timer before INFO has come.             *)
TimerFires ==
  /\ Cardinality(Exchanges) < MaxExchanges
  /\ refresh_pending' = TRUE
  /\ UNCHANGED <<client, ring, queue, task, boot_poll_done, hub_balance, announced, wire,
                 due, outside>>

(* Mutant: the timer, like the worker, yields to an outstanding request. *)
PollsUnlessOutstanding == client.state = "Ready" /\ client.method = NoMethod

Polls == client.state = "Ready"

PollBalance ==
  /\ task["main"] = Idle
  /\ refresh_pending
  /\ refresh_pending' = FALSE
  /\ client' = IF Polls THEN Noting(client, "get_balance") ELSE client
  /\ At("main", IF Polls THEN Sign("get_balance") ELSE Idle)
  /\ UNCHANGED <<ring, queue, boot_poll_done, hub_balance, announced, wire, due,
                 outside>>

-----------------------------------------------------------------------------
(* The wallet, the relay and the clock. *)

WalletSettles ==
  \E p \in Payments \ ToSet(wallet.settled) :
    /\ wallet' = [wallet EXCEPT !.settled = Append(@, p)]
    /\ wire' = wire \cup {Notice(k, p) : k \in NoticeKinds}
    /\ UNCHANGED <<client, ring, queue, task, refresh_pending, boot_poll_done, synced,
                   hub_balance, announced, due>>

Answers(method) ==
  \E m \in OfType("request") :
    /\ wire' = (wire \ {m}) \cup {Response(m, method)}
    /\ method \in {m.method, "error"}
    /\ UNCHANGED <<client, ring, queue, task, refresh_pending, boot_poll_done,
                   hub_balance, announced, due, outside>>

WalletAnswers == Answers("get_balance") \/ Answers("list_transactions")

WalletRefuses == Answers("error")

Lose ==
  /\ \E m \in wire : wire' = wire \ {m}
  /\ UNCHANGED <<client, ring, queue, task, refresh_pending, boot_poll_done,
                 hub_balance, announced, due, outside>>

(* After a reconnect the subscriptions are sent again (ReissueAll). *)
RelayReconnects ==
  /\ Cardinality(Exchanges) < MaxExchanges
  /\ wire' = wire \cup {Info}
  /\ UNCHANGED <<client, ring, queue, task, refresh_pending, boot_poll_done,
                 hub_balance, announced, due, outside>>

SntpLands ==
  /\ ~synced
  /\ synced' = TRUE
  /\ UNCHANGED <<client, ring, queue, task, refresh_pending, boot_poll_done,
                 hub_balance, announced, wallet, wire, due>>

-----------------------------------------------------------------------------
Receives == OnInfo \/ OnNotification \/ OnResponse

TaskStep ==
  \/ Receives \/ FinishResponse \/ FanOut
  \/ TakeNotice \/ ApplyNotice \/ DecideRefetch \/ Refetch
  \/ PollBalance
  \/ \E t \in {"ws", "worker", "main"} : Publish(t)

Next ==
  \/ TaskStep
  \/ TimerFires
  \/ WalletSettles \/ WalletAnswers \/ WalletRefuses
  \/ Lose \/ RelayReconnects \/ SntpLands

Spec == Init /\ [][Next]_vars

(* No task stops for good, the timer is periodic, and the wallet answers   *)
(* what reaches it.                                                        *)
Fairness ==
  /\ WF_vars(OnInfo) /\ WF_vars(OnNotification) /\ WF_vars(OnResponse)
  /\ WF_vars(FinishResponse) /\ WF_vars(FanOut)
  /\ WF_vars(TakeNotice) /\ WF_vars(ApplyNotice) /\ WF_vars(DecideRefetch)
  /\ WF_vars(Refetch)
  /\ WF_vars(PollBalance) /\ WF_vars(TimerFires)
  /\ \A t \in {"ws", "worker", "main"} : WF_vars(Publish(t))
  /\ WF_vars(WalletAnswers)

FairSpec == Spec /\ Fairness

-----------------------------------------------------------------------------
(* Properties. *)

Doing ==
  {Idle, [at |-> "decide"], [at |-> "ask"]}
    \cup [at : {"sign"}, method : {"get_balance", "list_transactions"}]
    \cup [at : {"apply"}, payment : Payments]

(* The shared fields, the queue within its capacity, the cursor within the *)
(* ring; only the receive task matches responses and walks a list.         *)
TypeOK ==
  /\ client.state \in {"Bootstrapping", "Ready"}
  /\ client.encryption \in {"nip44", "nip04"}
  /\ client.method \in {NoMethod, "get_balance", "list_transactions"}
  /\ client.id \in {NoId, AnId}
  /\ ring.next \in 1 .. RingSize
  /\ queue \in Seq(Payments) /\ Len(queue) <= QueueCapacity
  /\ task["worker"] \in Doing /\ task["main"] \in Doing
  /\ task["ws"] \in Doing \/ task["ws"].at \in {"matched", "fan"}
  /\ hub_balance \subseteq Payments
  /\ announced \in [Payments \X BOOLEAN -> 0 .. 2]

HowOften(p) == announced[<<p, TRUE>>] + announced[<<p, FALSE>>]

(* Two notices of one payment, the list fetched at boot and two tasks that *)
(* apply payments: while the clock keeps its epoch and the ring holds      *)
(* every payment (IsDuplicatePayment), the client does what AnnounceOnce   *)
(* says and announces payments that settled, each of them once.            *)
Announcer ==
  INSTANCE AnnounceOnce WITH
    Events <- Payments,
    published <- ToSet(wallet.settled),
    times <- [p \in Payments |-> HowOften(p)]

AnnouncesOnce == Announcer!Spec

Announced(p) == HowOften(p) > 0

(* A payment whose own notice arrived while the queue had room is queued,  *)
(* in the worker's hands or announced: dropping the legacy twin never      *)
(* drops the payment (HandleEvent).                                        *)
NoticeKept ==
  \A p \in due :
    \/ p \in ToSet(queue)
    \/ task["worker"] = [at |-> "apply", payment |-> p]
    \/ Announced(p)

(* A request of the wallet is under way or being made. *)
Quiet ==
  /\ Exchanges = {}
  /\ \A t \in DOMAIN task : task[t] = Idle
  /\ ~refresh_pending

(* The connection holds, and the timer's period outlasts an exchange.      *)
Calm ==
  /\ ~(Lose /\ wire' # wire)
  /\ ~(RelayReconnects /\ wire' # wire)
  /\ ~WalletRefuses
  /\ (TimerFires => Quiet)

(* However requests displaced each other before, once INFO has come and    *)
(* the connection holds the hub ends up with the wallet's balance: a lost  *)
(* response does not block the refresh (the main task's poll).             *)
BalanceCatchesUp ==
  <>[][Calm]_vars /\ <>(client.state = "Ready")
    => <>[](hub_balance = ToSet(wallet.settled))
=============================================================================

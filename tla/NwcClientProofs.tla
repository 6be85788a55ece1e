-------------------------- MODULE NwcClientProofs ---------------------------
(***************************************************************************)
(* Theorems about NwcClient, for any payments, wallets and bounds: its     *)
(* types, that a payment's notice is kept, and that the client with its    *)
(* three tasks implements AnnounceOnce while the clock is set and the ring *)
(* holds every payment.                                                    *)
(***************************************************************************)
EXTENDS NwcClient, FiniteSetTheorems, SequenceTheorems, TLAPS

HoldsAll == IsFiniteSet(Payments) /\ Cardinality(Payments) <= RingSize
ClockSet == Clocks \subseteq {TRUE}

(***************************************************************************)
(* The invariant: what is under way, on the wire, in the queue or in a     *)
(* task's hands, speaks of settled payments only ...                       *)
(***************************************************************************)

Settled == ToSet(wallet.settled)
Methods == {"get_balance", "list_transactions"}
Replies == Methods \cup {"error"}

Requests == [type : {"request"}, method : Methods, current : BOOLEAN]
Responses(S) == [type : {"response"}, method : Replies, current : BOOLEAN, settled : Seq(S)]
Notices(S) == [type : {"notice"}, kind : {"modern", "legacy"}, payment : S]
Events(S) == {Info} \cup Requests \cup Responses(S) \cup Notices(S)

Signing == [at : {"sign"}, method : Methods]
Matched(S) == [at : {"matched"}, reply : Replies, settled : Seq(S)]
Fanning(S) == [at : {"fan"}, left : Seq(S) \ {<<>>}]
Applying(S) == [at : {"apply"}, payment : S]

WsJobs(S) == {Idle} \cup Signing \cup Matched(S) \cup Fanning(S)
WorkerJobs(S) == {Idle, [at |-> "decide"], [at |-> "ask"]} \cup Signing \cup Applying(S)
MainJobs == {Idle} \cup Signing

TasksIn(S) ==
  /\ task = [t \in {"ws", "worker", "main"} |-> task[t]]
  /\ task["ws"] \in WsJobs(S) /\ task["worker"] \in WorkerJobs(S) /\ task["main"] \in MainJobs

UnderWay(S) == wire \subseteq Events(S) /\ queue \in Seq(S) /\ TasksIn(S)

WalletOK == wallet \in [settled : Seq(Payments), encryption : {"nip04", "nip44"}]

(***************************************************************************)
(* ... and the ring, filled from its start and never overwritten, holds    *)
(* exactly the payments announced, each once.                              *)
(***************************************************************************)

Free(i) == ring.entries[i] = <<>>
Full == ring.next = 1 /\ \A i \in 1 .. RingSize : ~Free(i)

RingOK ==
  /\ ring = [entries |-> ring.entries, next |-> ring.next]
  /\ DOMAIN ring.entries = 1 .. RingSize
  /\ ring.entries = [i \in 1 .. RingSize |-> ring.entries[i]]
  /\ \A i \in 1 .. RingSize : Free(i) \/ \E p \in Payments : ring.entries[i] = <<p, synced>>
  /\ ring.next \in 1 .. RingSize
  /\ Full \/ \A i \in 1 .. RingSize : Free(i) <=> i >= ring.next
  /\ \A i, j \in 1 .. RingSize : ~Free(i) /\ ring.entries[i] = ring.entries[j] => i = j

Epochs == BOOLEAN

Tallied ==
  /\ synced \in Epochs
  /\ announced \in [Payments \X Epochs -> {0, 1}]
  /\ \A p \in Payments : /\ \A c \in Epochs : c # synced => announced[<<p, c>>] = 0
                         /\ announced[<<p, synced>>] = 1 <=> Known(p)

AInv == synced = TRUE /\ WalletOK /\ UnderWay(Settled) /\ RingOK /\ Tallied

(***************************************************************************)
(* The ring.                                                               *)
(***************************************************************************)

LEMMA PairsAreNoHoles == \A x, y : <<x, y>> # <<>>
  OBVIOUS

(* A ring that holds all payments is not full while it misses one.         *)
LEMMA RingHasRoom ==
  ASSUME HoldsAll, RingOK, NEW p \in Payments, ~Known(p)
  PROVE  Free(ring.next) /\ ~Full
<1>1. ASSUME Full PROVE FALSE
  <2> DEFINE g == [i \in 1 .. RingSize + 1 |-> IF i = RingSize + 1 THEN p
                                               ELSE ring.entries[i][1]]
  <2>1. RingSize \in Nat \ {0}
    BY NwcAssumption
  <2>2. \A i \in 1 .. RingSize : \E q \in Payments : ring.entries[i] = <<q, synced>>
    BY <1>1 DEF RingOK, Full
  <2>3. \A i \in 1 .. RingSize : /\ ring.entries[i][1] \in Payments
                                 /\ ring.entries[i] = <<ring.entries[i][1], synced>>
    BY <2>2
  <2>4. g \in [1 .. RingSize + 1 -> Payments]
    BY <2>1, <2>3
  <2>5. ASSUME NEW i \in 1 .. RingSize + 1, NEW j \in 1 .. RingSize + 1, g[i] = g[j]
        PROVE  i = j
    <3>1. CASE i = RingSize + 1 \/ j = RingSize + 1
      BY <2>1, <2>3, <2>5, <3>1 DEF Known
    <3>2. CASE i # RingSize + 1 /\ j # RingSize + 1
      <4>1. i \in 1 .. RingSize /\ j \in 1 .. RingSize
        BY <2>1, <3>2
      <4>2. ring.entries[i] = ring.entries[j]
        BY <2>3, <2>5, <3>2, <4>1
      <4> QED BY <1>1, <4>1, <4>2 DEF RingOK, Full
    <3> QED BY <3>1, <3>2
  <2>6. g \in Injection(1 .. RingSize + 1, Payments)
    BY <2>4, <2>5 DEF Injection, IsInjective
  <2> HIDE DEF g
  <2>7. Cardinality(1 .. RingSize + 1) <= Cardinality(Payments)
    BY <2>6, FS_Injection DEF HoldsAll
  <2>8. Cardinality(1 .. RingSize + 1) = RingSize + 1
    BY <2>1, FS_Interval
  <2>9. Cardinality(Payments) \in Nat
    BY FS_CardinalityType DEF HoldsAll
  <2> QED BY <2>1, <2>7, <2>8, <2>9 DEF HoldsAll
<1>2. \A i \in 1 .. RingSize : Free(i) <=> i >= ring.next
  BY <1>1 DEF RingOK
<1>3. ring.next \in 1 .. RingSize /\ RingSize \in Nat
  BY NwcAssumption DEF RingOK
<1> QED BY <1>1, <1>2, <1>3

(* ApplyPayment fills the next hole of the ring and keeps the account.     *)
LEMMA ApplyKeepsAccount ==
  ASSUME HoldsAll, RingOK, Tallied, NEW p \in Payments, ApplyPayment(p), synced' = synced
  PROVE  /\ RingOK' /\ Tallied'
         /\ \/ UNCHANGED announced
            \/ /\ announced[<<p, synced>>] = 0
               /\ announced' = [announced EXCEPT ![<<p, synced>>] = 1]
<1>1. CASE Known(p)
  <2>1. UNCHANGED <<ring, announced, synced>>
    BY <1>1 DEF ApplyPayment
  <2>2. RingOK'
    BY <2>1 DEF RingOK, Free, Full
  <2>3. Tallied'
    BY <2>1 DEF Tallied, Known
  <2> QED BY <2>1, <2>2, <2>3
<1>2. CASE ~Known(p)
  <2> DEFINE pair == <<p, synced>>
  <2>1. Free(ring.next) /\ ~Full
    BY <1>2, RingHasRoom
  <2>2. /\ ring'.entries = [ring.entries EXCEPT ![ring.next] = <<p, synced>>]
        /\ ring'.next = (ring.next % RingSize) + 1
        /\ ring' = [entries |-> ring'.entries, next |-> ring'.next]
    BY <1>2 DEF ApplyPayment
  <2>3. /\ <<p, synced>> \in Payments \X Epochs
        /\ announced[<<p, synced>>] = 0
    BY <1>2 DEF Tallied
  <2>4. announced' = [announced EXCEPT ![<<p, synced>>] = 1]
    BY <1>2, <2>3 DEF ApplyPayment, Tallied
  <2>5. RingSize \in Nat \ {0} /\ ring.next \in 1 .. RingSize
    BY NwcAssumption DEF RingOK
  <2>6. ring'.next = IF ring.next = RingSize THEN 1 ELSE ring.next + 1
    BY <2>2, <2>5
  <2>7. /\ ring'.entries[ring.next] = <<p, synced>>
        /\ \A i \in 1 .. RingSize : i # ring.next => ring'.entries[i] = ring.entries[i]
        /\ DOMAIN ring'.entries = 1 .. RingSize
        /\ ring'.entries = [i \in 1 .. RingSize |-> ring'.entries[i]]
    BY <2>2, <2>5 DEF RingOK
  <2>8. \A i \in 1 .. RingSize : Free(i)' <=> Free(i) /\ i # ring.next
    BY <2>5, <2>7, PairsAreNoHoles DEF Free
  <2>9. \A i \in 1 .. RingSize : Free(i) <=> i >= ring.next
    BY <2>1 DEF RingOK
  <2>10. Full' \/ \A i \in 1 .. RingSize : Free(i)' <=> i >= ring'.next
    BY <2>5, <2>6, <2>8, <2>9 DEF Full
  <2>11. \A i, j \in 1 .. RingSize : ~Free(i)' /\ ring'.entries[i] = ring'.entries[j] => i = j
    BY <1>2, <2>7, <2>8 DEF RingOK, Known
  <2>12. \A i \in 1 .. RingSize :
            Free(i)' \/ \E q \in Payments : ring'.entries[i] = <<q, synced>>
    BY <2>7, <2>8 DEF RingOK
  <2>13. RingOK'
    <3>1. ring'.next \in 1 .. RingSize
      BY <2>5, <2>6
    <3> QED BY <2>2, <2>7, <2>10, <2>11, <2>12, <3>1 DEF RingOK
  <2>14. \A q \in Payments : Known(q)' <=> Known(q) \/ q = p
    <3>1. \A q \in Payments :
             <<q, synced>> # <<>> /\ (<<q, synced>> = <<p, synced>> <=> q = p)
      BY PairsAreNoHoles
    <3> QED BY <2>1, <2>5, <2>7, <3>1 DEF Known, Free
  <2>15. Tallied'
    BY <2>3, <2>4, <2>14 DEF Tallied
  <2> QED BY <2>3, <2>4, <2>13, <2>15
<1> QED BY <1>1, <1>2

(***************************************************************************)
(* What is under way stays about settled payments: the steps of the tasks, *)
(* the wallet and the relay, while the wallet settles nothing.             *)
(***************************************************************************)

LEMMA DisplacedStaysEvent == \A S : \A m \in Events(S) : Displaced(m) \in Events(S)
<1> SUFFICES ASSUME NEW S, NEW m \in Events(S) PROVE Displaced(m) \in Events(S)
  OBVIOUS
<1>1. CASE m = Info
  <2>1. "current" \notin DOMAIN m
    BY <1>1 DEF Info
  <2> QED BY <2>1 DEF Displaced
<1>2. CASE m \in Requests
  <2>1. Displaced(m) \in Requests
    BY <1>2 DEF Requests, Displaced
  <2> QED BY <2>1 DEF Events
<1>3. CASE m \in Responses(S)
  <2>1. Displaced(m) \in Responses(S)
    BY <1>3 DEF Responses, Displaced
  <2> QED BY <2>1 DEF Events
<1>4. CASE m \in Notices(S)
  <2>1. "current" \notin DOMAIN m
    BY <1>4 DEF Notices
  <2> QED BY <2>1 DEF Displaced
<1> QED BY <1>1, <1>2, <1>3, <1>4 DEF Events

LEMMA TaskGoesOn ==
  ASSUME NEW S, TasksIn(S), NEW t \in {"ws", "worker", "main"}, NEW doing, At(t, doing),
         \/ t = "ws" /\ doing \in WsJobs(S)
         \/ t = "worker" /\ doing \in WorkerJobs(S)
         \/ t = "main" /\ doing \in MainJobs
  PROVE  TasksIn(S)'
BY DEF TasksIn, At

LEMMA SigningJobs ==
  ASSUME NEW S, NEW method \in Methods
  PROVE  Sign(method) \in WsJobs(S) /\ Sign(method) \in WorkerJobs(S) /\ Sign(method) \in MainJobs
BY DEF Sign, Signing, WsJobs, WorkerJobs, MainJobs

LEMMA WalletListsSettled ==
  ASSUME WalletOK
  PROVE  wallet.settled \in Seq(Settled) /\ Settled \subseteq Payments
<1>1. wallet.settled \in Seq(Payments)
  BY DEF WalletOK
<1> DEFINE list == wallet.settled
<1>2. \A i \in 1 .. Len(list) : list[i] \in Settled
  BY <1>1 DEF Settled, ToSet
<1>3. list \in [1 .. Len(list) -> Settled] /\ Len(list) \in Nat
  BY <1>1, <1>2
<1>4. Settled \subseteq Payments
  BY <1>1 DEF Settled, ToSet
<1> QED BY <1>3, <1>4

LEMMA PublishKeeps ==
  ASSUME NEW S, UnderWay(S), NEW t \in {"ws", "worker", "main"}, Publish(t)
  PROVE  UnderWay(S)' /\ UNCHANGED <<ring, announced, outside>>
<1>1. task[t].method \in Methods
  BY DEF Publish, UnderWay, TasksIn, WsJobs, WorkerJobs, MainJobs, Idle, Signing, Matched,
         Fanning, Applying
<1>2. Request(task[t].method) \in Events(S)
  <2>1. Request(task[t].method) \in Requests
    BY <1>1 DEF Request, Requests
  <2> QED BY <2>1 DEF Events
<1>3. (wire \subseteq Events(S))'
  BY <1>2, DisplacedStaysEvent DEF Publish, UnderWay
<1>4. TasksIn(S)'
  BY TaskGoesOn DEF Publish, UnderWay, WsJobs, WorkerJobs, MainJobs
<1> QED BY <1>3, <1>4 DEF Publish, UnderWay

LEMMA OnInfoKeeps ==
  ASSUME NEW S, UnderWay(S), OnInfo
  PROVE  UnderWay(S)' /\ UNCHANGED <<ring, announced, outside>>
<1>1. TasksIn(S)'
  BY TaskGoesOn, SigningJobs DEF OnInfo, UnderWay, Methods
<1> QED BY <1>1 DEF OnInfo, UnderWay, Received

LEMMA OnNotificationKeeps ==
  ASSUME NEW S, UnderWay(S), OnNotification
  PROVE  UnderWay(S)' /\ UNCHANGED <<ring, announced, outside>>
<1> PICK m \in OfType("notice") :
      /\ Received(m)
      /\ queue' = IF DropsTwin(m.kind) \/ ~HasRoom THEN queue ELSE Append(queue, m.payment)
  BY DEF OnNotification
<1>1. m \in Notices(S)
  BY DEF OfType, UnderWay, Events, Info, Requests, Responses, Notices
<1>2. (queue \in Seq(S))'
  BY <1>1 DEF UnderWay, Notices
<1> QED BY <1>2 DEF OnNotification, UnderWay, Received, TasksIn

LEMMA OnResponseKeeps ==
  ASSUME NEW S, UnderWay(S), OnResponse
  PROVE  UnderWay(S)' /\ UNCHANGED <<ring, announced, outside>>
<1> PICK m \in OfType("response") :
      /\ Received(m)
      /\ At("ws", IF Matches(m)
                  THEN [at |-> "matched", reply |-> Decoded(m), settled |-> m.settled]
                  ELSE Idle)
  BY DEF OnResponse
<1>1. m \in Responses(S)
  BY DEF OfType, UnderWay, Events, Info, Requests, Responses, Notices
<1>2. Decoded(m) \in Replies /\ m.settled \in Seq(S)
  BY <1>1 DEF Responses, Decoded, Replies
<1>3. [at |-> "matched", reply |-> Decoded(m), settled |-> m.settled] \in WsJobs(S)
  BY <1>2 DEF Matched, WsJobs
<1>4. TasksIn(S)'
  BY <1>3, TaskGoesOn DEF UnderWay, WsJobs
<1> QED BY <1>4 DEF OnResponse, UnderWay, Received

LEMMA FinishResponseKeeps ==
  ASSUME NEW S, UnderWay(S), FinishResponse
  PROVE  UnderWay(S)' /\ UNCHANGED <<ring, announced, outside>>
<1>1. task["ws"] \in Matched(S)
  BY DEF FinishResponse, UnderWay, TasksIn, WsJobs, Idle, Signing, Matched, Fanning
<1>2. task["ws"].settled # <<>> => [at |-> "fan", left |-> task["ws"].settled] \in WsJobs(S)
  BY <1>1 DEF Matched, Fanning, WsJobs
<1>3. Idle \in WsJobs(S) /\ Sign("list_transactions") \in WsJobs(S)
  BY SigningJobs DEF WsJobs, Methods
<1>4. TasksIn(S)'
  BY <1>2, <1>3, TaskGoesOn DEF FinishResponse, UnderWay
<1> QED BY <1>4 DEF FinishResponse, UnderWay

LEMMA RestOfList ==
  \A S : \A list \in Seq(S) : Len(list) > 1 => Tail(list) \in Seq(S) /\ Tail(list) # <<>>
<1> SUFFICES ASSUME NEW S, NEW list \in Seq(S), Len(list) > 1
             PROVE  Tail(list) \in Seq(S) /\ Tail(list) # <<>>
  OBVIOUS
<1>1. list # <<>> /\ Len(list) \in Nat
  BY EmptySeq, LenProperties
<1> DEFINE tail == Tail(list)
<1>2. tail \in Seq(S) /\ Len(tail) = Len(list) - 1
  BY <1>1, HeadTailProperties, Zenon
<1> HIDE DEF tail
<1>3. Len(tail) # 0
  BY <1>1, <1>2
<1>4. tail # <<>>
  BY <1>3
<1> QED BY <1>2, <1>4 DEF tail

LEMMA FanOutKeeps ==
  ASSUME NEW S, UnderWay(S), FanOut
  PROVE  /\ UnderWay(S)' /\ UNCHANGED outside
         /\ \E p \in S : ApplyPayment(p)
<1> DEFINE left == task["ws"].left
<1>1. task["ws"] \in Fanning(S)
  BY DEF FanOut, UnderWay, TasksIn, WsJobs, Idle, Signing, Matched, Fanning
<1>2. left \in Seq(S) /\ left # <<>>
  BY <1>1 DEF Fanning
<1>3. Head(left) \in S
  BY <1>2
<1>4. Len(left) > 1 => Tail(left) \in Seq(S) /\ Tail(left) # <<>>
  BY <1>2, RestOfList
<1>5. Len(left) > 1 => [at |-> "fan", left |-> Tail(left)] \in WsJobs(S)
  BY <1>4 DEF Fanning, WsJobs
<1>6. TasksIn(S)'
  BY <1>5, TaskGoesOn DEF FanOut, UnderWay, WsJobs
<1> QED BY <1>3, <1>6 DEF FanOut, UnderWay

LEMMA TakeNoticeKeeps ==
  ASSUME NEW S, UnderWay(S), TakeNotice
  PROVE  UnderWay(S)' /\ UNCHANGED <<ring, announced, outside>>
<1>1. Head(queue) \in S /\ Tail(queue) \in Seq(S)
  BY DEF TakeNotice, UnderWay
<1>2. [at |-> "apply", payment |-> Head(queue)] \in WorkerJobs(S)
  BY <1>1 DEF Applying, WorkerJobs
<1>3. TasksIn(S)'
  BY <1>2, TaskGoesOn DEF TakeNotice, UnderWay
<1> QED BY <1>1, <1>3 DEF TakeNotice, UnderWay

LEMMA ApplyNoticeKeeps ==
  ASSUME NEW S, UnderWay(S), ApplyNotice
  PROVE  /\ UnderWay(S)' /\ UNCHANGED outside
         /\ \E p \in S : ApplyPayment(p)
<1>1. task["worker"].payment \in S
  BY DEF ApplyNotice, UnderWay, TasksIn, WorkerJobs, Idle, Signing, Applying
<1>2. TasksIn(S)'
  BY TaskGoesOn DEF ApplyNotice, UnderWay, WorkerJobs
<1> QED BY <1>1, <1>2 DEF ApplyNotice, UnderWay

LEMMA RefetchKeeps ==
  ASSUME NEW S, UnderWay(S), DecideRefetch \/ Refetch
  PROVE  UnderWay(S)' /\ UNCHANGED <<ring, announced, outside>>
<1>1. [at |-> "ask"] \in WorkerJobs(S) /\ Idle \in WorkerJobs(S)
      /\ Sign("get_balance") \in WorkerJobs(S)
  BY SigningJobs DEF WorkerJobs, Methods
<1>2. TasksIn(S)'
  BY <1>1, TaskGoesOn DEF DecideRefetch, Refetch, UnderWay
<1> QED BY <1>2 DEF DecideRefetch, Refetch, UnderWay

LEMMA PollBalanceKeeps ==
  ASSUME NEW S, UnderWay(S), PollBalance
  PROVE  UnderWay(S)' /\ UNCHANGED <<ring, announced, outside>>
<1>1. Sign("get_balance") \in MainJobs /\ Idle \in MainJobs
  BY SigningJobs DEF MainJobs, Methods
<1>2. TasksIn(S)'
  BY <1>1, TaskGoesOn DEF PollBalance, UnderWay
<1> QED BY <1>2 DEF PollBalance, UnderWay

LEMMA AnswersKeep ==
  ASSUME NEW S, wallet.settled \in Seq(S), UnderWay(S), NEW method \in Replies, Answers(method)
  PROVE  UnderWay(S)' /\ UNCHANGED <<ring, announced, outside>>
<1> PICK m \in OfType("request") : wire' = (wire \ {m}) \cup {Response(m, method)}
  BY DEF Answers
<1>1. m \in Requests
  BY DEF OfType, UnderWay, Events, Info, Requests, Responses, Notices
<1>2. <<>> \in Seq(S)
  OBVIOUS
<1>3. Response(m, method) \in Responses(S)
  BY <1>1, <1>2 DEF Response, Requests, Responses
<1>4. (wire \subseteq Events(S))'
  BY <1>3 DEF UnderWay, Events
<1> QED BY <1>4 DEF Answers, UnderWay, TasksIn

LEMMA RelayKeeps ==
  ASSUME NEW S, UnderWay(S), TimerFires \/ Lose \/ RelayReconnects
  PROVE  UnderWay(S)' /\ UNCHANGED <<ring, announced, outside>>
<1>1. (wire \subseteq Events(S))'
  BY DEF TimerFires, Lose, RelayReconnects, UnderWay, Events
<1> QED BY <1>1 DEF TimerFires, Lose, RelayReconnects, UnderWay, TasksIn

(***************************************************************************)
(* The wallet settles one payment more: whatever spoke of settled payments *)
(* still does.                                                             *)
(***************************************************************************)

LEMMA WiderLists ==
  ASSUME NEW S, NEW T, S \subseteq T
  PROVE  Seq(S) \subseteq Seq(T)
<1> SUFFICES ASSUME NEW s \in Seq(S) PROVE s \in Seq(T)
  OBVIOUS
<1>1. s \in [1 .. Len(s) -> S] /\ Len(s) \in Nat
  OBVIOUS
<1>2. s \in [1 .. Len(s) -> T]
  BY <1>1
<1> QED BY <1>1, <1>2

LEMMA WiderEvents ==
  ASSUME NEW S, NEW T, S \subseteq T
  PROVE  Events(S) \subseteq Events(T) /\ (TasksIn(S) => TasksIn(T))
<1>1. Seq(S) \subseteq Seq(T)
  BY WiderLists
<1>2. Responses(S) \subseteq Responses(T) /\ Notices(S) \subseteq Notices(T)
  BY <1>1 DEF Responses, Notices
<1>3. WsJobs(S) \subseteq WsJobs(T)
  BY <1>1 DEF WsJobs, Matched, Fanning
<1>4. WorkerJobs(S) \subseteq WorkerJobs(T)
  BY DEF WorkerJobs, Applying
<1> QED BY <1>2, <1>3, <1>4 DEF Events, TasksIn

LEMMA SettlingKeeps ==
  ASSUME NEW S, S = Settled, WalletOK, UnderWay(S), WalletSettles
  PROVE  /\ WalletOK' /\ UnderWay(Settled)'
         /\ \E p \in Payments \ Settled : Settled' = Settled \cup {p}
         /\ UNCHANGED <<ring, announced, synced>>
<1> PICK p \in Payments \ S :
      /\ wallet' = [wallet EXCEPT !.settled = Append(@, p)]
      /\ wire' = wire \cup {Notice(k, p) : k \in NoticeKinds}
  BY DEF WalletSettles, Settled
<1> DEFINE list == wallet.settled
           T == S \cup {p}
<1>1. wallet.settled \in Seq(Payments) /\ wallet.encryption \in {"nip04", "nip44"}
  BY DEF WalletOK
<1>2. wallet'.settled = Append(wallet.settled, p) /\ WalletOK'
  <2>1. wallet' = [settled |-> Append(wallet.settled, p), encryption |-> wallet.encryption]
    BY DEF WalletOK
  <2>2. Append(wallet.settled, p) \in Seq(Payments)
    BY <1>1
  <2> QED BY <1>1, <2>1, <2>2 DEF WalletOK
<1>3. Settled' = T
  <2>1. Settled = {list[i] : i \in 1 .. Len(list)}
    BY <1>1 DEF Settled, ToSet
  <2>2. Settled' = {Append(list, p)[i] : i \in 1 .. Len(list) + 1}
    BY <1>1, <1>2 DEF Settled, ToSet
  <2>3. /\ Len(list) \in Nat /\ Append(list, p)[Len(list) + 1] = p
        /\ \A i \in 1 .. Len(list) : Append(list, p)[i] = list[i]
    BY <1>1
  <2> HIDE DEF list
  <2> QED BY <2>1, <2>2, <2>3
<1>4. Events(S) \subseteq Events(T) /\ (TasksIn(S) => TasksIn(T))
  BY WiderEvents
<1>5. \A k \in NoticeKinds : Notice(k, p) \in Events(T)
  BY DEF NoticeKinds, KindOf, Notice, Notices, Events
<1>6. UnderWay(T)'
  <2>1. (wire \subseteq Events(T))'
    BY <1>4, <1>5 DEF UnderWay
  <2>2. queue' \in Seq(T)
    BY WiderLists DEF UnderWay, WalletSettles
  <2>3. TasksIn(T)'
    BY <1>4 DEF UnderWay, WalletSettles, TasksIn
  <2> QED BY <2>1, <2>2, <2>3 DEF UnderWay
<1>7. UnderWay(Settled)'
  BY <1>3, <1>6
<1> QED BY <1>2, <1>3, <1>7 DEF WalletSettles

(***************************************************************************)
(* The refinement.                                                         *)
(***************************************************************************)

Tally == [p \in Payments |-> HowOften(p)]

(* With the clock set, the tally counts the announcements of its epoch.    *)
LEMMA TallyOfEpoch ==
  ASSUME synced = TRUE, Tallied
  PROVE  Tally = [p \in Payments |-> announced[<<p, synced>>]]
<1>1. ASSUME NEW p \in Payments PROVE HowOften(p) = announced[<<p, synced>>]
  <2>1. announced[<<p, TRUE>>] = announced[<<p, synced>>]
    OBVIOUS
  <2>2. FALSE \in Epochs /\ FALSE # synced
    BY DEF Epochs
  <2>3. announced[<<p, FALSE>>] = 0
    BY <2>2 DEF Tallied
  <2>4. announced[<<p, synced>>] \in {0, 1}
    BY DEF Tallied
  <2> QED BY <2>1, <2>3, <2>4 DEF HowOften
<1> QED BY <1>1 DEF Tally

LEMMA TallyOfNextEpoch ==
  (synced = TRUE /\ Tallied => Tally = [p \in Payments |-> announced[<<p, synced>>]])'
<1>1. synced = TRUE /\ Tallied => Tally = [p \in Payments |-> announced[<<p, synced>>]]
  BY TallyOfEpoch
<1> QED BY <1>1, PTL

LEMMA AnInit ==
  ASSUME ClockSet, Init
  PROVE  AInv /\ Announcer!Init
<1>1. synced = TRUE
  BY DEF Init, ClockSet
<1>2. WalletOK
  <2>1. <<>> \in Seq(Payments) /\ \A p \in Payments : <<p>> \in Seq(Payments)
    OBVIOUS
  <2>2. PICK list \in Seq(Payments), e \in {"nip04", "nip44"} :
          wallet = [settled |-> list, encryption |-> e]
    BY <2>1, NwcAssumption DEF Init
  <2> QED BY <2>2 DEF WalletOK
<1>3. UnderWay(Settled)
  BY DEF Init, UnderWay, TasksIn, Events, WsJobs, WorkerJobs, MainJobs
<1>4. RingOK /\ \A p \in Payments : ~Known(p)
  BY NwcAssumption, PairsAreNoHoles DEF Init, RingOK, Full, Free, Known
<1>5. Tallied
  <2>1. synced \in Epochs
    BY <1>1 DEF Epochs
  <2>2. announced = [pc \in Payments \X Epochs |-> 0]
    BY DEF Init, Epochs
  <2> QED BY <1>4, <2>1, <2>2 DEF Tallied
<1>6. Settled \subseteq Payments
  BY <1>2, WalletListsSettled
<1>7. Tally = [p \in Payments |-> 0]
  <2>1. announced = [pc \in Payments \X Epochs |-> 0]
    BY DEF Init, Epochs
  <2>2. \A p \in Payments : announced[<<p, synced>>] = 0
    BY <1>5, <2>1 DEF Tallied
  <2> QED BY <1>1, <1>5, <2>2, TallyOfEpoch
<1> QED BY <1>1, <1>2, <1>3, <1>4, <1>5, <1>6, <1>7 DEF AInv, Announcer!Init, Tally, Settled

(* A payment applied is announced, the first time.                         *)
LEMMA ApplyAnnounces ==
  ASSUME HoldsAll, synced = TRUE, RingOK, Tallied, NEW p \in Payments, ApplyPayment(p),
         synced' = synced
  PROVE  /\ RingOK' /\ Tallied'
         /\ UNCHANGED Tally \/ (Tally[p] = 0 /\ Tally' = [Tally EXCEPT ![p] = 1])
<1>1. /\ RingOK' /\ Tallied'
      /\ \/ UNCHANGED announced
         \/ /\ announced[<<p, synced>>] = 0
            /\ announced' = [announced EXCEPT ![<<p, synced>>] = 1]
  BY ApplyKeepsAccount
<1>2. /\ Tally = [q \in Payments |-> announced[<<q, synced>>]]
      /\ Tally' = [q \in Payments |-> announced'[<<q, synced>>]]
  <2>1. Tally = [q \in Payments |-> announced[<<q, synced>>]]
    BY TallyOfEpoch
  <2> QED BY <1>1, <2>1, TallyOfNextEpoch
<1>3. CASE UNCHANGED announced
  BY <1>1, <1>2, <1>3
<1>4. CASE /\ announced[<<p, synced>>] = 0
           /\ announced' = [announced EXCEPT ![<<p, synced>>] = 1]
  <2>1. \A q \in Payments : announced'[<<q, synced>>] =
                              IF q = p THEN 1 ELSE announced[<<q, synced>>]
    BY <1>4 DEF Tallied
  <2>2. Tally' = [q \in Payments |-> IF q = p THEN 1 ELSE announced[<<q, synced>>]]
    BY <1>2, <2>1
  <2>3. Tally' = [Tally EXCEPT ![p] = 1]
    BY <1>2, <2>2
  <2>4. Tally[p] = 0
    BY <1>2, <1>4
  <2> QED BY <1>1, <2>3, <2>4
<1> QED BY <1>1, <1>3, <1>4

LEMMA ANext ==
  HoldsAll /\ AInv /\ [Next]_vars => AInv' /\ [Announcer!Next]_<<Settled, Tally>>
<1> SUFFICES ASSUME HoldsAll, AInv, [Next]_vars
             PROVE  AInv' /\ [Announcer!Next]_<<Settled, Tally>>
  OBVIOUS
<1> PICK S : S = Settled
  OBVIOUS
<1>1. /\ synced = TRUE /\ WalletOK /\ UnderWay(S) /\ RingOK /\ Tallied
      /\ Settled \subseteq Payments
  BY WalletListsSettled DEF AInv
<1>2. ASSUME UnderWay(S)', UNCHANGED <<ring, announced, outside>>
      PROVE  AInv' /\ UNCHANGED <<Settled, Tally>>
  <2>1. WalletOK' /\ Settled' = Settled /\ synced' = TRUE
    BY <1>1, <1>2 DEF outside, WalletOK, Settled
  <2>2. RingOK' /\ Tallied'
    <3>1. UNCHANGED <<ring, announced, synced>>
      BY <1>2 DEF outside
    <3>2. RingOK'
      BY <1>1, <3>1 DEF RingOK, Free, Full
    <3>3. Tallied'
      BY <1>1, <3>1 DEF Tallied, Known
    <3> QED BY <3>2, <3>3
  <2>3. Tally' = Tally
    BY <1>2 DEF Tally, HowOften
  <2> QED BY <1>2, <2>1, <2>2, <2>3 DEF AInv
<1>3. ASSUME UnderWay(S)', UNCHANGED outside, NEW p \in S, ApplyPayment(p)
      PROVE  AInv' /\ [Announcer!Next]_<<Settled, Tally>>
  <2>1. WalletOK' /\ Settled' = Settled /\ synced' = synced
    BY <1>1, <1>3 DEF outside, WalletOK, Settled
  <2>2. /\ RingOK' /\ Tallied'
        /\ UNCHANGED Tally \/ (Tally[p] = 0 /\ Tally' = [Tally EXCEPT ![p] = 1])
    BY <1>1, <1>3, <2>1, ApplyAnnounces
  <2>3. CASE UNCHANGED Tally
    BY <1>1, <1>3, <2>1, <2>2, <2>3 DEF AInv
  <2>4. CASE Tally[p] = 0 /\ Tally' = [Tally EXCEPT ![p] = 1]
    <3>1. Announcer!Announce(p)
      BY <1>3, <2>1, <2>4 DEF Announcer!Announce, Settled, Tally
    <3> QED BY <1>1, <1>3, <2>1, <2>2, <3>1 DEF AInv, Announcer!Next
  <2> QED BY <2>2, <2>3, <2>4
<1>4. CASE TaskStep
  <2>1. CASE OnInfo \/ OnNotification \/ OnResponse
    BY <1>1, <1>2, <2>1, OnInfoKeeps, OnNotificationKeeps, OnResponseKeeps
  <2>2. CASE FinishResponse \/ TakeNotice \/ DecideRefetch \/ Refetch \/ PollBalance
    BY <1>1, <1>2, <2>2, FinishResponseKeeps, TakeNoticeKeeps, RefetchKeeps, PollBalanceKeeps
  <2>3. CASE \E t \in {"ws", "worker", "main"} : Publish(t)
    BY <1>1, <1>2, <2>3, PublishKeeps
  <2>4. CASE FanOut \/ ApplyNotice
    BY <1>1, <1>3, <2>4, FanOutKeeps, ApplyNoticeKeeps
  <2> QED BY <1>4, <2>1, <2>2, <2>3, <2>4 DEF TaskStep, Receives
<1>5. CASE TimerFires \/ Lose \/ RelayReconnects
  BY <1>1, <1>2, <1>5, RelayKeeps
<1>6. CASE WalletAnswers \/ WalletRefuses
  <2>1. PICK method \in Replies : Answers(method)
    BY <1>6 DEF WalletAnswers, WalletRefuses, Replies, Methods
  <2> QED BY <1>1, <1>2, <2>1, AnswersKeep, WalletListsSettled
<1>7. CASE WalletSettles
  <2>1. /\ WalletOK' /\ UnderWay(Settled)' /\ UNCHANGED <<ring, announced, synced>>
        /\ \E p \in Payments \ Settled : Settled' = Settled \cup {p}
    BY <1>1, <1>7, SettlingKeeps
  <2>2. RingOK'
    BY <1>1, <2>1 DEF RingOK, Free, Full
  <2>3. Tallied'
    BY <1>1, <2>1 DEF Tallied, Known
  <2>4. Tally' = Tally
    BY <2>1 DEF Tally, HowOften
  <2>5. \E p \in Payments : Announcer!Publish(p)
    BY <2>1, <2>4 DEF Announcer!Publish, Settled, Tally
  <2> QED BY <1>1, <2>1, <2>2, <2>3, <2>5 DEF AInv, Announcer!Next
<1>8. CASE SntpLands
  BY <1>1, <1>8 DEF SntpLands
<1>9. CASE UNCHANGED vars
  <2>1. UnderWay(S)' /\ UNCHANGED <<ring, announced, outside>>
    BY <1>1, <1>9 DEF vars, outside, UnderWay, TasksIn
  <2> QED BY <1>2, <2>1
<1> QED
  BY <1>4, <1>5, <1>6, <1>7, <1>8, <1>9 DEF Next

(* As long as the ring holds every payment and the clock is set before the *)
(* client starts, a payment that the relay's notices, both encryptions and *)
(* the list fetched at boot report is announced once, by whichever task    *)
(* comes first, and after it has settled: every step of NwcClient is a     *)
(* step or a stutter of AnnounceOnce.                                      *)
THEOREM ImplementsAnnounceOnce == HoldsAll /\ ClockSet /\ Spec => AnnouncesOnce
<1> SUFFICES ASSUME HoldsAll, ClockSet PROVE Spec => AnnouncesOnce
  OBVIOUS
<1>1. Init => AInv /\ Announcer!Init
  BY AnInit
<1>2. AInv /\ [Next]_vars => AInv' /\ [Announcer!Next]_(Announcer!vars)
  BY ANext DEF Announcer!vars, Settled, Tally
<1> QED
  BY <1>1, <1>2, PTL DEF Spec, AnnouncesOnce, Announcer!Spec

(***************************************************************************)
(* Notices are kept, for every size of the ring and the queue and whatever *)
(* the clock does: what the ring holds was announced, and once INFO has    *)
(* come the client knows the wallet's encryption.                          *)
(***************************************************************************)

Clients == [state : {"Bootstrapping", "Ready"}, encryption : {"nip44", "nip04"},
            method : {NoMethod} \cup Methods, id : {NoId, AnId}]

Counted == announced \in [Payments \X Epochs -> 0 .. 2]

Ring ==
  /\ ring = [entries |-> ring.entries, next |-> ring.next]
  /\ ring.entries = [i \in 1 .. RingSize |-> ring.entries[i]]
  /\ ring.next \in 1 .. RingSize

Typed ==
  /\ WalletOK /\ synced \in Epochs /\ client \in Clients
  /\ Ring /\ Counted /\ UnderWay(Payments)
  /\ Len(queue) <= QueueCapacity
  /\ due \subseteq Payments /\ hub_balance \subseteq Payments

HeldWasAnnounced ==
  \A p \in Payments, c \in Epochs, i \in 1 .. RingSize :
    ring.entries[i] = <<p, c>> => announced[<<p, c>>] > 0

EncryptionKnown == client.state = "Ready" => client.encryption = wallet.encryption

KInv == Typed /\ HeldWasAnnounced /\ EncryptionKnown /\ NoticeKept

LEMMA InSomeEpoch ==
  Counted => \A p \in Payments : Announced(p) <=> \E c \in Epochs : announced[<<p, c>>] > 0
<1> SUFFICES ASSUME Counted, NEW p \in Payments
             PROVE  Announced(p) <=> \E c \in Epochs : announced[<<p, c>>] > 0
  OBVIOUS
<1> DEFINE Times(c) == announced[<<p, c>>]
<1>1. \A c \in Epochs : Times(c) \in 0 .. 2
  BY DEF Counted
<1>2. TRUE \in Epochs /\ FALSE \in Epochs /\ \A c \in Epochs : c = TRUE \/ c = FALSE
  BY DEF Epochs
<1>3. Announced(p) <=> Times(TRUE) + Times(FALSE) > 0
  BY DEF Announced, HowOften
<1> HIDE DEF Times
<1>4. Announced(p) <=> Times(TRUE) > 0 \/ Times(FALSE) > 0
  <2>1. Times(TRUE) \in 0 .. 2 /\ Times(FALSE) \in 0 .. 2
    BY <1>1, <1>2
  <2> DEFINE set == Times(TRUE)
             unset == Times(FALSE)
  <2>2. set \in 0 .. 2 /\ unset \in 0 .. 2 /\ (Announced(p) <=> set + unset > 0)
    BY <1>3, <2>1
  <2> HIDE DEF set, unset
  <2>3. Announced(p) <=> set > 0 \/ unset > 0
    BY <2>2
  <2> QED BY <2>3 DEF set, unset
<1>5. Announced(p) <=> \E c \in Epochs : Times(c) > 0
  BY <1>2, <1>4
<1> QED BY <1>5 DEF Times

LEMMA InSomeNextEpoch ==
  (Counted => \A p \in Payments : Announced(p) <=> \E c \in Epochs : announced[<<p, c>>] > 0)'
BY InSomeEpoch, PTL

(* ApplyPayment leaves its payment announced, and no other less so.        *)
LEMMA ApplyLeavesAnnounced ==
  ASSUME Ring, Counted, HeldWasAnnounced, synced \in Epochs, synced' = synced,
         NEW p \in Payments, ApplyPayment(p)
  PROVE  /\ Ring' /\ Counted' /\ HeldWasAnnounced'
         /\ Announced(p)'
         /\ \A q \in Payments : Announced(q) => Announced(q)'
<1>1. /\ \A q \in Payments : Announced(q) <=> \E c \in Epochs : announced[<<q, c>>] > 0
      /\ Counted' => \A q \in Payments :
                       Announced(q)' <=> \E c \in Epochs : announced'[<<q, c>>] > 0
  BY InSomeEpoch, InSomeNextEpoch
<1>2. CASE Known(p)
  <2>1. UNCHANGED <<ring, announced>>
    BY <1>2 DEF ApplyPayment
  <2>2. Ring' /\ Counted' /\ HeldWasAnnounced'
    BY <2>1 DEF Ring, Counted, HeldWasAnnounced
  <2>3. announced[<<p, synced>>] > 0
    BY <1>2 DEF Known, HeldWasAnnounced
  <2> QED BY <1>1, <2>1, <2>2, <2>3
<1>3. CASE ~Known(p)
  <2>1. /\ ring'.entries = [ring.entries EXCEPT ![ring.next] = <<p, synced>>]
        /\ ring'.next = (ring.next % RingSize) + 1
        /\ ring' = [entries |-> ring'.entries, next |-> ring'.next]
    BY <1>3 DEF ApplyPayment
  <2>2. RingSize \in Nat \ {0} /\ ring.next \in 1 .. RingSize
    BY NwcAssumption DEF Ring
  <2>3. ring'.next \in 1 .. RingSize
    BY <2>1, <2>2
  <2>4. Ring'
    BY <2>1, <2>3 DEF Ring
  <2>5. <<p, synced>> \in Payments \X Epochs /\ announced[<<p, synced>>] \in 0 .. 2
    BY DEF Counted
  <2>6. /\ Counted'
        /\ announced'[<<p, synced>>] > 0
        /\ \A q \in Payments, c \in Epochs :
             announced[<<q, c>>] > 0 => announced'[<<q, c>>] > 0
    BY <1>3, <2>5 DEF ApplyPayment, Counted
  <2>7. HeldWasAnnounced'
    BY <2>1, <2>2, <2>6 DEF HeldWasAnnounced, Ring
  <2> QED BY <1>1, <2>4, <2>6, <2>7
<1> QED BY <1>2, <1>3

LEMMA KInit ==
  ASSUME Init
  PROVE  KInv
<1>1. WalletOK /\ wallet.settled \in Seq(Payments)
  <2>1. <<>> \in Seq(Payments) /\ \A p \in Payments : <<p>> \in Seq(Payments)
    OBVIOUS
  <2>2. PICK list \in Seq(Payments), e \in {"nip04", "nip44"} :
          wallet = [settled |-> list, encryption |-> e]
    BY <2>1, NwcAssumption DEF Init
  <2> QED BY <2>2 DEF WalletOK
<1>2. UnderWay(Payments) /\ Len(queue) <= QueueCapacity
  BY NwcAssumption DEF Init, UnderWay, TasksIn, Events, WsJobs, WorkerJobs, MainJobs
<1>3. synced \in Epochs /\ Counted
  BY NwcAssumption DEF Init, Epochs, Counted
<1>4. client \in Clients /\ EncryptionKnown
  BY DEF Init, Clients, EncryptionKnown
<1>5. Ring /\ HeldWasAnnounced
  BY NwcAssumption, PairsAreNoHoles DEF Init, Ring, HeldWasAnnounced
<1>6. due = {} /\ hub_balance = {}
  BY DEF Init
<1> QED
  BY <1>1, <1>2, <1>3, <1>4, <1>5, <1>6 DEF KInv, Typed, NoticeKept

(* The shared fields and the hub, over every step.                         *)
LEMMA FieldsKept ==
  ASSUME Typed, EncryptionKnown, Next
  PROVE  client' \in Clients /\ EncryptionKnown' /\ WalletOK' /\ synced' \in Epochs
         /\ hub_balance' \subseteq Payments
<1> USE DEF Typed
<1>1. CASE OnInfo
  <2>1. client' = [client EXCEPT !.state = "Ready", !.encryption = wallet.encryption,
                                 !.method = "get_balance"]
    BY <1>1 DEF OnInfo, Noting, Clients
  <2>2. wallet.encryption \in {"nip44", "nip04"}
    BY DEF WalletOK
  <2>3. client' \in Clients /\ client'.encryption = wallet.encryption
    BY <2>1, <2>2 DEF Clients, Methods
  <2> QED BY <1>1, <2>3 DEF OnInfo, outside, EncryptionKnown, WalletOK
<1>2. CASE FinishResponse
  <2>1. task["ws"] \in Matched(Payments)
    BY <1>2 DEF FinishResponse, UnderWay, TasksIn, WsJobs, Idle, Signing, Matched, Fanning
  <2>2. hub_balance' \subseteq Payments
    <3> DEFINE list == task["ws"].settled
    <3>1. list \in Seq(Payments)
      BY <2>1 DEF Matched
    <3>2. ToSet(list) \subseteq Payments
      BY <3>1 DEF ToSet
    <3> QED BY <1>2, <3>2 DEF FinishResponse
  <2>3. client' \in Clients /\ client'.state = client.state
        /\ client'.encryption = client.encryption
    BY <1>2 DEF FinishResponse, Clients, Methods
  <2> QED BY <1>2, <2>2, <2>3 DEF FinishResponse, outside, EncryptionKnown, WalletOK
<1>3. CASE \/ Refetch \/ PollBalance
           \/ \E t \in {"ws", "worker", "main"} : Publish(t)
  <2>1. client' \in Clients /\ client'.state = client.state
        /\ client'.encryption = client.encryption
    BY <1>3 DEF Refetch, PollBalance, Publish, Noting, Clients, Methods
  <2> QED
    BY <1>3, <2>1 DEF Refetch, PollBalance, Publish, outside, EncryptionKnown, WalletOK
<1>4. CASE WalletSettles
  <2>1. PICK p \in Payments : wallet' = [wallet EXCEPT !.settled = Append(@, p)]
    BY <1>4 DEF WalletSettles
  <2>2. wallet' = [settled |-> Append(wallet.settled, p), encryption |-> wallet.encryption]
    BY <2>1 DEF WalletOK
  <2>3. Append(wallet.settled, p) \in Seq(Payments) /\ wallet.encryption \in {"nip04", "nip44"}
    BY DEF WalletOK
  <2>4. WalletOK' /\ wallet'.encryption = wallet.encryption
    BY <2>2, <2>3 DEF WalletOK
  <2> QED BY <1>4, <2>4 DEF WalletSettles, EncryptionKnown
<1>5. CASE SntpLands
  BY <1>5 DEF SntpLands, Epochs, EncryptionKnown, WalletOK
<1>6. CASE \/ OnNotification \/ OnResponse \/ FanOut \/ TakeNotice \/ ApplyNotice
           \/ DecideRefetch \/ TimerFires \/ WalletAnswers \/ WalletRefuses \/ Lose
           \/ RelayReconnects
  <2>1. UNCHANGED <<client, wallet, synced, hub_balance>>
    BY <1>6 DEF OnNotification, OnResponse, FanOut, TakeNotice, ApplyNotice, DecideRefetch,
                TimerFires, WalletAnswers, WalletRefuses, Answers, Lose, RelayReconnects,
                outside
  <2> QED BY <2>1 DEF EncryptionKnown, WalletOK
<1> QED
  BY <1>1, <1>2, <1>3, <1>4, <1>5, <1>6 DEF Next, TaskStep, Receives

(* A step that leaves queue, due and ring alone, and does not take the     *)
(* worker from a payment, keeps the notices.                               *)
LEMMA QuietStepsKeep ==
  ASSUME Counted, NoticeKept, UNCHANGED <<queue, due, announced>>,
         UNCHANGED task["worker"] \/ task["worker"].at # "apply"
  PROVE  NoticeKept'
<1>1. \A p \in due : task["worker"] = [at |-> "apply", payment |-> p]
                    => task["worker"]' = task["worker"]
  OBVIOUS
<1>2. \A p : Announced(p)' <=> Announced(p)
  BY DEF Announced, HowOften
<1> QED BY <1>1, <1>2 DEF NoticeKept

LEMMA KNext == KInv /\ [Next]_vars => KInv'
<1> SUFFICES ASSUME KInv, [Next]_vars PROVE KInv'
  OBVIOUS
<1>1. /\ Typed /\ HeldWasAnnounced /\ EncryptionKnown /\ NoticeKept
      /\ Ring /\ Counted /\ UnderWay(Payments) /\ WalletOK /\ synced \in Epochs
      /\ wallet.settled \in Seq(Payments) /\ due \subseteq Payments
      /\ queue \in Seq(Payments) /\ Len(queue) <= QueueCapacity
      /\ task = [t \in {"ws", "worker", "main"} |-> task[t]]
  BY DEF KInv, Typed, UnderWay, TasksIn, WalletOK
<1>2. CASE UNCHANGED vars
  <2>1. NoticeKept'
    BY <1>1, <1>2, QuietStepsKeep DEF vars
  <2> QED
    BY <1>1, <1>2, <2>1 DEF vars, KInv, Typed, HeldWasAnnounced, EncryptionKnown, Ring,
       Counted, UnderWay, TasksIn, WalletOK
<1> SUFFICES ASSUME Next PROVE KInv'
  BY <1>2
<1>3. /\ client' \in Clients /\ EncryptionKnown' /\ WalletOK' /\ synced' \in Epochs
      /\ hub_balance' \subseteq Payments
  BY <1>1, FieldsKept
<1>4. ASSUME UnderWay(Payments)', UNCHANGED <<ring, announced>>, NoticeKept',
             Len(queue') <= QueueCapacity, due' \subseteq Payments
      PROVE  KInv'
  <2>1. Ring' /\ Counted' /\ HeldWasAnnounced'
    BY <1>1, <1>4 DEF Ring, Counted, HeldWasAnnounced
  <2> QED BY <1>3, <1>4, <2>1 DEF KInv, Typed
<1>5. ASSUME UnderWay(Payments)', UNCHANGED <<queue, due, ring, announced>>,
             UNCHANGED task["worker"] \/ task["worker"].at # "apply"
      PROVE  KInv'
  <2>1. NoticeKept'
    BY <1>1, <1>5, QuietStepsKeep
  <2> QED BY <1>1, <1>4, <1>5, <2>1
<1>6. CASE OnInfo \/ OnResponse \/ FinishResponse \/ PollBalance
  <2>1. UnderWay(Payments)' /\ UNCHANGED <<ring, announced>>
    BY <1>1, <1>6, OnInfoKeeps, OnResponseKeeps, FinishResponseKeeps, PollBalanceKeeps
  <2>2. task'["worker"] = task["worker"] /\ UNCHANGED <<queue, due>>
    BY <1>1, <1>6 DEF OnInfo, OnResponse, FinishResponse, PollBalance, At
  <2> QED BY <1>5, <2>1, <2>2
<1>7. CASE DecideRefetch \/ Refetch \/ \E t \in {"ws", "worker", "main"} : Publish(t)
  <2>1. UnderWay(Payments)' /\ UNCHANGED <<ring, announced>>
    BY <1>1, <1>7, RefetchKeeps, PublishKeeps
  <2>2. UNCHANGED <<queue, due>>
    BY <1>7 DEF DecideRefetch, Refetch, Publish
  <2>3. task'["worker"] = task["worker"] \/ task["worker"].at # "apply"
    BY <1>1, <1>7 DEF DecideRefetch, Refetch, Publish, At
  <2> QED BY <1>5, <2>1, <2>2, <2>3
<1>8. CASE TimerFires \/ Lose \/ RelayReconnects \/ WalletAnswers \/ WalletRefuses
  <2>1. (\E method \in Replies : Answers(method)) \/ TimerFires \/ Lose \/ RelayReconnects
    BY <1>8 DEF WalletAnswers, WalletRefuses, Replies, Methods
  <2>2. UnderWay(Payments)' /\ UNCHANGED <<ring, announced>>
    BY <1>1, <2>1, RelayKeeps, AnswersKeep
  <2>3. UNCHANGED <<queue, due, task>>
    BY <2>1 DEF TimerFires, Lose, RelayReconnects, Answers
  <2> QED BY <1>5, <2>2, <2>3
<1>9. CASE WalletSettles \/ SntpLands
  <2>1. UNCHANGED <<queue, due, task, ring, announced>>
    BY <1>9 DEF WalletSettles, SntpLands
  <2>2. wire' \subseteq Events(Payments)
    <3>1. \A p \in Payments, k \in NoticeKinds : Notice(k, p) \in Events(Payments)
      BY DEF NoticeKinds, KindOf, Notice, Notices, Events
    <3> QED BY <1>1, <1>9, <3>1 DEF WalletSettles, SntpLands, UnderWay
  <2>3. UnderWay(Payments)'
    BY <1>1, <2>1, <2>2 DEF UnderWay, TasksIn
  <2> QED BY <1>5, <2>1, <2>3
<1>10. CASE OnNotification
  <2>1. UnderWay(Payments)' /\ UNCHANGED <<ring, announced, task>>
    BY <1>1, <1>10, OnNotificationKeeps DEF OnNotification
  <2> PICK m \in OfType("notice") :
        /\ queue' = IF DropsTwin(m.kind) \/ ~HasRoom THEN queue ELSE Append(queue, m.payment)
        /\ due' = IF m.kind = KindOf(wallet.encryption) /\ HasRoom
                  THEN due \cup {m.payment} ELSE due
    BY <1>10 DEF OnNotification
  <2>2. m \in Notices(Payments)
    BY <1>1 DEF OfType, UnderWay, Events, Info, Requests, Responses, Notices
  <2>3. m.payment \in Payments /\ due' \subseteq Payments
    BY <1>1, <2>2 DEF Notices
  <2>4. Len(queue') <= QueueCapacity
    BY <1>1, <2>3, NwcAssumption DEF HasRoom
  <2>5. m.kind = KindOf(wallet.encryption) => ~DropsTwin(m.kind)
    BY <1>1 DEF EncryptionKnown, KindOf, DropsTwin
  <2>6. ToSet(queue) \subseteq ToSet(queue')
        /\ (m.kind = KindOf(wallet.encryption) /\ HasRoom => m.payment \in ToSet(queue'))
    <3>1. CASE queue' = queue /\ (DropsTwin(m.kind) \/ ~HasRoom)
      BY <2>5, <3>1
    <3>2. CASE queue' = Append(queue, m.payment)
      <4>1. /\ Len(queue') = Len(queue) + 1 /\ Len(queue) \in Nat
            /\ queue'[Len(queue) + 1] = m.payment
            /\ \A i \in 1 .. Len(queue) : queue'[i] = queue[i]
            /\ DOMAIN queue = 1 .. Len(queue) /\ DOMAIN queue' = 1 .. Len(queue) + 1
        BY <1>1, <2>3, <3>2
      <4> QED BY <4>1 DEF ToSet
    <3> QED BY <3>1, <3>2
  <2>7. \A p : Announced(p)' <=> Announced(p)
    BY <2>1 DEF Announced, HowOften
  <2>8. NoticeKept'
    BY <1>1, <2>1, <2>6, <2>7 DEF NoticeKept
  <2> QED BY <1>4, <2>1, <2>3, <2>4, <2>8
<1>11. CASE TakeNotice
  <2>1. UnderWay(Payments)' /\ UNCHANGED <<ring, announced, due>>
    BY <1>1, <1>11, TakeNoticeKeeps DEF TakeNotice
  <2>2. /\ queue # <<>> /\ queue' = Tail(queue) /\ task["worker"] = Idle
        /\ task'["worker"] = [at |-> "apply", payment |-> Head(queue)]
    BY <1>1, <1>11 DEF TakeNotice, At
  <2>3. Len(queue) \in Nat \ {0} /\ Len(queue') = Len(queue) - 1
    BY <1>1, <2>2
  <2>4. Len(queue') <= QueueCapacity
    BY <1>1, <2>3, NwcAssumption
  <2>5. \A p \in ToSet(queue) : p \in ToSet(queue') \/ p = Head(queue)
    <3> SUFFICES ASSUME NEW i \in 1 .. Len(queue)
                 PROVE  queue[i] \in ToSet(queue') \/ queue[i] = Head(queue)
      BY <1>1 DEF ToSet
    <3>1. CASE i = 1
      BY <2>2, <3>1
    <3>2. CASE i # 1
      <4>1. i - 1 \in 1 .. Len(queue') /\ Tail(queue)[i - 1] = queue[i]
        BY <1>1, <2>2, <2>3, <3>2
      <4>2. DOMAIN queue' = 1 .. Len(queue')
        BY <1>1, <2>2
      <4> QED BY <2>2, <4>1, <4>2 DEF ToSet
    <3> QED BY <3>1, <3>2
  <2>6. \A p : Announced(p)' <=> Announced(p)
    BY <2>1 DEF Announced, HowOften
  <2>7. NoticeKept'
    BY <1>1, <2>1, <2>2, <2>5, <2>6 DEF NoticeKept, Idle
  <2> QED BY <1>1, <1>4, <2>1, <2>4, <2>7
<1>12. CASE FanOut \/ ApplyNotice
  <2>1. UnderWay(Payments)' /\ UNCHANGED <<outside, queue, due>>
    BY <1>1, <1>12, FanOutKeeps, ApplyNoticeKeeps DEF FanOut, ApplyNotice
  <2>2. PICK p \in Payments :
          /\ ApplyPayment(p)
          /\ task'["worker"] = task["worker"] \/ task["worker"].payment = p
    <3>1. CASE FanOut
      <4>1. task'["worker"] = task["worker"]
        BY <1>1, <3>1 DEF FanOut, At
      <4> QED BY <1>1, <3>1, <4>1, FanOutKeeps
    <3>2. CASE ApplyNotice
      <4>1. task["worker"].payment \in Payments
        BY <1>1, <3>2 DEF ApplyNotice, UnderWay, TasksIn, WorkerJobs, Idle, Signing, Applying
      <4> QED BY <3>2, <4>1 DEF ApplyNotice
    <3> QED BY <1>12, <3>1, <3>2
  <2>3. /\ Ring' /\ Counted' /\ HeldWasAnnounced' /\ Announced(p)'
        /\ \A q \in Payments : Announced(q) => Announced(q)'
    BY <1>1, <2>1, <2>2, ApplyLeavesAnnounced DEF outside
  <2>4. NoticeKept'
    BY <1>1, <2>1, <2>2, <2>3 DEF NoticeKept
  <2> QED BY <1>1, <1>3, <2>1, <2>3, <2>4 DEF KInv, Typed
<1> QED
  BY <1>6, <1>7, <1>8, <1>9, <1>10, <1>11, <1>12 DEF Next, TaskStep, Receives

(* The shared fields keep their types, the queue its capacity and the ring *)
(* its cursor, whatever the three tasks and the wallet do.                 *)
THEOREM TypeCorrect == Spec => []TypeOK
<1>1. KInv => TypeOK
  <2> SUFFICES ASSUME Typed PROVE TypeOK
    BY DEF KInv
  <2>1. UnderWay(Payments) /\ client \in Clients
    BY DEF Typed
  <2>2. task["worker"] \in Doing /\ task["main"] \in Doing
    BY <2>1 DEF UnderWay, TasksIn, WorkerJobs, MainJobs, Doing, Signing, Applying, Methods
  <2>3. task["ws"] \in Doing \/ task["ws"].at \in {"matched", "fan"}
    BY <2>1 DEF UnderWay, TasksIn, WsJobs, Doing, Signing, Matched, Fanning, Methods
  <2>4. /\ client.state \in {"Bootstrapping", "Ready"}
        /\ client.encryption \in {"nip44", "nip04"}
        /\ client.method \in {NoMethod, "get_balance", "list_transactions"}
        /\ client.id \in {NoId, AnId}
    BY <2>1 DEF Clients, Methods
  <2>5. announced \in [Payments \X BOOLEAN -> 0 .. 2]
    BY DEF Typed, Counted, Epochs
  <2>6. /\ ring.next \in 1 .. RingSize /\ hub_balance \subseteq Payments
        /\ queue \in Seq(Payments) /\ Len(queue) <= QueueCapacity
    BY DEF Typed, Ring, UnderWay
  <2> QED BY <2>2, <2>3, <2>4, <2>5, <2>6 DEF TypeOK
<1> QED BY <1>1, KInit, KNext, PTL DEF Spec

(* A payment whose own notice came while the queue had room is queued, in  *)
(* the worker's hands or announced, for any capacity, ring and wallet.     *)
THEOREM NoticesKept == Spec => []NoticeKept
<1>1. KInv => NoticeKept
  BY DEF KInv
<1> QED BY <1>1, KInit, KNext, PTL DEF Spec
=============================================================================

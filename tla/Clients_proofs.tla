--------------------------- MODULE Clients_proofs ---------------------------
(***************************************************************************)
(* The safety of the commands and notices of Telegram, for any number of   *)
(* chats, messages, notices and slips; and what ApiClient promises         *)
(* LiveOrders about a place request: the call ends in one of               *)
(* CreateResults, and no write request is retried.                         *)
(***************************************************************************)
EXTENDS Telegram, ApiClient, FiniteSetTheorems, WellFoundedInduction, NaturalsInduction, TLAPS

-----------------------------------------------------------------------------
(* The invariant.                                                          *)

Command(u) == sent[u].text # "say"
Hand == First(batch)

\* A poll's commands were sent, and those before them are logged.
BatchOK ==
    /\ pc \in {"log", "run", "finish"} => batch # {}
    /\ batch \subseteq 1..Len(sent)
    /\ \A w \in batch :
        Command(w) /\ \A u \in Updates : u <= w /\ Command(u) /\ u \notin batch => u \in Logged

\* The command in hand was logged last of all.
HandOK ==
    /\ Logged \subseteq 1..Len(sent)
    /\ pc \in {"run", "finish"} => Hand \in Logged /\ \A v \in Logged : v <= Hand
    /\ pc = "finish" => reply \in [status : Outcomes, said : BOOLEAN]

\* What waits for its confirmation was asked by its chat, is the last that it
\* asked, and has not been run.
Asked == {"pending_confirmation", "expired"}

Asking(u) ==
    \/ log[u].status \in Asked
    \/ pc = "finish" /\ u = Hand /\ reply.status = "pending_confirmation"
PendingOK ==
    \A c \in Chats : pending[c] # None =>
        /\ pending[c].ask \in Logged
        /\ sent[pending[c].ask].chat = c /\ c \in Authorized
        /\ pc = "run" => pending[c].ask # Hand
        /\ \A i \in 1..Len(runs) : runs[i].ask # pending[c].ask
        /\ \A u \in Logged : sent[u].chat = c /\ Asking(u) => u <= pending[c].ask

\* What was run is logged, and not in hand any more.
RunsOK ==
    \A i \in 1..Len(runs) :
        /\ runs[i].ask \in Logged /\ runs[i].confirm \in Logged
        /\ pc = "run" => runs[i].ask # Hand /\ runs[i].confirm # Hand

\* NoneSkipped and RunAsAsked, said of the commands in the log.
NoneBehind == \A v \in Logged : \A u \in Updates : u <= v /\ Command(u) => u \in Logged

RunsAsked ==
    \A i \in 1..Len(runs) :
        LET a == runs[i].ask  c == runs[i].confirm IN
        /\ a < c /\ sent[a].chat = sent[c].chat /\ sent[a].chat \in Authorized
        /\ \A u \in Logged : a < u /\ u < c /\ sent[u].chat = sent[a].chat => log[u].status \notin Asked

\* The rows of a flush are still queued.
FlushOK ==
    /\ Len(outbox) <= budget.notices
    /\ flush \subseteq Queued
    /\ pc \in {"flush", "mark"} => flush # {}
    /\ pc = "mark" => reply \in [status : {"sent", "failed"}, said : BOOLEAN]

CInv ==
    /\ BatchOK /\ HandOK /\ PendingOK /\ RunsOK
    /\ NoneBehind /\ RunsAsked /\ RunOnce /\ OneLostPerSlip

IInv == TypeOK /\ CInv /\ FlushOK

-----------------------------------------------------------------------------
(* The least and the largest of some ids.                                  *)

\* The row or the command to be taken next exists, and is the oldest.
LEMMA FirstIsLeast ==
    ASSUME NEW S \in SUBSET Nat, S # {}
    PROVE  First(S) \in S /\ \A j \in S : First(S) <= j
<1>1. PICK x \in S : \A y \in S : ~(<<y, x>> \in OpToRel(<, Nat))
  BY NatLessThanWellFounded, WFMin
<1>2. \A y \in S : x <= y
  <2>. SUFFICES ASSUME NEW y \in S, ~(x <= y) PROVE FALSE
    OBVIOUS
  <2>1. x \in Nat /\ y \in Nat /\ y < x
    OBVIOUS
  <2>2. <<y, x>> \in OpToRel(<, Nat)
    BY <2>1 DEF OpToRel
  <2>. QED BY <1>1, <2>2
<1>. QED BY <1>2 DEF First

\* So does the largest of them, which the offset is computed from.
LEMMA LargestExists ==
    ASSUME NEW N \in Nat, NEW S \in SUBSET (1..N), S # {}
    PROVE  \E m \in S : \A v \in S : v <= m
<1>. DEFINE Above == {n \in Nat : \A v \in S : v <= n}
<1>1. N \in Above
  OBVIOUS
<1>2. First(Above) \in Above /\ \A n \in Above : First(Above) <= n
  BY <1>1, FirstIsLeast
<1>3. PICK m \in Nat : (\A v \in S : v <= m) /\ \A n \in Above : m <= n
  BY <1>2
<1>4. m \in S
  <2>. SUFFICES ASSUME m \notin S PROVE FALSE
    OBVIOUS
  <2>1. \A v \in S : v \in Nat /\ v >= 1 /\ v < m
    BY <1>3
  <2>2. m - 1 \in Nat /\ m - 1 < m
    <3>1. PICK v \in S : TRUE
      OBVIOUS
    <3>. QED BY <2>1, <3>1
  <2>3. \A v \in S : v <= m - 1
    BY <2>1
  <2>. QED BY <1>3, <2>2, <2>3
<1>. QED BY <1>3, <1>4

\* One more element of a sequence, and one other.
LEMMA AppendOne ==
    ASSUME NEW S, NEW s \in Seq(S), NEW e \in S
    PROVE  /\ Append(s, e) \in Seq(S) /\ Len(Append(s, e)) = Len(s) + 1
           /\ Append(s, e)[Len(s) + 1] = e
           /\ \A i \in 1..Len(s) : Append(s, e)[i] = s[i]
  OBVIOUS

LEMMA ChangeOne ==
    ASSUME NEW S, NEW s \in Seq(S), NEW i \in 1..Len(s), NEW e \in S
    PROVE  /\ [s EXCEPT ![i] = e] \in Seq(S) /\ Len([s EXCEPT ![i] = e]) = Len(s)
           /\ \A j \in 1..Len(s) : [s EXCEPT ![i] = e][j] = IF j = i THEN e ELSE s[j]
  OBVIOUS

-----------------------------------------------------------------------------
(* What is shared by the steps.                                            *)

\* Expired commands only change their status, among those that were asked for.
LEMMA Expiry ==
    ASSUME TypeOK
    PROVE  /\ ExpiredLog \in [Updates -> Entries \cup {None}]
           /\ \A u \in Updates :
                /\ ExpiredLog[u] = None <=> log[u] = None
                /\ log[u] # None =>
                    \/ ExpiredLog[u] = log[u]
                    \/ log[u].status = "pending_confirmation" /\ ExpiredLog[u].status = "expired"
           /\ Unexpired \in [Chats -> [ask : Updates, until : Nat] \cup {None}]
           /\ \A c \in Chats : Unexpired[c] # None => Unexpired[c] = pending[c]
<1>1. log \in [Updates -> Entries \cup {None}] /\ None \notin Entries
  BY ConstantsAssumption DEF TypeOK
<1>2. \A u \in Updates : log[u] # None => log[u] \in Entries
                             /\ [log[u] EXCEPT !.status = "expired"] \in Entries
  BY <1>1 DEF Entries
<1>3. \A u \in Updates :
        /\ ExpiredLog[u] \in Entries \cup {None}
        /\ ExpiredLog[u] = None <=> log[u] = None
        /\ log[u] # None =>
            \/ ExpiredLog[u] = log[u]
            \/ log[u].status = "pending_confirmation" /\ ExpiredLog[u].status = "expired"
  BY <1>1, <1>2 DEF ExpiredLog, Entries
<1>4. pending \in [Chats -> [ask : Updates, until : Nat] \cup {None}]
  BY DEF TypeOK
<1>. QED BY <1>1, <1>3, <1>4 DEF ExpiredLog, Unexpired

\* The row and the command in hand.
LEMMA InHand ==
    ASSUME TypeOK, CInv, FlushOK
    PROVE  /\ pc \in {"log", "run", "finish"} =>
                Hand \in batch /\ Hand \in Updates /\ \A w \in batch : Hand <= w
           /\ pc \in {"flush", "mark"} =>
                First(flush) \in flush /\ First(flush) \in 1..Len(outbox)
<1>1. batch \subseteq Updates /\ batch \subseteq Nat /\ flush \subseteq Nat
  BY ConstantsAssumption DEF TypeOK, Updates
<1>2. pc \in {"log", "run", "finish"} => batch # {}
  BY DEF CInv, BatchOK
<1>3. pc \in {"flush", "mark"} => flush # {} /\ flush \subseteq 1..Len(outbox)
  BY DEF FlushOK, Queued
<1>. QED BY <1>1, <1>2, <1>3, FirstIsLeast DEF Hand

\* The outbox stays a sequence of rows, and settles no row twice.
LEMMA QueueRows ==
    ASSUME TypeOK, FlushOK, NEW n \in Notices, Queue(n)
    PROVE  /\ outbox' \in Seq(Rows) /\ Len(outbox) <= Len(outbox') /\ Len(outbox') <= budget.notices
           /\ \A i \in 1..Len(outbox) : outbox'[i] = outbox[i]
<1>. DEFINE r == [notice |-> n, at |-> clock, status |-> "queued", got |-> {}]
<1>1. outbox \in Seq(Rows) /\ Len(outbox) <= budget.notices /\ budget.notices \in Nat
  BY ConstantsAssumption DEF TypeOK, FlushOK
<1>2. r \in Rows
  BY DEF Rows, TypeOK
<1>3. outbox' = outbox \/ (Len(outbox) # budget.notices /\ outbox' = Append(outbox, r))
  <2>. HIDE DEF r
  <2>1. \/ outbox' = IF RecentRow(n) \/ RecentReply(n) \/ Len(outbox) = budget.notices
                     THEN outbox ELSE Append(outbox, r)
        \/ outbox' = outbox
    BY DEF Queue, r
  <2>. QED BY <2>1
<1>. HIDE DEF r
<1>. QED BY <1>1, <1>2, <1>3, AppendOne

\* A delivery changes who has got a queued row, and nothing of the others.
LEMMA DeliverRows ==
    ASSUME TypeOK, CInv, FlushOK, Deliver \/ DeliverSome
    PROVE  /\ outbox' \in Seq(Rows) /\ Len(outbox') = Len(outbox)
           /\ \A i \in 1..Len(outbox) :
                /\ outbox'[i].status = outbox[i].status
                /\ outbox[i].status # "queued" => outbox'[i] = outbox[i]
<1>. DEFINE i == First(flush)
<1>1. outbox \in Seq(Rows)
  BY DEF TypeOK
<1>2. i \in 1..Len(outbox) /\ i \in flush
  BY InHand DEF Deliver, DeliverSome
<1>3. outbox[i] \in Rows /\ outbox[i].status = "queued"
  BY <1>1, <1>2 DEF FlushOK, Queued
<1>4. PICK got \in SUBSET NotifyChats : outbox' = [outbox EXCEPT ![i] = [outbox[i] EXCEPT !.got = got]]
  <2>1. CASE Deliver
    BY <2>1 DEF Deliver
  <2>2. CASE DeliverSome
    <3>1. PICK g \in SUBSET NotifyChats : outbox' = [outbox EXCEPT ![i].got = @ \cup g]
      BY <2>2 DEF DeliverSome
    <3>2. outbox[i].got \cup g \in SUBSET NotifyChats
      BY <1>3 DEF Rows
    <3>. QED BY <3>1, <3>2
  <2>. QED BY <2>1, <2>2
<1>. DEFINE row == [outbox[i] EXCEPT !.got = got]
<1>5. row \in Rows /\ row.status = outbox[i].status
  BY <1>3 DEF Rows
<1>. HIDE DEF i, row
<1>. QED BY <1>1, <1>2, <1>3, <1>4, <1>5, ChangeOne DEF row

\* Settling a row leaves all others as they are.
LEMMA MarkRows ==
    ASSUME TypeOK, CInv, FlushOK, Mark
    PROVE  /\ outbox' \in Seq(Rows) /\ Len(outbox') = Len(outbox)
           /\ \A i \in 1..Len(outbox) :
                i # First(flush) \/ outbox[i].status # "queued" => outbox'[i] = outbox[i]
<1>. DEFINE i == First(flush)
            row == [outbox[i] EXCEPT !.status = reply.status]
<1>1. outbox \in Seq(Rows) /\ reply.status \in {"sent", "failed"}
  BY DEF TypeOK, Mark, FlushOK
<1>2. i \in 1..Len(outbox) /\ i \in flush
  BY InHand DEF Mark
<1>3. outbox[i] \in Rows /\ outbox[i].status = "queued"
  BY <1>1, <1>2 DEF FlushOK, Queued
<1>4. outbox' = [outbox EXCEPT ![i] = row]
  BY DEF Mark
<1>5. row \in Rows
  BY <1>1, <1>3 DEF Rows
<1>. HIDE DEF row
<1>. QED BY <1>1, <1>2, <1>3, <1>4, <1>5, ChangeOne

\* Every action keeps the types; that rows stay rows is said above.
LEMMA TypeStep ==
    ASSUME IInv, [Next]_vars
    PROVE  TypeOK'
<1>. USE DEF TypeOK
<1>0. TypeOK /\ CInv /\ FlushOK
  BY DEF IInv
<1>1. /\ pc \in {"log", "run", "finish"} =>
            Hand \in batch /\ Hand \in Updates /\ \A w \in batch : Hand <= w
      /\ pc \in {"flush", "mark"} =>
            First(flush) \in flush /\ First(flush) \in 1..Len(outbox)
  BY <1>0, InHand
<1>2. \A n \in Notices : Queue(n) => outbox' \in Seq(Rows)
  BY <1>0, QueueRows
<1>3. ASSUME UNCHANGED vars PROVE TypeOK'
  BY <1>0, <1>3 DEF vars
<1>4. ASSUME Write PROVE TypeOK'
  <2>1. budget.updates <= MaxUpdates /\ budget.updates \in Nat
        /\ budget.chats \subseteq Chats /\ budget.texts \subseteq Texts /\ MaxUpdates \in Nat
    BY <1>0, ConstantsAssumption
  <2>2. PICK c \in budget.chats, t \in budget.texts, k \in {0} \cup Asks :
           sent' = Append(sent, [chat |-> c, text |-> t, code |-> k])
    BY <1>4 DEF Write
  <2>3. Len(sent) < budget.updates /\ UNCHANGED <<commands, notices, clock, pc, slips, budget>>
    BY <1>4 DEF Write
  <2>4. k \in 0..MaxUpdates
    BY <1>0, <2>1 DEF Asks
  <2>5. [chat |-> c, text |-> t, code |-> k] \in Messages
    BY <2>1, <2>4 DEF Messages
  <2>6. sent' \in Seq(Messages) /\ Len(sent') <= MaxUpdates
    BY <1>0, <2>1, <2>2, <2>3, <2>5
  <2>. QED BY <1>0, <2>3, <2>6 DEF commands, notices
<1>5. ASSUME Tick PROVE TypeOK'
  BY <1>0, <1>5 DEF Tick, commands, notices
<1>6. ASSUME Notify PROVE TypeOK'
  BY <1>0, <1>2, <1>6 DEF Notify, commands, Stages
<1>7. ASSUME BeginFlush PROVE TypeOK'
  <2>1. flush' \subseteq 1..MaxNotices
    <3>1. Len(outbox) <= MaxNotices /\ MaxNotices \in Nat /\ Len(outbox) \in Nat
      BY <1>0, ConstantsAssumption DEF FlushOK
    <3>. QED BY <1>7, <3>1 DEF BeginFlush, Queued
  <2>2. pc' \in Stages
    BY <1>7 DEF BeginFlush, Stages
  <2>. QED BY <1>0, <1>7, <2>1, <2>2 DEF BeginFlush, commands
<1>8. ASSUME Deliver \/ DeliverSome PROVE TypeOK'
  <2>1. outbox' \in Seq(Rows)
    BY <1>0, <1>8, DeliverRows
  <2>2. pc' \in Stages /\ reply' \in [status : Outcomes \cup {"sent"}, said : BOOLEAN]
    <3>1. pc' = "mark" /\ \E t \in {"sent", "failed"} : reply' = [status |-> t, said |-> FALSE]
      BY <1>8 DEF Deliver, DeliverSome, Ends
    <3>. QED BY <3>1 DEF Stages, Outcomes
  <2>. QED BY <1>0, <1>8, <2>1, <2>2 DEF Deliver, DeliverSome
<1>9. ASSUME Mark PROVE TypeOK'
  <2>1. outbox' \in Seq(Rows)
    BY <1>0, <1>9, MarkRows
  <2>. QED BY <1>0, <1>9, <2>1 DEF Mark, Stages
<1>10. ASSUME Poll \/ PollFails PROVE TypeOK'
  <2>1. log' = ExpiredLog /\ pending' = Unexpired
    BY <1>10 DEF Poll, PollFails
  <2>2. batch' \subseteq Updates
    <3>1. Len(sent) \in Nat /\ Len(sent) <= MaxUpdates /\ MaxUpdates \in Nat
      BY <1>0, ConstantsAssumption
    <3>2. Fetched \subseteq 1..Len(sent)
      BY DEF Fetched
    <3>3. batch' = Fetched \/ batch' = batch
      BY <1>10 DEF Poll, PollFails
    <3>4. 1..Len(sent) \subseteq Updates /\ batch \subseteq Updates
      BY <1>0, <3>1 DEF Updates
    <3>. QED BY <3>2, <3>3, <3>4
  <2>. QED BY <1>0, <1>10, <2>1, <2>2, Expiry DEF Poll, PollFails, Stages, notices
<1>11. ASSUME Log PROVE TypeOK'
  <2>1. log' \in [Updates -> Entries \cup {None}]
    <3>1. Received \in Entries
      BY <1>0 DEF Received, Entries
    <3>2. log' = log \/ log' = [log EXCEPT ![Hand] = Received]
      BY <1>11 DEF Log, Hand
    <3>. QED BY <1>0, <3>1, <3>2
  <2>. QED BY <1>0, <1>11, <2>1 DEF Log, NextCommand, Stages, notices
<1>12. ASSUME NEW u \in Updates, RunRead(u) \/ RunRejected(u) PROVE TypeOK'
  <2>1. pc' = "finish" /\ UNCHANGED <<sent, notices, log, pending, batch, runs, clock, slips, budget>>
    BY <1>12 DEF RunRead, RunRejected, Running
  <2>2. reply' \in [status : Outcomes \cup {"sent"}, said : BOOLEAN]
    <3>1. \E t \in {"processed", "rejected", "failed"} : reply' = [status |-> t, said |-> FALSE]
      BY <1>12 DEF RunRead, RunRejected, Ends
    <3>. QED BY <3>1 DEF Outcomes
  <2>. QED BY <1>0, <2>1, <2>2 DEF Stages, notices
<1>13. ASSUME NEW u \in Updates, RunAsk(u) PROVE TypeOK'
  <2>1. pending' \in [Chats -> [ask : Updates, until : Nat] \cup {None}]
    <3>1. clock + TTL \in Nat
      BY <1>0, ConstantsAssumption
    <3>2. [ask |-> u, until |-> clock + TTL] \in [ask : Updates, until : Nat]
      BY <3>1
    <3>. QED BY <1>0, <1>13, <3>2, Expiry DEF RunAsk
  <2>. QED BY <1>0, <1>13, <2>1, Expiry DEF RunAsk, Running, Ends, Stages, Outcomes, notices
<1>14. ASSUME NEW u \in Updates, RunUnmatched(u) PROVE TypeOK'
  BY <1>0, <1>14, Expiry DEF RunUnmatched, Running, Ends, Stages, Outcomes, notices
<1>15. ASSUME NEW u \in Updates, RunConfirm(u) PROVE TypeOK'
  <2>1. sent[u].code \in Updates
    <3>1. u \in 1..Len(sent)
      BY <1>0, <1>1, <1>15 DEF RunConfirm, Running, Hand, CInv, BatchOK
    <3>2. sent[u].chat \in Chats
      <4>1. sent[u] \in Messages
        BY <1>0, <3>1
      <4>. QED BY <4>1 DEF Messages
    <3>3. Unexpired[sent[u].chat] \in [ask : Updates, until : Nat]
      BY <1>0, <1>15, <3>2, Expiry DEF RunConfirm, Found
    <3>. QED BY <1>15, <3>3 DEF RunConfirm, Found
  <2>2. runs' \in Seq([ask : Updates, confirm : Updates])
    <3>1. [ask |-> sent[u].code, confirm |-> u] \in [ask : Updates, confirm : Updates]
      BY <2>1
    <3>. QED BY <1>0, <1>15, <3>1 DEF RunConfirm
  <2>3. pending' \in [Chats -> [ask : Updates, until : Nat] \cup {None}]
    BY <1>0, <1>15, Expiry DEF RunConfirm
  <2>4. reply' \in [status : Outcomes \cup {"sent"}, said : BOOLEAN]
    BY <1>15 DEF RunConfirm, Ends, Outcomes
  <2>5. pc' \in Stages
    BY <1>15 DEF RunConfirm, Running, Stages
  <2>. QED BY <1>0, <1>15, <2>2, <2>3, <2>4, <2>5, Expiry DEF RunConfirm, notices
<1>16. ASSUME Finish PROVE TypeOK'
  <2>1. reply.status \in Outcomes /\ reply.said \in BOOLEAN
    BY <1>0, <1>16 DEF Finish, CInv, HandOK
  <2>2. log[Hand] \in Entries
    BY <1>0, <1>1, <1>16 DEF Finish, CInv, HandOK, Logged
  <2>3. log' = [log EXCEPT ![Hand] = [log[Hand] EXCEPT !.status = reply.status, !.said = reply.said]]
    BY <1>0, <1>1, <1>16, <2>2 DEF Finish, Hand
  <2>4. log' \in [Updates -> Entries \cup {None}]
    BY <1>0, <2>1, <2>2, <2>3 DEF Entries
  <2>. QED BY <1>0, <1>16, <2>4 DEF Finish, NextCommand, Stages, notices
<1>17. ASSUME IterationFails PROVE TypeOK'
  <2>1. outbox' \in Seq(Rows)
    BY <1>2, <1>17 DEF IterationFails, Notices
  <2>. QED BY <1>0, <1>17, <2>1 DEF IterationFails, Slip, Stages
<1>18. ASSUME Crash PROVE TypeOK'
  BY <1>0, <1>18 DEF Crash, Slip, Stages
<1>19. ASSUME Restart PROVE TypeOK'
  BY <1>0, <1>19 DEF Restart, Stages, commands, notices
<1>20. ASSUME Switch PROVE TypeOK'
  BY <1>0, <1>20 DEF Switch, commands
<1>. QED
  BY <1>3, <1>4, <1>5, <1>6, <1>7, <1>8, <1>9, <1>10, <1>11, <1>12, <1>13, <1>14, <1>15,
     <1>16, <1>17, <1>18, <1>19, <1>20 DEF Next, Loop, Run

-----------------------------------------------------------------------------
(* The rows of the outbox.                                                 *)

Settled == \A i \in 1..Len(outbox) : outbox[i].status # "queued" => outbox'[i] = outbox[i]

\* A flush holds queued rows only, so that no settled row is touched.
LEMMA RowsStep ==
    ASSUME IInv, [Next]_vars
    PROVE  FlushOK' /\ Settled
<1>0. TypeOK /\ CInv /\ FlushOK
  BY DEF IInv
<1>1. flush \subseteq 1..Len(outbox) /\ \A i \in flush : outbox[i].status = "queued"
  BY <1>0 DEF FlushOK, Queued
<1>2. Len(outbox) \in Nat /\ Len(outbox) <= budget.notices
  BY <1>0 DEF TypeOK, FlushOK
<1>3. pc \in {"flush", "mark"} => First(flush) \in flush
  BY <1>0, InHand
<1>4. ASSUME outbox' = outbox, flush' \in {flush, {}}, budget' = budget, pc' \notin {"flush", "mark"}
      PROVE  FlushOK' /\ Settled
  BY <1>1, <1>2, <1>4 DEF FlushOK, Queued, Settled
<1>5. CASE UNCHANGED vars \/ Write \/ Tick \/ Switch
  <2>1. UNCHANGED <<outbox, flush, budget, pc, reply>>
    BY <1>5 DEF vars, Write, Tick, Switch, commands, notices
  <2>. QED BY <1>0, <2>1 DEF FlushOK, Queued, Settled
<1>6. CASE Notify
  <2>1. PICK n \in Notices : Queue(n)
    BY <1>6 DEF Notify
  <2>2. pc' = "wait" /\ flush' = flush /\ budget' = budget
    BY <1>6 DEF Notify
  <2>3. /\ Len(outbox') \in Nat /\ Len(outbox) <= Len(outbox') /\ Len(outbox') <= budget.notices
        /\ \A i \in 1..Len(outbox) : outbox'[i] = outbox[i]
    BY <1>0, <2>1, QueueRows
  <2>. QED BY <1>1, <1>2, <2>2, <2>3 DEF FlushOK, Queued, Settled
<1>7. CASE BeginFlush
  BY <1>2, <1>7 DEF BeginFlush, FlushOK, Queued, Settled
<1>8. CASE Deliver \/ DeliverSome
  <2>1. flush' = flush /\ budget' = budget /\ pc' = "mark" /\ pc = "flush"
    BY <1>8 DEF Deliver, DeliverSome
  <2>2. reply' \in [status : {"sent", "failed"}, said : BOOLEAN]
    <3>1. \E t \in {"sent", "failed"} : reply' = [status |-> t, said |-> FALSE]
      BY <1>8 DEF Deliver, DeliverSome, Ends
    <3>. QED BY <3>1
  <2>3. /\ Len(outbox') = Len(outbox)
        /\ \A i \in 1..Len(outbox) :
             /\ outbox'[i].status = outbox[i].status
             /\ outbox[i].status # "queued" => outbox'[i] = outbox[i]
    BY <1>0, <1>8, DeliverRows
  <2>. QED BY <1>1, <1>2, <1>3, <2>1, <2>2, <2>3 DEF FlushOK, Queued, Settled
<1>9. CASE Mark
  <2>1. /\ flush' = flush \ {First(flush)} /\ budget' = budget
        /\ pc' \in {"poll", "flush"} /\ (pc' = "flush" => flush' # {})
    BY <1>9 DEF Mark
  <2>2. /\ Len(outbox') = Len(outbox)
        /\ \A i \in 1..Len(outbox) :
             i # First(flush) \/ outbox[i].status # "queued" => outbox'[i] = outbox[i]
    BY <1>0, <1>9, MarkRows
  <2>. QED BY <1>1, <1>2, <2>1, <2>2 DEF FlushOK, Queued, Settled
<1>10. CASE Poll \/ PollFails \/ Log \/ Finish \/ Restart
  BY <1>4, <1>10 DEF Poll, PollFails, Log, Finish, NextCommand, Restart, commands, notices
<1>11. CASE Run
  <2>1. PICK u \in Updates :
           RunRead(u) \/ RunRejected(u) \/ RunAsk(u) \/ RunUnmatched(u) \/ RunConfirm(u)
    BY <1>11 DEF Run
  <2>2. pc' = "finish" /\ UNCHANGED <<notices, budget>>
    BY <2>1 DEF RunRead, RunRejected, RunAsk, RunUnmatched, RunConfirm, Running
  <2>. QED BY <1>4, <2>2 DEF notices
<1>12. CASE IterationFails
  <2>1. pc' = "wait" /\ flush' = {} /\ budget' = budget
    BY <1>12 DEF IterationFails, Slip
  <2>3. Queue("error") /\ "error" \in Notices
    BY <1>12 DEF IterationFails, Notices
  <2>2. /\ Len(outbox') <= budget.notices
        /\ \A i \in 1..Len(outbox) : outbox'[i] = outbox[i]
    BY <1>0, <2>3, QueueRows
  <2>. QED BY <2>1, <2>2 DEF FlushOK, Queued, Settled
<1>13. CASE Crash
  BY <1>4, <1>13 DEF Crash, Slip
<1>. QED
  BY <1>5, <1>6, <1>7, <1>8, <1>9, <1>10, <1>11, <1>12, <1>13 DEF Next, Loop

-----------------------------------------------------------------------------
(* The commands.                                                           *)

\* OneLostPerSlip counts these.
Lost == {u \in Logged :
            log[u].status = "received" /\ ~(pc \in {"run", "finish"} /\ u = First(batch))}

\* Nothing that is said of the log is about what expiring changes.
LEMMA SameLog ==
    ASSUME TypeOK, log' \in {log, ExpiredLog}
    PROVE  /\ Logged' = Logged
           /\ \A u \in Logged :
                /\ log'[u].status \in Asked <=> log[u].status \in Asked
                /\ log'[u].status = "received" <=> log[u].status = "received"
<1>1. CASE log' = log
  BY <1>1 DEF Logged
<1>2. CASE log' = ExpiredLog
  <2>1. \A u \in Updates : log'[u] = None <=> log[u] = None
    BY <1>2, Expiry
  <2>2. \A u \in Updates : log[u] # None =>
          \/ log'[u] = log[u]
          \/ log[u].status = "pending_confirmation" /\ log'[u].status = "expired"
    BY <1>2, Expiry
  <2>. QED BY <2>1, <2>2 DEF Logged, Asked
<1>. QED BY <1>1, <1>2

\* A step that loses no outcome, and one that loses one.
LEMMA LostShrinks ==
    ASSUME TypeOK, OneLostPerSlip, Lost' \subseteq Lost, slips' = slips
    PROVE  OneLostPerSlip'
<1>1. IsFiniteSet(Updates)
  BY FS_Interval, ConstantsAssumption DEF Updates
<1>2. Lost \subseteq Updates
  BY DEF Lost, Logged
<1>3. IsFiniteSet(Lost)
  BY <1>1, <1>2, FS_Subset
<1>4. Cardinality(Lost') <= Cardinality(Lost) /\ Cardinality(Lost') \in Nat /\ Cardinality(Lost) \in Nat
  BY <1>3, FS_Subset, FS_CardinalityType
<1>5. Cardinality(Lost) <= slips /\ slips \in Nat
  BY DEF OneLostPerSlip, Lost, TypeOK
<1>6. Cardinality(Lost') <= slips'
  BY <1>4, <1>5
<1>. QED BY <1>6 DEF OneLostPerSlip, Lost

LEMMA LostGrows ==
    ASSUME TypeOK, OneLostPerSlip, NEW u, Lost' \subseteq Lost \cup {u}, slips' = slips + 1
    PROVE  OneLostPerSlip'
<1>1. IsFiniteSet(Updates)
  BY FS_Interval, ConstantsAssumption DEF Updates
<1>2. Lost \subseteq Updates
  BY DEF Lost, Logged
<1>3. IsFiniteSet(Lost)
  BY <1>1, <1>2, FS_Subset
<1>4. IsFiniteSet(Lost \cup {u}) /\ Cardinality(Lost \cup {u}) <= Cardinality(Lost) + 1
  <2>1. Cardinality(Lost) \in Nat
    BY <1>3, FS_CardinalityType
  <2>2. /\ IsFiniteSet(Lost \cup {u})
        /\ Cardinality(Lost \cup {u}) = IF u \in Lost THEN Cardinality(Lost) ELSE Cardinality(Lost) + 1
    BY <1>3, FS_AddElement
  <2>. HIDE DEF Lost
  <2>. QED BY <2>1, <2>2
<1>5. /\ Cardinality(Lost') <= Cardinality(Lost \cup {u}) /\ Cardinality(Lost') \in Nat
      /\ Cardinality(Lost \cup {u}) \in Nat /\ Cardinality(Lost) \in Nat
  BY <1>3, <1>4, FS_Subset, FS_CardinalityType
<1>6. Cardinality(Lost) <= slips /\ slips \in Nat
  BY DEF OneLostPerSlip, Lost, TypeOK
<1>7. Cardinality(Lost') <= slips'
  BY <1>4, <1>5, <1>6
<1>. QED BY <1>7 DEF OneLostPerSlip, Lost

\* Most steps leave the commands alone.
LEMMA Still ==
    ASSUME IInv, UNCHANGED <<sent, log, pending, batch, runs, slips>>,
           \/ UNCHANGED <<pc, reply>>
           \/ {pc, pc'} \cap {"log", "run", "finish"} = {}
    PROVE  CInv'
<1>0. TypeOK /\ CInv
  BY DEF IInv
<1>1. CASE UNCHANGED <<pc, reply>>
  BY <1>0, <1>1 DEF CInv, BatchOK, HandOK, PendingOK, RunsOK, NoneBehind, RunOnce, RunsAsked,
                    OneLostPerSlip, Asking, Hand, Command, Logged
<1>2. CASE pc \notin {"log", "run", "finish"} /\ pc' \notin {"log", "run", "finish"}
  <2>1. Logged' = Logged /\ Lost' = Lost
    BY <1>2 DEF Logged, Lost
  <2>2. OneLostPerSlip'
    BY <1>0, <2>1, LostShrinks DEF CInv
  <2>3. BatchOK' /\ HandOK' /\ RunsOK' /\ NoneBehind' /\ RunOnce' /\ RunsAsked'
    BY <1>0, <1>2, <2>1 DEF CInv, BatchOK, HandOK, RunsOK, NoneBehind, RunOnce, RunsAsked, Command
  <2>4. PendingOK'
    BY <1>0, <1>2, <2>1 DEF CInv, PendingOK, Asking
  <2>. QED BY <2>2, <2>3, <2>4 DEF CInv
<1>. QED BY <1>1, <1>2

\* A message more, in front of a poll.
LEMMA WriteStep ==
    ASSUME IInv, Write
    PROVE  CInv'
<1>0. TypeOK /\ CInv /\ sent \in Seq(Messages)
  BY DEF IInv, TypeOK
<1>1. pc = "poll" /\ UNCHANGED <<log, pending, batch, reply, runs, pc, slips>>
  BY DEF Write, commands
<1>2. /\ Len(sent) <= Len(sent') /\ Len(sent) \in Nat /\ Len(sent') \in Nat
      /\ \A u \in 1..Len(sent) : sent'[u] = sent[u]
  <2>1. PICK c \in budget.chats, t \in budget.texts, k \in {0} \cup Asks :
           sent' = Append(sent, [chat |-> c, text |-> t, code |-> k])
    BY DEF Write
  <2>. QED BY <1>0, <2>1
<1>3. Logged' = Logged /\ Logged \subseteq 1..Len(sent) /\ Lost' = Lost
  BY <1>0, <1>1 DEF Logged, Lost, CInv, HandOK
<1>4. OneLostPerSlip'
  BY <1>0, <1>1, <1>3, LostShrinks DEF CInv
<1>11. \A w \in 1..Len(sent) : \A u \in Updates : u <= w => sent'[u] = sent[u]
  BY <1>0, <1>2 DEF Updates
<1>5. BatchOK'
  <2>1. batch \subseteq 1..Len(sent) /\ 1..Len(sent) \subseteq 1..Len(sent')
    BY <1>0, <1>2 DEF CInv, BatchOK
  <2>2. \A w \in batch : sent'[w] = sent[w]
    BY <1>2, <2>1
  <2>. QED BY <1>0, <1>1, <1>3, <1>11, <2>1, <2>2 DEF CInv, BatchOK, Command
<1>6. HandOK'
  BY <1>0, <1>1, <1>2, <1>3 DEF CInv, HandOK
<1>7. PendingOK'
  <2>. SUFFICES ASSUME NEW c \in Chats, pending[c] # None
                PROVE  PendingOK!(c)!2'
    BY <1>1 DEF PendingOK
  <2>. QED BY <1>0, <1>1, <1>2, <1>3 DEF CInv, PendingOK, Asking
<1>8. RunsOK' /\ RunOnce'
  BY <1>0, <1>1, <1>3 DEF CInv, RunsOK, RunOnce
<1>9. NoneBehind'
  BY <1>0, <1>1, <1>3, <1>11 DEF CInv, NoneBehind, Command
<1>10. RunsAsked'
  <2>1. \A i \in 1..Len(runs) : runs[i].ask \in 1..Len(sent) /\ runs[i].confirm \in 1..Len(sent)
    BY <1>0, <1>3 DEF CInv, RunsOK
  <2>2. \A u \in Logged : sent'[u] = sent[u]
    BY <1>2, <1>3
  <2>. QED BY <1>0, <1>1, <1>2, <1>3, <2>1, <2>2 DEF CInv, RunsAsked
<1>. QED BY <1>4, <1>5, <1>6, <1>7, <1>8, <1>9, <1>10 DEF CInv

\* What a step that expires commands, and logs and runs none, keeps.
LEMMA Kept ==
    ASSUME IInv, log' \in {log, ExpiredLog}, UNCHANGED <<sent, runs, slips>>
    PROVE  /\ Logged' = Logged
           /\ \A u \in Logged : log'[u].status \in Asked <=> log[u].status \in Asked
           /\ NoneBehind' /\ RunOnce' /\ RunsAsked'
<1>0. TypeOK /\ CInv
  BY DEF IInv
<1>1. Logged' = Logged /\ \A u \in Logged : log'[u].status \in Asked <=> log[u].status \in Asked
  BY <1>0, SameLog
<1>2. NoneBehind'
  BY <1>0, <1>1 DEF CInv, NoneBehind, Command
<1>3. RunOnce'
  BY <1>0 DEF CInv, RunOnce
<1>4. RunsAsked'
  BY <1>0, <1>1 DEF CInv, RunsAsked
<1>. QED BY <1>1, <1>2, <1>3, <1>4

\* Behind the offset of the poll, every command is in the log.
LEMMA OffsetPasses ==
    ASSUME TypeOK, CInv
    PROVE  Offset \in Nat /\ \A u \in Updates : u < Offset /\ Command(u) => u \in Logged
<1>1. CASE Logged = {}
  BY <1>1 DEF Offset, Updates
<1>2. CASE Logged # {}
  <2>1. Logged \subseteq 1..MaxUpdates /\ MaxUpdates \in Nat
    BY ConstantsAssumption DEF Logged, Updates
  <2>2. \E m \in Logged : \A v \in Logged : v <= m
    BY <1>2, <2>1, LargestExists
  <2>3. PICK m \in Logged : Offset = 1 + m
    BY <1>2, <2>2 DEF Offset
  <2>4. m \in Nat /\ \A u \in Updates : u < 1 + m => u <= m
    BY <2>1 DEF Updates
  <2>. QED BY <2>3, <2>4 DEF CInv, NoneBehind
<1>. QED BY <1>1, <1>2

\* What is fetched comes after the offset, and what is before it is logged.
LEMMA PollStep ==
    ASSUME IInv, Poll \/ PollFails
    PROVE  CInv'
<1>0. TypeOK /\ CInv
  BY DEF IInv
<1>1. /\ log' = ExpiredLog /\ pending' = Unexpired /\ pc = "poll" /\ pc' \in {"wait", "log"}
      /\ UNCHANGED <<sent, runs, slips>>
  BY DEF Poll, PollFails
<1>2. /\ Logged' = Logged
      /\ \A u \in Logged : log'[u].status \in Asked <=> log[u].status \in Asked
      /\ NoneBehind' /\ RunOnce' /\ RunsAsked'
  BY <1>1, Kept
<1>3. \A c \in Chats : pending'[c] # None => pending'[c] = pending[c]
  BY <1>0, <1>1, Expiry
<1>4. BatchOK'
  <2>1. CASE Poll
    <3>1. batch' = Fetched /\ (pc' = "log" => batch' # {})
      BY <2>1 DEF Poll
    <3>2. Fetched \subseteq 1..Len(sent) /\ \A w \in Fetched : Command(w)
      BY DEF Fetched, Command
    <3>3. \A w \in Fetched : \A u \in Updates :
            u <= w /\ Command(u) /\ u \notin Fetched => u \in Logged
      <4>. SUFFICES ASSUME NEW w \in Fetched, NEW u \in Updates, u <= w, Command(u), u \notin Fetched
                    PROVE  u \in Logged
        OBVIOUS
      <4>1. w \in 1..Len(sent) /\ w < Offset + PollLimit /\ u \in 1..Len(sent)
        BY <1>0 DEF Fetched, Updates, TypeOK
      <4>2. Offset \in Nat /\ PollLimit \in Nat /\ Len(sent) \in Nat
        BY <1>0, OffsetPasses, ConstantsAssumption DEF TypeOK
      <4>3. u < Offset
        BY <4>1, <4>2 DEF Fetched, Command
      <4>. QED BY <1>0, <4>3, OffsetPasses
    <3>. QED BY <1>1, <1>2, <3>1, <3>2, <3>3 DEF BatchOK, Command
  <2>2. CASE PollFails
    BY <1>0, <1>1, <1>2, <2>2 DEF PollFails, CInv, BatchOK, Command
  <2>. QED BY <2>1, <2>2
<1>5. HandOK'
  BY <1>0, <1>1, <1>2 DEF CInv, HandOK
<1>6. PendingOK'
  BY <1>0, <1>1, <1>2, <1>3 DEF CInv, PendingOK, Asking
<1>7. RunsOK'
  BY <1>0, <1>1, <1>2 DEF CInv, RunsOK
<1>8. OneLostPerSlip'
  <2>1. Lost' \subseteq Lost
    BY <1>0, <1>1, SameLog DEF Lost
  <2>. QED BY <1>0, <1>1, <2>1, LostShrinks DEF CInv
<1>. QED BY <1>2, <1>4, <1>5, <1>6, <1>7, <1>8 DEF CInv

\* A command is logged: it becomes the largest in the log.
LEMMA LogStep ==
    ASSUME IInv, Log
    PROVE  CInv'
<1>0. TypeOK /\ CInv /\ FlushOK
  BY DEF IInv
<1>1. /\ pc = "log" /\ UNCHANGED <<sent, pending, runs, slips>>
      /\ Hand \in batch /\ Hand \in Updates /\ \A w \in batch : Hand <= w
  BY <1>0, InHand DEF Log
<1>2. CASE log[Hand] = None
  <2>1. log' = [log EXCEPT ![Hand] = Received] /\ pc' = "run" /\ batch' = batch
    BY <1>2 DEF Log, Hand
  <2>2. /\ Logged' = Logged \cup {Hand} /\ Hand \notin Logged /\ log'[Hand] = Received
        /\ \A u \in Logged : log'[u] = log[u]
    <3>1. log \in [Updates -> Entries \cup {None}] /\ Received \in Entries /\ None \notin Entries
      BY <1>0, ConstantsAssumption DEF TypeOK, Received, Entries
    <3>. QED BY <1>1, <1>2, <2>1, <3>1 DEF Logged
  <2>3. \A v \in Logged : v < Hand
    <3>1. Logged \subseteq Nat /\ Hand \in Nat
      BY <1>1 DEF Logged, Updates
    <3>2. \A v \in Logged : ~(Hand < v)
      BY <1>0, <1>1, <2>2, <3>1 DEF CInv, NoneBehind, BatchOK
    <3>. QED BY <2>2, <3>1, <3>2
  <2>4. Hand' = Hand
    BY <2>1 DEF Hand
  <2>5. BatchOK'
    BY <1>0, <1>1, <2>1, <2>2 DEF CInv, BatchOK, Command
  <2>6. HandOK'
    BY <1>0, <1>1, <2>1, <2>2, <2>3, <2>4 DEF CInv, HandOK, BatchOK, Updates
  <2>7. PendingOK'
    <3>1. Received.status \notin Asked
      BY DEF Received, Asked
    <3>. QED BY <1>0, <1>1, <2>1, <2>2, <2>4, <3>1 DEF CInv, PendingOK, Asking
  <2>8. RunsOK'
    BY <1>0, <1>1, <2>1, <2>2, <2>4 DEF CInv, RunsOK
  <2>9. NoneBehind'
    BY <1>0, <1>1, <2>1, <2>2 DEF CInv, NoneBehind, BatchOK, Command
  <2>10. RunsAsked' /\ RunOnce'
    <3>1. \A i \in 1..Len(runs) : ~(Hand < runs[i].confirm)
      BY <1>0, <1>1, <2>3 DEF CInv, RunsOK, Logged, Updates
    <3>. QED BY <1>0, <1>1, <2>2, <3>1 DEF CInv, RunsAsked, RunOnce
  <2>11. Lost' \subseteq Lost
    BY <1>1, <2>1, <2>2, <2>4 DEF Lost, Hand
  <2>12. OneLostPerSlip'
    BY <1>0, <1>1, <2>11, LostShrinks DEF CInv
  <2>. QED BY <2>5, <2>6, <2>7, <2>8, <2>9, <2>10, <2>12 DEF CInv
<1>3. CASE log[Hand] # None
  <2>1. /\ log' = log /\ batch' = batch \ {Hand} /\ pc' \in {"wait", "log"}
        /\ pc' = "log" => batch' # {}
    BY <1>3 DEF Log, NextCommand, Hand
  <2>2. Logged' = Logged /\ Hand \in Logged
    BY <1>1, <1>3, <2>1 DEF Logged
  <2>3. BatchOK'
    BY <1>0, <1>1, <2>1, <2>2 DEF CInv, BatchOK, Command
  <2>4. HandOK' /\ PendingOK' /\ RunsOK'
    BY <1>0, <1>1, <2>1, <2>2 DEF CInv, HandOK, PendingOK, Asking, RunsOK
  <2>5. NoneBehind' /\ RunsAsked' /\ RunOnce'
    BY <1>0, <1>1, <2>1, <2>2 DEF CInv, NoneBehind, Command, RunsAsked, RunOnce
  <2>6. Lost' \subseteq Lost
    BY <1>1, <2>1, <2>2 DEF Lost
  <2>7. OneLostPerSlip'
    BY <1>0, <1>1, <2>6, LostShrinks DEF CInv
  <2>. QED BY <2>3, <2>4, <2>5, <2>7 DEF CInv
<1>. QED BY <1>2, <1>3

\* What every way of running the command in hand keeps.
LEMMA RunKeeps ==
    ASSUME IInv, pc = "run", pc' = "finish", log' \in {log, ExpiredLog},
           UNCHANGED <<sent, batch, slips>>,
           reply' \in [status : Outcomes, said : BOOLEAN]
    PROVE  /\ Hand' = Hand /\ Logged' = Logged /\ Hand \in Logged /\ Hand \in Nat
           /\ \A v \in Logged : v <= Hand
           /\ \A u \in Logged : log'[u].status \in Asked <=> log[u].status \in Asked
           /\ BatchOK' /\ HandOK' /\ NoneBehind' /\ OneLostPerSlip'
<1>0. TypeOK /\ CInv
  BY DEF IInv
<1>1. /\ Logged' = Logged
      /\ \A u \in Logged :
            /\ log'[u].status \in Asked <=> log[u].status \in Asked
            /\ log'[u].status = "received" <=> log[u].status = "received"
  BY <1>0, SameLog
<1>2. Hand' = Hand /\ Hand \in Logged /\ \A v \in Logged : v <= Hand
  BY <1>0 DEF Hand, CInv, HandOK
<1>3. BatchOK' /\ HandOK'
  BY <1>0, <1>1, <1>2 DEF CInv, BatchOK, HandOK, Command
<1>4. NoneBehind'
  BY <1>0, <1>1 DEF CInv, NoneBehind, Command
<1>5. Lost' \subseteq Lost
  BY <1>1 DEF Lost
<1>6. OneLostPerSlip'
  BY <1>0, <1>5, LostShrinks DEF CInv
<1>. QED BY <1>1, <1>2, <1>3, <1>4, <1>6 DEF Logged, Updates

\* A confirmation runs the last command that its chat asked for, once.
LEMMA RunStep ==
    ASSUME IInv, Run
    PROVE  CInv'
<1>0. TypeOK /\ CInv
  BY DEF IInv
<1>1. PICK u \in Updates :
         RunRead(u) \/ RunRejected(u) \/ RunAsk(u) \/ RunUnmatched(u) \/ RunConfirm(u)
  BY DEF Run
<1>2. /\ pc = "run" /\ pc' = "finish" /\ u = Hand /\ UNCHANGED <<sent, batch, slips>>
      /\ log' \in {log, ExpiredLog}
  BY <1>1 DEF RunRead, RunRejected, RunAsk, RunUnmatched, RunConfirm, Running, Hand
<1>3. reply' \in [status : Outcomes, said : BOOLEAN]
  <2>1. \E s \in Outcomes, said \in BOOLEAN : reply' = [status |-> s, said |-> said]
    BY <1>1 DEF RunRead, RunRejected, RunAsk, RunUnmatched, RunConfirm, Ends, Outcomes
  <2>. QED BY <2>1
<1>4. /\ Hand' = Hand /\ Logged' = Logged /\ Hand \in Logged /\ Hand \in Nat
      /\ \A v \in Logged : v <= Hand
      /\ \A v \in Logged : log'[v].status \in Asked <=> log[v].status \in Asked
      /\ BatchOK' /\ HandOK' /\ NoneBehind' /\ OneLostPerSlip'
  BY <1>2, <1>3, RunKeeps
<1>5. CASE RunRead(u) \/ RunRejected(u) \/ RunUnmatched(u)
  <2>1. /\ runs' = runs /\ reply'.status # "pending_confirmation"
        /\ \A c \in Chats : pending'[c] # None => pending'[c] = pending[c]
    BY <1>0, <1>5, Expiry DEF RunRead, RunRejected, RunUnmatched, Ends
  <2>2. PendingOK'
    BY <1>0, <1>2, <1>4, <2>1 DEF CInv, PendingOK, Asking
  <2>3. RunsOK' /\ RunOnce' /\ RunsAsked'
    BY <1>0, <1>2, <1>4, <2>1 DEF CInv, RunsOK, RunOnce, RunsAsked
  <2>. QED BY <1>4, <2>2, <2>3 DEF CInv
<1>6. CASE RunAsk(u)
  <2>1. /\ runs' = runs /\ sent[u].chat \in Authorized
        /\ pending' = [Unexpired EXCEPT ![sent[u].chat] = [ask |-> u, until |-> clock + TTL]]
    BY <1>6 DEF RunAsk
  <2>2. PendingOK'
    <3>. SUFFICES ASSUME NEW c \in Chats, pending'[c] # None
                  PROVE  PendingOK!(c)!2'
      BY DEF PendingOK
    <3>1. CASE c = sent[u].chat
      <4>1. pending'[c].ask = u
        BY <1>0, <2>1, <3>1, Expiry
      <4>. QED BY <1>0, <1>2, <1>4, <2>1, <3>1, <4>1 DEF CInv, RunsOK
    <3>2. CASE c # sent[u].chat
      <4>1. pending'[c] = pending[c]
        BY <1>0, <2>1, <3>2, Expiry
      <4>. QED BY <1>0, <1>2, <1>4, <2>1, <3>2, <4>1 DEF CInv, PendingOK, Asking
    <3>. QED BY <3>1, <3>2
  <2>3. RunsOK' /\ RunOnce' /\ RunsAsked'
    BY <1>0, <1>2, <1>4, <2>1 DEF CInv, RunsOK, RunOnce, RunsAsked
  <2>. QED BY <1>4, <2>2, <2>3 DEF CInv
<1>7. CASE RunConfirm(u)
  <2>. DEFINE a == sent[u].code
              d == sent[u].chat
              r == [ask |-> a, confirm |-> u]
  <2>1. /\ runs' = Append(runs, r) /\ d \in Authorized
        /\ pending' = [Unexpired EXCEPT ![d] = None] /\ Unexpired[d] # None /\ Unexpired[d].ask = a
    BY <1>7 DEF RunConfirm, Found
  <2>2. d \in Chats
    <3>1. u \in 1..Len(sent)
      BY <1>0, <1>2, <1>4 DEF CInv, HandOK
    <3>2. sent[u] \in Messages
      BY <1>0, <3>1 DEF TypeOK
    <3>. QED BY <3>2 DEF Messages
  <2>3. pending[d] # None /\ pending[d].ask = a
    BY <1>0, <2>1, <2>2, Expiry
  <2>4. \A c \in Chats : pending'[c] # None => c # d /\ pending'[c] = pending[c]
    BY <1>0, <2>1, Expiry
  <2>5. reply'.status # "pending_confirmation"
    BY <1>7 DEF RunConfirm, Ends
  <2>6. /\ a \in Logged /\ sent[a].chat = d /\ a # u
        /\ \A i \in 1..Len(runs) : runs[i].ask # a /\ runs[i].confirm # u
        /\ \A v \in Logged : sent[v].chat = d /\ log[v].status \in Asked => v <= a
    BY <1>0, <1>2, <2>2, <2>3 DEF CInv, PendingOK, RunsOK, Asking
  <2>7. a < u
    BY <1>2, <1>4, <2>6 DEF Logged, Updates
  <2>8. /\ Len(runs') = Len(runs) + 1 /\ Len(runs) \in Nat
        /\ runs'[Len(runs) + 1].ask = a /\ runs'[Len(runs) + 1].confirm = u
        /\ \A i \in 1..Len(runs) : runs'[i] = runs[i]
    <3>1. r \in [ask : Updates, confirm : Updates]
      BY <2>6 DEF Logged
    <3>2. runs \in Seq([ask : Updates, confirm : Updates]) /\ r.ask = a /\ r.confirm = u
      BY <1>0 DEF TypeOK
    <3>. HIDE DEF r
    <3>. QED BY <2>1, <3>1, <3>2, AppendOne
  <2>9. \A i \in 1..Len(runs') : i \in 1..Len(runs) \/ i = Len(runs) + 1
    BY <2>8
  <2>. HIDE DEF a, d, r
  <2>10. PendingOK'
    <3>. SUFFICES ASSUME NEW c \in Chats, pending'[c] # None
                  PROVE  PendingOK!(c)!2'
      BY DEF PendingOK
    <3>1. c # d /\ pending'[c] = pending[c] /\ pending[c] # None /\ sent[pending[c].ask].chat = c
      BY <1>0, <2>4 DEF CInv, PendingOK
    <3>2. pending[c].ask # a
      BY <2>6, <3>1
    <3>. QED BY <1>0, <1>2, <1>4, <2>5, <2>8, <2>9, <3>1, <3>2 DEF CInv, PendingOK, Asking
  <2>11. RunsOK'
    BY <1>0, <1>2, <1>4, <2>6, <2>8, <2>9 DEF CInv, RunsOK
  <2>12. RunOnce'
    BY <1>0, <2>6, <2>8, <2>9 DEF CInv, RunOnce
  <2>13. RunsAsked'
    <3>1. sent[u].chat = d
      BY DEF d
    <3>2. \A v \in Logged : a < v /\ sent[v].chat = d => log'[v].status \notin Asked
      BY <1>4, <2>6 DEF Logged, Updates
    <3>. QED BY <1>0, <1>2, <1>4, <2>1, <2>6, <2>7, <2>8, <2>9, <3>1, <3>2 DEF CInv, RunsAsked
  <2>. QED BY <1>4, <2>10, <2>11, <2>12, <2>13 DEF CInv
<1>. QED BY <1>1, <1>5, <1>6, <1>7

\* The outcome of the command in hand is written to its row.
LEMMA FinishStep ==
    ASSUME IInv, Finish
    PROVE  CInv'
<1>0. TypeOK /\ CInv /\ FlushOK
  BY DEF IInv
<1>1. /\ pc = "finish" /\ UNCHANGED <<sent, pending, runs, slips>>
      /\ batch' = batch \ {Hand} /\ pc' \in {"wait", "log"} /\ (pc' = "log" => batch' # {})
  BY DEF Finish, NextCommand, Hand
<1>2. Hand \in Logged /\ Hand \in Updates /\ \A v \in Logged : v <= Hand
  BY <1>0, <1>1, InHand DEF CInv, HandOK
<1>3. reply.status \in Outcomes /\ log[Hand] \in Entries /\ None \notin Entries
  BY <1>0, <1>1, <1>2, ConstantsAssumption DEF CInv, HandOK, TypeOK, Logged
<1>4. /\ Logged' = Logged /\ log'[Hand].status = reply.status
      /\ \A v \in Logged : v # Hand => log'[v] = log[v]
  <2>. DEFINE e == [log[Hand] EXCEPT !.status = reply.status, !.said = reply.said]
  <2>1. log \in [Updates -> Entries \cup {None}]
    BY <1>0 DEF TypeOK
  <2>2. reply.said \in BOOLEAN
    BY <1>0, <1>1 DEF CInv, HandOK
  <2>3. e \in Entries /\ e.status = reply.status
    BY <1>3, <2>2 DEF Entries
  <2>4. log' = [log EXCEPT ![Hand] = e]
    BY <1>2, <2>1 DEF Finish, Hand
  <2>. HIDE DEF e
  <2>. QED BY <1>2, <1>3, <2>1, <2>3, <2>4 DEF Logged
<1>5. BatchOK'
  BY <1>0, <1>1, <1>2, <1>4 DEF CInv, BatchOK, Command
<1>6. HandOK'
  BY <1>0, <1>1, <1>4 DEF CInv, HandOK
<1>7. PendingOK'
  <2>1. \A v \in Logged : log'[v].status \in Asked => Asking(v)
    BY <1>1, <1>3, <1>4 DEF Asking, Asked, Outcomes
  <2>2. \A v \in Logged : Asking(v)' => Asking(v)
    BY <1>1, <2>1 DEF Asking
  <2>. QED BY <1>0, <1>1, <1>4, <2>2 DEF CInv, PendingOK
<1>8. RunsOK' /\ RunOnce'
  BY <1>0, <1>1, <1>4 DEF CInv, RunsOK, RunOnce
<1>9. NoneBehind'
  BY <1>0, <1>1, <1>4 DEF CInv, NoneBehind, Command
<1>10. RunsAsked'
  <2>1. \A i \in 1..Len(runs) : ~(Hand < runs[i].confirm)
    BY <1>0, <1>2 DEF CInv, RunsOK, Logged, Updates
  <2>2. \A i \in 1..Len(runs), v \in Logged : v < runs[i].confirm => log'[v] = log[v]
    BY <1>4, <2>1
  <2>. QED BY <1>0, <1>1, <1>4, <2>2 DEF CInv, RunsAsked
<1>11. Lost' \subseteq Lost
  BY <1>1, <1>3, <1>4 DEF Lost, Hand, Outcomes
<1>12. OneLostPerSlip'
  BY <1>0, <1>1, <1>11, LostShrinks DEF CInv
<1>. QED BY <1>5, <1>6, <1>7, <1>8, <1>9, <1>10, <1>12 DEF CInv

\* An iteration that is cut off loses the outcome of the command in hand only.
LEMMA SlipStep ==
    ASSUME IInv, IterationFails \/ Crash
    PROVE  CInv'
<1>0. TypeOK /\ CInv
  BY DEF IInv
<1>1. /\ UNCHANGED <<sent, log, runs>> /\ slips' = slips + 1 /\ batch' = {}
      /\ pc' \in {"wait", "off"}
      /\ \A c \in Chats : pending'[c] # None => pending'[c] = pending[c]
  BY DEF IterationFails, Crash, Slip
<1>2. Logged' = Logged
  BY <1>1 DEF Logged
<1>3. BatchOK' /\ HandOK' /\ RunsOK' /\ RunOnce'
  BY <1>0, <1>1, <1>2 DEF CInv, BatchOK, HandOK, RunsOK, RunOnce
<1>4. PendingOK'
  BY <1>0, <1>1, <1>2 DEF CInv, PendingOK, Asking
<1>5. NoneBehind' /\ RunsAsked'
  BY <1>0, <1>1, <1>2 DEF CInv, NoneBehind, RunsAsked, Command
<1>6. Lost' \subseteq Lost \cup {Hand}
  BY <1>1, <1>2 DEF Lost, Hand
<1>7. OneLostPerSlip'
  BY <1>0, <1>1, <1>6, LostGrows DEF CInv
<1>. QED BY <1>3, <1>4, <1>5, <1>7 DEF CInv

LEMMA Step ==
    ASSUME IInv, [Next]_vars
    PROVE  IInv' /\ Settled
<1>1. TypeOK' /\ FlushOK' /\ Settled
  BY TypeStep, RowsStep
<1>2. CASE UNCHANGED vars \/ Tick \/ Notify \/ Switch \/ BeginFlush \/ Deliver \/ DeliverSome \/ Mark \/ Restart
  <2>1. UNCHANGED <<sent, log, pending, batch, runs, slips>>
    BY <1>2 DEF vars, Tick, Notify, Switch, BeginFlush, Deliver, DeliverSome, Mark, Restart, commands
  <2>2. UNCHANGED <<pc, reply>> \/ {pc, pc'} \cap {"log", "run", "finish"} = {}
    BY <1>2 DEF vars, Tick, Notify, Switch, BeginFlush, Deliver, DeliverSome, Mark, Restart, commands
  <2>3. CInv'
    BY <2>1, <2>2, Still
  <2>. QED BY <1>1, <2>3 DEF IInv
<1>3. CASE Write \/ Poll \/ PollFails \/ Log \/ Run \/ Finish \/ IterationFails \/ Crash
  BY <1>1, <1>3, WriteStep, PollStep, LogStep, RunStep, FinishStep, SlipStep DEF IInv
<1>. QED BY <1>2, <1>3 DEF Next, Loop

LEMMA Starts ==
    ASSUME Init
    PROVE  IInv
<1>1. /\ sent = <<>> /\ log = [u \in Updates |-> None] /\ pending = [c \in Chats |-> None]
      /\ clock = 0 /\ pc = "wait" /\ batch = {} /\ reply = None /\ outbox = <<>> /\ flush = {}
      /\ ready \in BOOLEAN /\ runs = <<>> /\ slips = 0 /\ budget \in Budgets
  BY DEF Init
<1>2. Logged = {} /\ Lost = {} /\ Len(runs) = 0 /\ Len(sent) = 0 /\ Len(outbox) = 0
  BY <1>1 DEF Logged, Lost
<1>3. TypeOK
  BY <1>1, <1>2, ConstantsAssumption DEF TypeOK, Stages
<1>4. OneLostPerSlip
  <2>1. Cardinality(Lost) <= slips
    BY <1>1, <1>2, FS_EmptySet
  <2>. QED BY <2>1 DEF OneLostPerSlip, Lost
<1>5. CInv
  BY <1>1, <1>2, <1>4 DEF CInv, BatchOK, HandOK, PendingOK, RunsOK, NoneBehind, RunsAsked, RunOnce
<1>6. FlushOK
  BY <1>1, <1>2, ConstantsAssumption DEF FlushOK
<1>. QED BY <1>3, <1>5, <1>6 DEF IInv

LEMMA Invariance == Spec => []IInv
<1>1. Init => IInv
  BY Starts
<1>2. IInv /\ [Next]_vars => IInv'
  BY Step
<1>. QED BY <1>1, <1>2, PTL DEF Spec

\* Every state of the bot is well typed; in particular its rows and commands
\* stay within the bounds that the behavior has chosen.
THEOREM TypeCorrect == Spec => []TypeOK
<1>1. IInv => TypeOK
  BY DEF IInv
<1>. QED BY <1>1, Invariance, PTL

\* No command is run twice and no confirmation runs two, however often the
\* engine is killed and whatever is sent to it.
THEOREM RunsOnce == Spec => []RunOnce
<1>1. IInv => RunOnce
  BY DEF IInv, CInv
<1>. QED BY <1>1, Invariance, PTL

\* The offset of the poll passes over no command.
THEOREM OffsetSkipsNone == Spec => []NoneSkipped
<1>1. IInv => NoneSkipped
  <2>. SUFFICES ASSUME IInv PROVE NoneSkipped
    OBVIOUS
  <2>1. \A v \in Logged : \A u \in 1..v : v \in Updates /\ u \in Updates /\ u <= v
    BY ConstantsAssumption DEF Logged, Updates
  <2>. QED BY <2>1 DEF IInv, CInv, NoneBehind, NoneSkipped, Command, Logged
<1>. QED BY <1>1, Invariance, PTL

\* What is run was asked for and confirmed by one authorized chat, that had
\* asked for nothing since.
THEOREM RunsAsAsked == Spec => []RunAsAsked
<1>1. IInv => RunAsAsked
  <2>. SUFFICES ASSUME IInv PROVE RunAsAsked
    OBVIOUS
  <2>1. \A i \in 1..Len(runs) : runs[i].ask \in Updates /\ runs[i].confirm \in Updates
    BY DEF IInv, CInv, RunsOK, Logged
  <2>2. \A a, c \in Updates : \A u \in a+1..c-1 : u \in Updates /\ a < u /\ u < c
    BY ConstantsAssumption DEF Updates
  <2>. QED BY <2>1, <2>2 DEF IInv, CInv, RunsAsked, RunAsAsked, Asked, Logged
<1>. QED BY <1>1, Invariance, PTL

\* Each crash and each failed iteration leaves at most one logged command
\* without an outcome.
THEOREM SlipsLoseOne == Spec => []OneLostPerSlip
<1>1. IInv => OneLostPerSlip
  BY DEF IInv, CInv
<1>. QED BY <1>1, Invariance, PTL

\* A row of the outbox that was sent or given up is delivered to nobody again.
THEOREM RowsStaySettled == Spec => SettledForGood
<1>1. IInv /\ [Next]_vars => Settled
  BY Step
<1>2. Settled => [\A i \in 1..Len(outbox) : outbox[i].status # "queued" => outbox'[i] = outbox[i]]_vars
  BY DEF Settled
<1>. QED BY <1>1, <1>2, Invariance, PTL DEF Spec, SettledForGood

-----------------------------------------------------------------------------
(* ApiClient.                                                              *)

\* At most one order for each path tried so far, the present one included only
\* once it has been answered; a result means that the last request made one.
CountedByPath ==
    op = "create" =>
        /\ result = "none" => made < at.path
        /\ result # "none" => made <= at.path
        /\ result \in Results => made >= 1

\* The n-th entry of the list has been sent to path p: the call is past it, or
\* ended with it.
SentTo(n, p) ==
    \/ at.variant > n
    \/ at.variant = n /\ at.path > p
    \/ at.variant = n /\ at.path = p /\ result # "none"

Times(b) == IF b THEN 1 ELSE 0

\* The entries of the list that a request was sent for so far, with no attempt
\* counted twice.
SentByEntry ==
    \A p \in 1..Paths :
        /\ op = "create" =>
              \A f \in AllForms : tries[<<f, p>>] <= Times(f = "btc_thb" /\ SentTo(1, p))
        /\ op = "cancel" =>
              /\ tries[<<"thb_btc", p>>] <= Times(SentTo(1, p))
              /\ tries[<<"btc_thb", p>>] <= Times(SentTo(2, p)) + Times(SentTo(3, p))

CallInv == CallTypeOK /\ CountedByPath /\ SentByEntry

USE DEF Paths

\* The three ways on from a request all give a request of the same call, and
\* a create call has no spelling and no attempt to go on to.
LEMMA AfterFailureShape ==
    ASSUME CallTypeOK, result = "none", NEW answer \in Failures, AfterFailure(answer)
    PROVE  /\ at' \in [variant : 1..Variants(op), path : 1..PathsOf(op), attempt : 1..MaxAttempts(op)]
           /\ result' \in {"none", "ambiguous", "error"}
           /\ result' # "none" => at' = at
           /\ op \in Writes /\ result' = "none" =>
                 \/ at'.variant = at.variant /\ at'.path = at.path + 1
                 \/ at'.variant = at.variant + 1 /\ at'.path = 1
           /\ op = "create" /\ result' = "none" => at'.path = at.path + 1
<1> USE DEF CallTypeOK
<1>1. Variants(op) \in 1..3 /\ PathsOf(op) \in 1..2 /\ MaxAttempts(op) \in 1..3
  BY DEF Variants, Forms, PathsOf, MaxAttempts
<1>2. op \in Writes => MaxAttempts(op) = 1
  BY DEF MaxAttempts, Writes
<1>3. op = "create" => Variants(op) = 1
  BY DEF Variants, Forms
<1>. HIDE DEF CallTypeOK
<1>4. at \in [variant : 1..Variants(op), path : 1..PathsOf(op), attempt : 1..MaxAttempts(op)]
  BY DEF CallTypeOK
<1>5. TryAgain \/ GiveUpPath(answer) \/ Raise(answer)
  BY DEF AfterFailure
<1>6. CASE GiveUpPath(answer) /\ at.path < PathsOf(op)
  <2>1. at' = [at EXCEPT !.path = at.path + 1, !.attempt = 1] /\ result' = "none"
    BY <1>6 DEF GiveUpPath, GoOn
  <2>2. /\ at.variant \in 1..Variants(op) /\ at.path \in Nat /\ at.path + 1 \in 1..PathsOf(op)
        /\ 1 \in 1..MaxAttempts(op)
    BY <1>1, <1>4, <1>6
  <2>3. at'.variant = at.variant /\ at'.path = at.path + 1
    BY <1>4, <2>1
  <2>4. at' \in [variant : 1..Variants(op), path : 1..PathsOf(op), attempt : 1..MaxAttempts(op)]
    BY <1>4, <2>1, <2>2
  <2>. QED BY <2>1, <2>2, <2>3, <2>4
<1>7. CASE Raise(answer) /\ at.variant < Variants(op)
  <2>1. /\ at' = [variant |-> at.variant + 1, path |-> 1, attempt |-> 1]
        /\ result' = "none"
    BY <1>7 DEF Raise, GoOn, Start
  <2>2. at.variant \in 1..Variants(op)
    BY <1>4
  <2>3. at' \in [variant : 1..Variants(op), path : 1..PathsOf(op), attempt : 1..MaxAttempts(op)]
    BY <1>1, <1>7, <2>1, <2>2
  <2>4. at'.variant = at.variant + 1 /\ at'.path = 1
    BY <2>1
  <2>5. op # "create"
    <3>1. PICK n \in Nat : n = Variants(op)
      BY <1>1
    <3>2. PICK v \in Nat : v = at.variant
      BY <2>2
    <3>3. 1 <= v /\ v < n
      BY <1>7, <2>2, <3>1, <3>2
    <3>4. n # 1
      BY <3>3
    <3>. QED BY <1>3, <3>1, <3>4
  <2>. QED BY <2>1, <2>3, <2>4, <2>5
<1>8. CASE Raise(answer) /\ ~(at.variant < Variants(op))
  BY <1>4, <1>8 DEF Raise, Return, TakenAsAmbiguous
<1>9. CASE ~GiveUpPath(answer) /\ ~Raise(answer)
  <2>1. PICK retryable \in Retryable(answer) :
           /\ ShouldRetry(op, retryable, at.attempt)
           /\ TryAgain
    BY <1>9 DEF AfterFailure
  <2>2. op \notin Writes /\ at.attempt < MaxAttempts(op)
    BY <2>1 DEF ShouldRetry
  <2>. QED BY <1>1, <1>4, <2>1, <2>2 DEF TryAgain, GoOn, Writes
<1>. QED BY <1>6, <1>7, <1>8, <1>9 DEF GiveUpPath

\* One more request is one more entry that was sent to this path.
LEMMA SentByEntryStep ==
    ASSUME CallTypeOK, SentByEntry, result = "none", op \in Writes, op' = op,
           tries' = [tries EXCEPT ![Sending] = @ + 1],
           \/ result' # "none" /\ at' = at
           \/ at'.variant = at.variant /\ at'.path = at.path + 1
           \/ at'.variant = at.variant + 1 /\ at'.path = 1
    PROVE  SentByEntry'
<1>1. at.variant \in 1..Variants(op) /\ at.path \in 1..Paths
  BY DEF CallTypeOK, PathsOf, Writes
<1>2. \A n \in 1..3 : \A p \in 1..Paths : SentTo(n, p) => SentTo(n, p)'
  <2>1. Variants(op) \in 1..3
    BY DEF Variants, Forms
  <2>. QED BY <1>1, <2>1 DEF SentTo
<1>3. \A n \in 1..3 : \A p \in 1..Paths :
         n = at.variant /\ p = at.path => ~SentTo(n, p) /\ SentTo(n, p)'
  <2>1. Variants(op) \in 1..3
    BY DEF Variants, Forms
  <2>. QED BY <1>1, <2>1 DEF SentTo
<1>4. \A r \in Requests : /\ tries[r] \in Nat
                         /\ (r # Sending => tries'[r] = tries[r])
                         /\ (r = Sending => tries'[r] = tries[r] + 1)
  BY DEF CallTypeOK
<1>5. \A f \in AllForms : \A p \in 1..Paths : <<f, p>> \in Requests
  BY DEF Requests
<1>6. {"thb_btc", "btc_thb"} \subseteq AllForms
  BY DEF AllForms
<1>7. \A f \in AllForms : \A p \in 1..Paths : tries[<<f, p>>] \in Nat
  BY DEF CallTypeOK, Requests
<1>8. CASE op = "create"
  <2>1. at.variant = 1 /\ Sending = <<"btc_thb", at.path>>
    <3>1. Forms(op) = <<"btc_thb">>
      BY <1>8 DEF Forms
    <3>. QED BY <1>1, <3>1 DEF Variants, Sending
  <2>2. SUFFICES ASSUME NEW p \in 1..Paths, NEW f \in AllForms
                 PROVE  tries'[<<f, p>>] <= Times(f = "btc_thb" /\ SentTo(1, p)')
    BY <1>8 DEF SentByEntry, Writes
  <2>3. tries[<<f, p>>] <= Times(f = "btc_thb" /\ SentTo(1, p)) /\ tries[<<f, p>>] \in Nat
    <3>2. tries[<<f, p>>] <= Times(f = "btc_thb" /\ SentTo(1, p))
      BY <1>8, Zenon DEF SentByEntry
    <3>3. tries[<<f, p>>] \in Nat
      BY <1>7
    <3>. QED BY <3>2, <3>3, Zenon
  <2>4. CASE f = "btc_thb" /\ p = at.path
    BY <1>1, <1>3, <1>4, <1>5, <2>1, <2>3, <2>4 DEF Times
  <2>5. CASE ~(f = "btc_thb" /\ p = at.path)
    BY <1>2, <1>4, <1>5, <2>1, <2>3, <2>5 DEF Times
  <2>. QED BY <2>4, <2>5
<1>9. CASE op = "cancel"
  <2>1. at.variant \in 1..3 /\ Sending = <<IF at.variant = 1 THEN "thb_btc" ELSE "btc_thb", at.path>>
    <3>1. Forms(op) = <<"thb_btc", "btc_thb", "btc_thb">>
      BY <1>9 DEF Forms
    <3>2. Variants(op) = 3
      BY <3>1 DEF Variants
    <3>3. at.variant \in 1..3
      BY <1>1, <3>2
    <3>4. Forms(op)[at.variant] = IF at.variant = 1 THEN "thb_btc" ELSE "btc_thb"
      BY <3>1, <3>3
    <3>. QED BY <3>3, <3>4 DEF Sending
  <2>2. SUFFICES ASSUME NEW p \in 1..Paths
                 PROVE  /\ tries'[<<"thb_btc", p>>] <= Times(SentTo(1, p)')
                        /\ tries'[<<"btc_thb", p>>] <= Times(SentTo(2, p)') + Times(SentTo(3, p)')
    BY <1>9 DEF SentByEntry, Writes
  <2>3. /\ tries[<<"thb_btc", p>>] <= Times(SentTo(1, p)) /\ tries[<<"thb_btc", p>>] \in Nat
        /\ tries[<<"btc_thb", p>>] <= Times(SentTo(2, p)) + Times(SentTo(3, p))
        /\ tries[<<"btc_thb", p>>] \in Nat
    <3>2. /\ tries[<<"thb_btc", p>>] <= Times(SentTo(1, p))
          /\ tries[<<"btc_thb", p>>] <= Times(SentTo(2, p)) + Times(SentTo(3, p))
      BY <1>9, Zenon DEF SentByEntry
    <3>3. tries[<<"thb_btc", p>>] \in Nat /\ tries[<<"btc_thb", p>>] \in Nat
      BY <1>6, <1>7
    <3>. QED BY <3>2, <3>3, Zenon
  <2>4. CASE p = at.path /\ at.variant = 1
    BY <1>2, <1>3, <1>4, <1>5, <1>6, <2>1, <2>3, <2>4 DEF Times
  <2>5. CASE p = at.path /\ at.variant # 1
    BY <1>2, <1>3, <1>4, <1>5, <1>6, <2>1, <2>3, <2>5 DEF Times
  <2>6. CASE p # at.path
    BY <1>2, <1>4, <1>5, <1>6, <2>1, <2>3, <2>6 DEF Times
  <2>. QED BY <2>4, <2>5, <2>6
<1>. QED BY <1>8, <1>9 DEF Writes

LEMMA CallInvariance == CallSpec => []CallInv
<1>1. CallInit => CallInv
  BY DEF CallInit, CallInv, CallTypeOK, CountedByPath, SentByEntry, Times,
         Requests, AllForms, NoneTried, Ops, Writes, Start, Variants, Forms, PathsOf, MaxAttempts, Results
<1>2. CallInv /\ [CallNext]_call => CallInv'
  <2> SUFFICES ASSUME CallInv, [CallNext]_call PROVE CallInv'
    OBVIOUS
  <2>1. CASE UNCHANGED call
    BY <2>1 DEF call, CallInv, CallTypeOK, CountedByPath, SentByEntry, SentTo, Times
  <2>2. CASE \E o \in Ops : Call(o)
    BY <2>2 DEF Call, CallInv, CallTypeOK, CountedByPath, SentByEntry, Times, Requests, AllForms,
                NoneTried, Start, Ops, Writes, Variants, Forms, PathsOf, MaxAttempts, Results
  <2>3. CASE AnyRequest
    <3>1. PICK answer \in Results \cup Failures : Request(answer)
      BY <2>3 DEF AnyRequest
    <3>2. op' = op /\ result = "none" /\ last' = answer
      BY <3>1 DEF Request
    <3>3. /\ made' \in {made, made + 1} /\ made \in Nat
          /\ op = "create" /\ answer \in Results => made' = made + 1
      <4>1. made \in Nat
        BY DEF CallInv, CallTypeOK
      <4>2. PICK carried \in Carried(answer) :
               made' = IF carried /\ op = "create" THEN made + 1 ELSE made
        BY <3>1 DEF Request
      <4>3. answer \in Results => carried = TRUE
        BY <4>2 DEF Carried
      <4>4. CASE carried /\ op = "create"
        BY <4>1, <4>2, <4>4
      <4>5. CASE ~(carried /\ op = "create")
        BY <4>1, <4>2, <4>3, <4>5
      <4>. QED BY <4>4, <4>5
    <3>4. at.path \in Nat /\ CallTypeOK /\ SentByEntry
      BY DEF CallInv, CallTypeOK, PathsOf
    <3>5. /\ op \in Writes => tries' = [tries EXCEPT ![Sending] = @ + 1]
          /\ tries' \in [Requests -> Nat]
      <4>1. /\ tries \in [Requests -> Nat]
            /\ tries' = IF op \in Writes THEN [tries EXCEPT ![Sending] = @ + 1] ELSE tries
        BY <3>1, <3>4 DEF Request, CallTypeOK
      <4>2. \A r \in Requests : tries[r] \in Nat /\ tries'[r] \in {tries[r], tries[r] + 1}
        BY <4>1
      <4>3. DOMAIN tries' = Requests /\ tries' = [r \in DOMAIN tries' |-> tries'[r]]
        BY <4>1
      <4>4. tries' \in [Requests -> Nat]
        BY <4>2, <4>3
      <4>. QED BY <4>1, <4>4
    <3>6. op \notin Writes => SentByEntry'
      BY <3>2 DEF SentByEntry, Writes
    <3>7. CASE answer \in Results
      <4>1. at' = at /\ result' = answer
        BY <3>1, <3>7 DEF Request, Return
      <4>2. CallTypeOK'
        BY <3>2, <3>3, <3>4, <3>7, <3>5, <4>1 DEF CallTypeOK
      <4>3. CountedByPath'
        BY <3>2, <3>3, <3>4, <3>7, <4>1 DEF CallInv, CountedByPath, Results
      <4>4. result' # "none"
        BY <3>7, <4>1 DEF Results
      <4>. QED BY <3>2, <3>4, <3>5, <3>6, <4>1, <4>2, <4>3, <4>4, SentByEntryStep DEF CallInv
    <3>8. CASE answer \notin Results
      <4>1. AfterFailure(answer) /\ answer \in Failures
        BY <3>1, <3>8 DEF Request
      <4>2. /\ at' \in [variant : 1..Variants(op), path : 1..PathsOf(op), attempt : 1..MaxAttempts(op)]
            /\ result' \in {"none", "ambiguous", "error"}
            /\ result' # "none" => at' = at
            /\ op = "create" /\ result' = "none" => at'.path = at.path + 1
            /\ op \in Writes /\ result' = "none" =>
                 \/ at'.variant = at.variant /\ at'.path = at.path + 1
                 \/ at'.variant = at.variant + 1 /\ at'.path = 1
        BY <3>2, <3>4, <4>1, AfterFailureShape
      <4>3. CallTypeOK'
        BY <3>1, <3>2, <3>3, <3>4, <3>5, <4>2 DEF CallTypeOK
      <4>4. CountedByPath'
        BY <3>2, <3>3, <3>4, <4>2, <4>3 DEF CallInv, CountedByPath, Results
      <4>. QED BY <3>2, <3>4, <3>5, <3>6, <4>2, <4>3, <4>4, SentByEntryStep DEF CallInv
    <3>. QED BY <3>7, <3>8
  <2>. QED BY <2>1, <2>2, <2>3 DEF CallNext
<1>. QED BY <1>1, <1>2, PTL DEF CallSpec

\* CreateStaysInResults for every sequence of calls and answers: the results
\* LiveOrders!Create chooses from are all that place_bid and place_ask have.
THEOREM CreateResultsComplete == CallSpec => []CreateStaysInResults
<1>1. CallInv => CreateStaysInResults
  BY DEF CallInv, CallTypeOK, CountedByPath, CreateStaysInResults, CreateResults, Results, PathsOf
<1>. QED BY <1>1, CallInvariance, PTL

\* WritesNotRepeated for every sequence of calls and answers: whatever fails
\* and however it is classified, a create is sent once to a path, and a cancel
\* again only under the spelling that the list repeats.
THEOREM WritesSentOnce == CallSpec => []WritesNotRepeated
<1>1. CallInv => WritesNotRepeated
  <2>1. \A b \in BOOLEAN : Times(b) \in 0..1
    BY DEF Times
  <2>2. \A n, p : SentTo(n, p) \in BOOLEAN
    BY DEF SentTo
  <2>3. CallInv => tries \in [Requests -> Nat] /\ SentByEntry
    BY DEF CallInv, CallTypeOK
  <2>4. \A f \in AllForms : \A p \in 1..Paths : <<f, p>> \in Requests
    BY DEF Requests
  <2>5. {"thb_btc", "btc_thb"} \subseteq AllForms
    BY DEF AllForms
  <2>. QED BY <2>1, <2>2, <2>3, <2>4, <2>5 DEF SentByEntry, WritesNotRepeated, Times
<1>. QED BY <1>1, CallInvariance, PTL
=============================================================================

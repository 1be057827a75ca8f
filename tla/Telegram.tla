------------------------------ MODULE Telegram ------------------------------
(***************************************************************************)
(* The engine's two ways through Telegram: commands that are polled from   *)
(* getUpdates, logged, run and answered, some of them only after a         *)
(* confirmation (main.py, process_telegram_commands), and notices that     *)
(* wait in the telegram_outbox table until an iteration of the loop sends  *)
(* them (services/telegram_service.py).                                    *)
(*                                                                         *)
(* An iteration goes wait -> flush -> poll -> log -> run -> finish -> ...  *)
(* -> wait.  The market pass in front of the flush is part of the wait: of *)
(* it only the notices it queues, and that it may fail, matter here.  What *)
(* a confirmed command does is EngineControl's and LiveOrders' subject.    *)
(* Telegram keeps an update for a day, longer than any behavior here.  A   *)
(* code is the update id of the command that asked for the confirmation.   *)
(***************************************************************************)
EXTENDS Naturals, Sequences, FiniteSets

CONSTANTS
    Chats,
    Authorized,     \* TELEGRAM_ALLOWED_CHAT_IDS
    NotifyChats,    \* TELEGRAM_CHAT_IDS
    PollLimit,      \* getUpdates' limit, 10
    FlushLimit,     \* max_messages of a flush, 10
    TTL,            \* telegram_confirm_ttl_seconds
    Cooldown,       \* _notification_cooldown_seconds of each notice
    None,
    MaxUpdates,     \* bound: messages sent to the bot
    MaxNotices,     \* bound: rows of the outbox
    MaxTime,        \* bound: units of time
    MaxSlips,       \* bound: crashes of the engine, and errors that end an iteration
    Budgets         \* bound: how many messages of whom, and rows, in one behavior

VARIABLES
    sent,       \* sent[u]: the update with id u, at Telegram
    log,        \* telegram_command_log: log[u], or None
    pending,    \* pending_telegram_confirms: pending[chat], or None
    clock,
    pc,         \* where the iteration is, "off" without an engine
    batch,      \* the commands of the poll that are not finished
    reply,      \* the outcome of the command in hand
    outbox,     \* telegram_outbox
    flush,      \* the rows of the flush that are not settled
    ready,      \* telegram_enabled is set, with a token and a chat to notify
    runs,       \* what was run by which confirmation, in this order
    slips,      \* how often an iteration was cut off
    budget      \* the member of Budgets for this behavior

vars ==
    <<sent, log, pending, clock, pc, batch, reply, outbox, flush, ready, runs, slips, budget>>

commands == <<log, pending, batch, reply, runs>>
notices == <<outbox, flush, ready>>

Updates == 1..MaxUpdates

\* The texts a chat sends: no command, a command that reads, one that wants a
\* confirmation, and the confirmation.
Texts == {"say", "read", "ask", "confirm"}

\* The text of a message decides on all else but the code of a confirmation.
Messages == [chat : Chats, text : Texts, code : 0..MaxUpdates]

Outcomes == {"processed", "rejected", "failed", "pending_confirmation"}

\* said: the reply has the body of the notice of a reload.
Entries == [status : Outcomes \cup {"received", "expired"}, at : Nat, said : BOOLEAN]

Notices == {"reload", "error"}

Rows == [notice : Notices, at : Nat, status : {"queued", "sent", "failed"},
         got : SUBSET NotifyChats]

ASSUME ConstantsAssumption ==
    /\ MaxUpdates \in Nat /\ MaxNotices \in Nat
    /\ PollLimit \in Nat /\ TTL \in Nat
    /\ None \notin Entries \cup [ask : Updates, until : Nat]
    /\ Budgets \subseteq [updates : 0..MaxUpdates, chats : SUBSET Chats,
                          texts : SUBSET Texts, notices : 0..MaxNotices]

\* Rows and updates are taken in the order of their ids.
First(ids) == CHOOSE i \in ids : \A j \in ids : i <= j

Stages == {"off", "wait", "flush", "mark", "poll", "log", "run", "finish"}

Init ==
    /\ sent = <<>>
    /\ log = [u \in Updates |-> None]
    /\ pending = [c \in Chats |-> None]
    /\ clock = 0
    /\ pc = "wait"
    /\ batch = {}
    /\ reply = None
    /\ outbox = <<>>
    /\ flush = {}
    /\ ready \in BOOLEAN
    /\ runs = <<>>
    /\ slips = 0
    /\ budget \in Budgets

\* Time passes where it can make a difference: in the wait, and between the row
\* of a command and its run.
Tick ==
    /\ clock < MaxTime
    /\ pc \in {"wait", "run"}
    /\ clock' = clock + 1
    /\ UNCHANGED <<sent, commands, notices, pc, slips, budget>>

Asks == {u \in 1..Len(sent) : sent[u].text = "ask"}

\* A chat writes to the bot; it knows the codes of the commands before, or
\* types a wrong one.  Only a poll sees it, so that it may as well be written
\* just before one.
Write ==
    /\ pc = "poll"
    /\ Len(sent) < budget.updates
    /\ \E c \in budget.chats, t \in budget.texts, k \in {0} \cup Asks :
        /\ t # "confirm" => k = 0
        /\ sent' = Append(sent, [chat |-> c, text |-> t, code |-> k])
    /\ UNCHANGED <<commands, notices, clock, pc, slips, budget>>

\* What is done ends in a status; said as in Entries.
Ends(status, said) == reply' = [status |-> status, said |-> said]

-----------------------------------------------------------------------------
(* The notices.                                                            *)

\* _recent_duplicate_notification_exists: whatever became of the row.
RecentRow(n) ==
    \E i \in 1..Len(outbox) :
        outbox[i].notice = n /\ clock - outbox[i].at <= Cooldown[n]

\* _recent_duplicate_direct_command_response_exists.
RecentReply(n) ==
    /\ n = "reload"
    /\ \E u \in Updates :
        log[u] # None /\ log[u].said /\ clock - log[u].at <= Cooldown[n]

\* queue_telegram_notification; without telegram_enabled it queues nothing,
\* without a token or a chat it does.
Queue(n) ==
    \/ outbox' = IF RecentRow(n) \/ RecentReply(n) \/ Len(outbox) = budget.notices
                 THEN outbox
                 ELSE Append(outbox, [notice |-> n, at |-> clock,
                                      status |-> "queued", got |-> {}])
    \/ ~ready /\ outbox' = outbox

\* A pass, or a hotkey in the wait, has something to tell; a pass that fails
\* tells so and leaves the rest of its iteration out.
Notify ==
    /\ pc = "wait"
    /\ \E n \in Notices : Queue(n)
    /\ UNCHANGED <<sent, commands, clock, pc, flush, ready, slips, budget>>

\* A fault for the checks: a message that failed is tried again.
Unsent == {i \in 1..Len(outbox) : outbox[i].status # "sent"}

Queued == {i \in 1..Len(outbox) : outbox[i].status = "queued"}

\* The configuration that is in force, or the environment after a restart,
\* says otherwise.  Only a flush and the wait before it look at it.
Switch ==
    /\ pc = "wait"
    /\ budget.notices > 0
    /\ ready' = ~ready
    /\ UNCHANGED <<sent, commands, clock, pc, outbox, flush, slips, budget>>

\* flush_telegram_outbox fetches the oldest rows that are queued.  When it is
\* not enabled or not ready it leaves them as they are.
BeginFlush ==
    /\ pc = "wait"
    /\ flush' = IF ready THEN {i \in Queued : Cardinality(Queued \cap 1..i) <= FlushLimit}
                ELSE {}
    /\ pc' = IF flush' = {} THEN "poll" ELSE "flush"
    /\ UNCHANGED <<sent, commands, clock, outbox, ready, slips, budget>>

\* _send_telegram_message reaches every chat, chunk by chunk.
Deliver ==
    /\ pc = "flush"
    /\ outbox' = [outbox EXCEPT ![First(flush)].got = NotifyChats]
    /\ Ends("sent", FALSE)
    /\ pc' = "mark"
    /\ UNCHANGED <<sent, log, pending, batch, runs, clock, flush, ready, slips, budget>>

\* It raises when the attempts for a chat are used up: some chats have the
\* message, the one that failed perhaps too.
DeliverSome ==
    /\ pc = "flush"
    /\ \E got \in SUBSET NotifyChats :
        outbox' = [outbox EXCEPT ![First(flush)].got = @ \cup got]
    /\ Ends("failed", FALSE)
    /\ pc' = "mark"
    /\ UNCHANGED <<sent, log, pending, batch, runs, clock, flush, ready, slips, budget>>

\* A fault for the checks: the rows after one that failed are left out, and
\* with them the failed one's status.
MarkSentOnly ==
    /\ pc = "mark"
    /\ outbox' = [outbox EXCEPT ![First(flush)].status =
                    IF reply.status = "sent" THEN "sent" ELSE "queued"]
    /\ reply' = None
    /\ flush' = IF reply.status = "sent" THEN flush \ {First(flush)} ELSE {}
    /\ pc' = IF flush' = {} THEN "poll" ELSE "flush"
    /\ UNCHANGED <<sent, log, pending, batch, runs, clock, ready, slips, budget>>

\* update_telegram_outbox_status.
Mark ==
    /\ pc = "mark"
    /\ outbox' = [outbox EXCEPT ![First(flush)].status = reply.status]
    /\ reply' = None
    /\ flush' = flush \ {First(flush)}
    /\ pc' = IF flush' = {} THEN "poll" ELSE "flush"
    /\ UNCHANGED <<sent, log, pending, batch, runs, clock, ready, slips, budget>>

-----------------------------------------------------------------------------
(* The commands.                                                           *)

\* expire_stale_telegram_command_logs.
ExpiredLog ==
    [u \in Updates |->
        IF log[u] # None /\ log[u].status = "pending_confirmation" /\ log[u].at + TTL <= clock
        THEN [log[u] EXCEPT !.status = "expired"] ELSE log[u]]

\* The rest of cleanup_pending_telegram_confirms.
Unexpired ==
    [c \in Chats |->
        IF pending[c] # None /\ pending[c].until <= clock THEN None ELSE pending[c]]

Logged == {u \in Updates : log[u] # None}

\* The offset of the poll: above the largest update id in the log.
Offset == IF Logged = {} THEN 1 ELSE 1 + CHOOSE u \in Logged : \A v \in Logged : v <= u

\* A fault for the checks: the newest updates are asked for.
FetchedNewest ==
    {u \in 1..Len(sent) : Offset <= u /\ Len(sent) < u + PollLimit /\ sent[u].text # "say"}

\* A fault for the checks: the updates are gone over up to the first that is
\* no command.
FetchedToPlain ==
    {u \in 1..Len(sent) :
        Offset <= u /\ u < Offset + PollLimit /\ \A v \in Offset..u : sent[v].text # "say"}

\* What getUpdates gives, the oldest updates from the offset on, without the
\* ones whose text is no command.
Fetched ==
    {u \in 1..Len(sent) : Offset <= u /\ u < Offset + PollLimit /\ sent[u].text # "say"}

\* process_telegram_commands, up to its loop.
Poll ==
    /\ pc = "poll"
    /\ log' = ExpiredLog
    /\ pending' = Unexpired
    /\ batch' = Fetched
    /\ pc' = IF batch' = {} THEN "wait" ELSE "log"
    /\ UNCHANGED <<sent, notices, reply, runs, clock, slips, budget>>

\* fetch_telegram_command_updates returns errors, or nothing because the
\* control by Telegram is switched off.
PollFails ==
    /\ pc = "poll"
    /\ log' = ExpiredLog
    /\ pending' = Unexpired
    /\ pc' = "wait"
    /\ UNCHANGED <<sent, notices, batch, reply, runs, clock, slips, budget>>

\* The command in hand is done with.
NextCommand ==
    /\ batch' = batch \ {First(batch)}
    /\ pc' = IF batch' = {} THEN "wait" ELSE "log"

Received == [status |-> "received", at |-> clock, said |-> FALSE]

\* A fault for the checks: the whole poll is logged at once.
LogAll ==
    /\ pc = "log"
    /\ log' = [u \in Updates |-> IF u \in batch /\ log[u] = None THEN Received ELSE log[u]]
    /\ pc' = "run"
    /\ UNCHANGED <<sent, notices, pending, batch, reply, runs, clock, slips, budget>>

\* insert_telegram_command_log; an update that has its row is skipped.
Log ==
    /\ pc = "log"
    /\ LET u == First(batch) IN
        IF log[u] = None
        THEN log' = [log EXCEPT ![u] = Received] /\ pc' = "run" /\ UNCHANGED batch
        ELSE NextCommand /\ UNCHANGED log
    /\ UNCHANGED <<sent, notices, pending, reply, runs, clock, slips, budget>>

Running(u, text) ==
    /\ pc = "run"
    /\ u = First(batch)
    /\ sent[u].text = text
    /\ pc' = "finish"

\* A command that reads is answered to every chat.
RunRead(u) ==
    /\ Running(u, "read")
    /\ Ends("processed", FALSE)
    /\ UNCHANGED <<sent, notices, log, pending, batch, runs, clock, slips, budget>>

\* The chat may not, the command is malformed or not possible now, or running
\* it raises: nothing was done.
RunRejected(u) ==
    /\ \E t \in {"read", "ask", "confirm"} : Running(u, t)
    /\ \/ sent[u].text = "read" /\ Ends("failed", FALSE)
       \/ sent[u].text = "ask" /\ \E s \in {"rejected", "failed"} : Ends(s, FALSE)
       \/ /\ sent[u].text = "confirm"
          /\ sent[u].chat \notin Authorized
          /\ Ends("rejected", FALSE)
    /\ UNCHANGED <<sent, notices, log, pending, batch, runs, clock, slips, budget>>

\* create_telegram_confirmation: the latest command of a chat is the one that
\* can be confirmed.
RunAsk(u) ==
    /\ Running(u, "ask")
    /\ sent[u].chat \in Authorized
    /\ log' = ExpiredLog
    /\ pending' = [Unexpired EXCEPT ![sent[u].chat] = [ask |-> u, until |-> clock + TTL]]
    /\ Ends("pending_confirmation", FALSE)
    /\ UNCHANGED <<sent, notices, batch, runs, clock, slips, budget>>

\* A fault for the checks: the code is looked for among all chats.
FoundAnywhere(u) ==
    \E c \in Chats : Unexpired[c] # None /\ Unexpired[c].ask = sent[u].code

\* What the chat of a confirmation can confirm: its own command, in time.
Found(u) ==
    LET p == Unexpired[sent[u].chat] IN p # None /\ p.ask = sent[u].code

\* execute_telegram_confirmation without a match.
RunUnmatched(u) ==
    /\ Running(u, "confirm")
    /\ sent[u].chat \in Authorized
    /\ ~Found(u)
    /\ log' = ExpiredLog
    /\ pending' = Unexpired
    /\ Ends("rejected", FALSE)
    /\ UNCHANGED <<sent, notices, batch, runs, clock, slips, budget>>

\* A fault for the checks: the command is forgotten once it has succeeded.
RunConfirmKept(u) ==
    /\ Running(u, "confirm")
    /\ sent[u].chat \in Authorized
    /\ Found(u)
    /\ log' = ExpiredLog
    /\ runs' = Append(runs, [ask |-> sent[u].code, confirm |-> u])
    /\ \E s \in {"processed", "rejected", "failed"}, said \in BOOLEAN :
        /\ said => s = "processed"
        /\ Ends(s, said)
        /\ pending' = IF s = "processed" THEN [Unexpired EXCEPT ![sent[u].chat] = None]
                      ELSE Unexpired
    /\ UNCHANGED <<sent, notices, batch, clock, slips, budget>>

\* The command is forgotten and then run, whatever comes of it.
RunConfirm(u) ==
    /\ Running(u, "confirm")
    /\ sent[u].chat \in Authorized
    /\ Found(u)
    /\ log' = ExpiredLog
    /\ pending' = [Unexpired EXCEPT ![sent[u].chat] = None]
    /\ runs' = Append(runs, [ask |-> sent[u].code, confirm |-> u])
    /\ \E s \in {"processed", "rejected", "failed"}, said \in BOOLEAN :
        (said => s = "processed") /\ Ends(s, said)
    /\ UNCHANGED <<sent, notices, batch, clock, slips, budget>>

Run == \E u \in Updates :
    RunRead(u) \/ RunRejected(u) \/ RunAsk(u) \/ RunUnmatched(u) \/ RunConfirm(u)

\* The answer is sent, or not; either way the row gets the outcome.
Finish ==
    /\ pc = "finish"
    /\ log' = [log EXCEPT ![First(batch)].status = reply.status,
                          ![First(batch)].said = reply.said]
    /\ reply' = None
    /\ NextCommand
    /\ UNCHANGED <<sent, notices, pending, runs, clock, slips, budget>>

-----------------------------------------------------------------------------

Slip(to) ==
    /\ slips < MaxSlips
    /\ slips' = slips + 1
    /\ pc' = to
    /\ batch' = {}
    /\ reply' = None
    /\ flush' = {}
    /\ UNCHANGED <<sent, log, clock, ready, runs, budget>>

\* A write to the database fails; the loop goes on with its next iteration.
IterationFails ==
    /\ pc \notin {"off", "wait"}
    /\ Slip("wait")
    /\ Queue("error")
    /\ UNCHANGED pending

\* The process is killed; the commands that wait for a confirmation are lost.
Crash ==
    /\ pc # "off"
    /\ Slip("off")
    /\ pending' = [c \in Chats |-> None]
    /\ UNCHANGED outbox

Restart ==
    /\ pc = "off"
    /\ pc' = "wait"
    /\ UNCHANGED <<sent, commands, notices, clock, slips, budget>>

Loop ==
    \/ BeginFlush \/ Deliver \/ DeliverSome \/ Mark \/ PollFails
    \/ Log \/ Run \/ Finish \/ Restart

Next == Write \/ Tick \/ Notify \/ Switch \/ Poll \/ Loop \/ IterationFails \/ Crash

Spec == Init /\ [][Next]_vars

\* The loop goes on (passes do not fail for ever), paused or not, and of polls
\* that are tried again and again one is answered in the end: the control by
\* Telegram is not switched off for good.
FairSpec == Spec /\ WF_vars(Loop) /\ SF_vars(Poll)

-----------------------------------------------------------------------------

TypeOK ==
    /\ sent \in Seq(Messages) /\ Len(sent) <= MaxUpdates
    /\ log \in [Updates -> Entries \cup {None}]
    /\ pending \in [Chats -> [ask : Updates, until : Nat] \cup {None}]
    /\ clock \in Nat /\ slips \in Nat /\ budget \in Budgets
    /\ pc \in Stages
    /\ batch \subseteq Updates /\ flush \subseteq 1..MaxNotices
    /\ reply \in [status : Outcomes \cup {"sent"}, said : BOOLEAN] \cup {None}
    /\ outbox \in Seq(Rows)
    /\ runs \in Seq([ask : Updates, confirm : Updates])
    /\ ready \in BOOLEAN

\* No command is run twice and no confirmation runs two, through failed runs,
\* crashes and repeated confirmations.
RunOnce ==
    \A i, j \in 1..Len(runs) :
        (runs[i].ask = runs[j].ask \/ runs[i].confirm = runs[j].confirm) => i = j

\* What is run was asked for and confirmed by one authorized chat, and that
\* chat had asked for nothing since.
RunAsAsked ==
    \A i \in 1..Len(runs) :
        LET a == runs[i].ask  c == runs[i].confirm IN
        /\ a < c /\ sent[a].chat = sent[c].chat /\ sent[a].chat \in Authorized
        /\ \A u \in a+1..c-1 :
            sent[u].chat = sent[a].chat /\ log[u] # None =>
                log[u].status \notin {"pending_confirmation", "expired"}

\* The offset passes over no command: behind a command in the log, every one
\* before it is in the log, too.
NoneSkipped ==
    \A v \in Logged : \A u \in 1..v : sent[u].text # "say" => log[u] # None

\* A command that was logged and got no outcome is the one in hand, or the
\* one in hand when an iteration was cut off; those behind it are fetched again.
OneLostPerSlip ==
    Cardinality({u \in Logged :
        log[u].status = "received" /\ ~(pc \in {"run", "finish"} /\ u = First(batch))}) <= slips

\* After a row is settled nobody gets it again, and it is not settled anew.
SettledForGood ==
    [][\A i \in 1..Len(outbox) : outbox[i].status # "queued" => outbox'[i] = outbox[i]]_vars

\* A command with less than a poll's worth of plain messages before it.
InReach(u) ==
    /\ u <= Len(sent) /\ sent[u].text # "say"
    /\ Cardinality({v \in 1..u : sent[v].text = "say"}) < PollLimit

\* Such a command is logged in the end.  One behind more of them is not: a poll
\* gets the same plain messages again and again, for the offset only moves over
\* what is logged.
ReachedLogged == \A u \in Updates : InReach(u) ~> log[u] # None

\* Every notice that is queued is sent or given up, unless Telegram is switched
\* off: each time it is off a notice may go on waiting, and while it stays on
\* none does, through failures, crashes and notices in front of it.
NoticesSettle ==
    \A i \in 1..MaxNotices :
        (i <= Len(outbox) /\ outbox[i].status = "queued")
            ~> (~ready \/ (i <= Len(outbox) /\ outbox[i].status # "queued"))
=============================================================================

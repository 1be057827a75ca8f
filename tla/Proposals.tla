----------------------------- MODULE Proposals -----------------------------
(***************************************************************************)
(* The Strategy Inbox and its ledger: a recompute proposes a new rule or   *)
(* the removal of a symbol's rule, the proposals wait in the table         *)
(* strategy_proposals, and the operator applies or dismisses them; what    *)
(* became of each is noted in strategy_proposal_decisions (services/       *)
(* strategy_proposal_ledger.py, ui/streamlit/strategy_inbox.py).  Several  *)
(* browser sessions do so at once.  A step is a statement, or a            *)
(* transaction from its first write on: what a call reads before that may  *)
(* be out of date when it writes.                                          *)
(*                                                                         *)
(* Time goes in units of DEFAULT_SNAPSHOT_BUCKET_SECONDS, and a rule is    *)
(* its own hash.  How sure a proposal is decides which of the forms shows  *)
(* it and whether its box is ticked: the operator's choice stands for both.*)
(***************************************************************************)
EXTENDS Naturals, Sequences, SequencesExt

CONSTANTS
    Sessions,
    Symbols,
    Rules,
    Prune,         \* what a prune proposal proposes
    None,
    Lifetime,      \* DEFAULT_PROPOSAL_TTL_SECONDS
    Dismissal,     \* DEFAULT_DISMISSAL_SECONDS
    MaxNow,        \* bound: time
    Scopes         \* bound: what may happen in one behavior, and how often

ASSUME WhatAssumption == Prune \notin Rules /\ None \notin Rules \cup {Prune}
ASSUME FinitelyMany == IsFiniteSet(Symbols) /\ IsFiniteSet(Rules)
ASSUME TimesAssumption == Lifetime \in Nat \ {0} /\ Dismissal \in Nat /\ MaxNow \in Nat

\* What may be proposed, by whom, and how many recomputes, clicks and calls that
\* fail or are cut off there are.
Scope ==
    [time : 0..MaxNow, what : SUBSET (Rules \cup {Prune}), sessions : SUBSET Sessions, symbols : SUBSET Symbols,
     recomputes : Nat, clicks : Nat, cuts : Nat]

ASSUME ScopesAssumption == Scopes \subseteq Scope

VARIABLES
    now,
    config,   \* the symbols that have a rule in config["rules"]
    ledger,   \* strategy_proposals: the row of an id, or None
    log,      \* strategy_proposal_decisions, by symbol
    session,  \* session[p]: the rerun of p's page
    left      \* what is left of the member of Scopes for this behavior

vars == <<now, config, ledger, log, session, left>>

What == Rules \cup {Prune}

\* stable_proposal_id
Ids == [symbol : Symbols, what : What, bucket : 0..MaxNow]

Terminal == {"applied", "expired", "superseded"}
Statuses == Terminal \cup {"pending", "dismissed"}
Row == [status : Statuses, until : 0..MaxNow + Dismissal]

ASSUME NoRowAssumption == None \notin Row

Verbs == {"applied", "dismissed"}
Decision ==
    [id : Ids, what : Terminal \cup {"created", "dismissed"}, by : Sessions, at : 0..MaxNow]

\* ids: what the rerun has read; todo: the ids it has yet to handle; at: the
\* time its call took for now.
Idle == [pc |-> "idle", config |-> {}, todo |-> {}, ids |-> {},
         verb |-> "applied", at |-> 0]

Session ==
    [pc : {"idle", "opened", "check", "read", "insert", "sweep", "list", "choose", "save",
           "mark", "write", "expire"},
     config : SUBSET Symbols, todo : SUBSET Ids, ids : SUBSET Ids, verb : Verbs, at : 0..MaxNow]

IsKind(i, j) == (i.what = Prune) <=> (j.what = Prune)

\* The rows of the ledger in a status.
In(status) == {i \in Ids : ledger[i] # None /\ ledger[i].status = status}

\* The ids that have run out; a prune proposal does not.
Expired(i, t) == i.what # Prune /\ i.bucket + Lifetime <= t

Init ==
    /\ now = 0
    /\ config = Symbols
    /\ ledger = [i \in Ids |-> None]
    /\ log = [s \in Symbols |-> <<>>]
    /\ session = [p \in Sessions |-> Idle]
    /\ left \in Scopes

Tick ==
    /\ now < left.time
    /\ now' = now + 1
    /\ UNCHANGED <<config, ledger, log, session, left>>

\* The page is rerun: it loads the configuration.
Open(p) ==
    /\ p \in left.sessions
    /\ session[p].pc = "idle"
    /\ session' = [session EXCEPT ![p] = [Idle EXCEPT !.pc = "opened", !.config = config]]
    /\ UNCHANGED <<now, config, ledger, log, left>>

\* The notes of one kind about ids of a symbol.
Notes(p, s, ids, what, t) ==
    LET of == SetToSeq({i \in ids : i.symbol = s}) IN
    [n \in 1..Len(of) |-> [id |-> of[n], what |-> what, by |-> p, at |-> t]]

-----------------------------------------------------------------------------
(* recompute_proposals and upsert_pending.                                 *)

\* Each symbol that has a rule gets a prune, a rule update or nothing: no
\* candles, or the replay failed.
Recompute(p) ==
    /\ session[p].pc = "opened"
    /\ now + Lifetime <= left.time
    /\ left.recomputes > 0
    /\ left' = [left EXCEPT !.recomputes = @ - 1]
    /\ \E f \in [session[p].config \cap left.symbols -> left.what \cup {None}] :
        LET todo == {i \in Ids : i.symbol \in DOMAIN f /\ i.what = f[i.symbol] /\ i.bucket = now} IN
        session' = [session EXCEPT ![p] =
            IF todo = {} THEN Idle ELSE [Idle EXCEPT !.pc = "check", !.todo = todo, !.at = now]]
    /\ UNCHANGED <<now, config, ledger, log>>

\* A fault for the checks: the comparison with dismissed_until is turned round.
SuppressedWhenOver(i, t) ==
    \E j \in In("dismissed") : j.symbol = i.symbol /\ j.what = i.what /\ ledger[j].until < t

\* _is_suppressed
Suppressed(i, t) ==
    \E j \in In("dismissed") : j.symbol = i.symbol /\ j.what = i.what /\ ledger[j].until > t

\* A fault for the checks: the rows with the same rule are taken.
ConflictsWithSame(i) ==
    {j \in In("pending") : j.symbol = i.symbol /\ IsKind(i, j) /\ j.what = i.what}

\* What _supersede_conflicting reads.
Conflicts(i) ==
    {j \in In("pending") : j.symbol = i.symbol /\ IsKind(i, j) /\ j.what # i.what}

\* The proposals are gone through until one is not suppressed: nothing has been
\* written, and each read sees the ledger as it then is.
Check(p, i) ==
    LET k == session[p] IN
    /\ k.pc = "check"
    /\ i \in k.todo
    /\ IF ~Suppressed(i, k.at)
       THEN session' = [session EXCEPT ![p].pc = "read", ![p].ids = {i}]
       ELSE session' = [session EXCEPT ![p] =
                IF k.todo = {i} THEN Idle ELSE [k EXCEPT !.todo = @ \ {i}]]
    /\ UNCHANGED <<now, config, ledger, log, left>>

ReadConflicts(p) ==
    /\ session[p].pc = "read"
    /\ session' = [session EXCEPT ![p].pc = "insert", ![p].ids = @ \cup UNION {Conflicts(i) : i \in @}]
    /\ UNCHANGED <<now, config, ledger, log, left>>

\* The rows that were read, and are still pending, give way, and the new row is
\* inserted unless its id is there, whatever became of that one.  That began the
\* transaction, in which the other proposals follow.  The rows that were read
\* are noted as superseded even if they are not.
Insert(p) ==
    LET k == session[p]
        old == k.ids \ k.todo
        rest == {i \in k.todo \ k.ids : ~Suppressed(i, k.at)}
        come == {i \in (k.todo \cap k.ids) \cup rest : ledger[i] = None}
        gone == old \cup UNION {Conflicts(i) : i \in rest}
    IN
    /\ k.pc = "insert"
    /\ ledger' = [i \in Ids |->
        IF i \in come THEN [status |-> "pending", until |-> 0]
        ELSE IF i \in gone \cap In("pending") THEN [ledger[i] EXCEPT !.status = "superseded"]
        ELSE ledger[i]]
    /\ log' = [s \in Symbols |->
        log[s] \o Notes(p, s, gone, "superseded", k.at) \o Notes(p, s, come, "created", k.at)]
    /\ session' = [session EXCEPT ![p] = Idle]
    /\ UNCHANGED <<now, config, left>>

-----------------------------------------------------------------------------
(* sweep_expired, list_active, and what the operator does with the list.   *)

\* A fault for the checks: the time must have run out just now.
DueJustNow(t) == {i \in In("pending") : Expired(i, t) /\ ~Expired(i, t - 1)}

Due(t) == {i \in In("pending") : Expired(i, t)}

\* The ids are read, and written in a transaction of its own if there are any.
SweepRead(p) ==
    /\ session[p].pc = "opened"
    /\ session' = [session EXCEPT ![p] =
        IF Due(now) = {} THEN [@ EXCEPT !.pc = "list"]
        ELSE [@ EXCEPT !.pc = "sweep", !.ids = Due(now), !.at = now]]
    /\ UNCHANGED <<now, config, ledger, log, left>>

\* A row that is not pending any more stays, but is noted as expired, too.
SweepWrite(p) ==
    LET k == session[p] IN
    /\ k.pc = "sweep"
    /\ ledger' = [i \in Ids |->
        IF i \in k.ids \cap In("pending") THEN [ledger[i] EXCEPT !.status = "expired"] ELSE ledger[i]]
    /\ log' = [s \in Symbols |-> log[s] \o Notes(p, s, k.ids, "expired", k.at)]
    /\ session' = [session EXCEPT ![p] = [@ EXCEPT !.pc = "list", !.ids = {}, !.at = 0]]
    /\ UNCHANGED <<now, config, left>>

\* A fault for the checks: dismissed rows are listed, too.
ListOpen(p) ==
    /\ session[p].pc = "list"
    /\ session' = [session EXCEPT ![p].pc = "choose", ![p].ids = In("pending") \cup In("dismissed")]
    /\ UNCHANGED <<now, config, ledger, log, left>>

\* The rows of the two kinds are listed one after the other, each for forms of its own.
List(p) ==
    /\ session[p].pc = "list"
    /\ session' = [session EXCEPT ![p].pc = "choose", ![p].ids = In("pending")]
    /\ UNCHANGED <<now, config, ledger, log, left>>

\* A form takes one proposal of a symbol, the oldest of its tier, and one kind.
\* A rerun that a click on nothing, or none at all, has caused ends here.
Choose(p) ==
    /\ session[p].pc = "choose"
    /\ \/ session' = [session EXCEPT ![p] = Idle] /\ UNCHANGED left
       \/ /\ left.clicks > 0
          /\ left' = [left EXCEPT !.clicks = @ - 1]
          /\ \E todo \in (SUBSET session[p].ids) \ {{}}, verb \in Verbs :
                /\ \A i, j \in todo : IsKind(i, j) /\ (i.symbol = j.symbol => i = j)
                /\ session' = [session EXCEPT ![p] =
                    IF verb = "applied" THEN [@ EXCEPT !.pc = "save", !.todo = todo, !.ids = {}]
                    ELSE [Idle EXCEPT !.pc = "mark", !.todo = todo, !.verb = verb]]
    /\ UNCHANGED <<now, config, ledger, log>>

\* apply_rule_update_action and apply_prune_action save the configuration that
\* the rerun began with, changed.  If it is refused they go on just the same.
Save(p) ==
    LET k == session[p] IN
    /\ k.pc = "save"
    /\ \/ UNCHANGED config
       \/ config' = (k.config \cup {i.symbol : i \in k.todo})
                      \ {i.symbol : i \in {j \in k.todo : j.what = Prune}}
    /\ session' = [session EXCEPT ![p] = [Idle EXCEPT !.pc = "mark", !.todo = k.todo]]
    /\ UNCHANGED <<now, ledger, log, left>>

\* mark_applied and mark_dismissed read the row; a status they do not accept is an
\* error, which leaves the others as they are.
MarkRead(p, i) ==
    LET k == session[p] IN
    /\ k.pc = "mark"
    /\ i \in k.todo
    /\ session' = [session EXCEPT ![p] =
        IF ledger[i].status \in Terminal \/ (k.verb = "applied" /\ ledger[i].status = "dismissed")
        THEN Idle
        ELSE [k EXCEPT !.ids = {i}, !.at = now,
                       !.pc = IF k.verb = "applied" /\ Expired(i, now) THEN "expire" ELSE "write"]]
    /\ UNCHANGED <<now, config, ledger, log, left>>

\* A fault for the checks: the button's name is written for the status.
MarkWriteButton(p, i) ==
    LET k == session[p] IN
    /\ k.pc = "write"
    /\ i \in k.ids
    /\ ledger' = [ledger EXCEPT ![i].status = IF k.verb = "dismissed" THEN "dismiss" ELSE "apply"]
    /\ log' = [log EXCEPT ![i.symbol] = @ \o Notes(p, i.symbol, {i}, k.verb, k.at)]
    /\ session' = [session EXCEPT ![p] = Idle]
    /\ UNCHANGED <<now, config, left>>

\* The row is written, whatever has become of it.
MarkWrite(p, i) ==
    LET k == session[p] IN
    /\ k.pc = "write"
    /\ i \in k.ids
    /\ ledger' = [ledger EXCEPT ![i].status = k.verb,
                                ![i].until = IF k.verb = "dismissed" THEN k.at + Dismissal ELSE @]
    /\ log' = [log EXCEPT ![i.symbol] = @ \o Notes(p, i.symbol, {i}, k.verb, k.at)]
    /\ session' = [session EXCEPT ![p] =
        IF k.todo = {i} THEN Idle ELSE [k EXCEPT !.pc = "mark", !.todo = @ \ {i}, !.ids = {}, !.at = 0]]
    /\ UNCHANGED <<now, config, left>>

\* mark_applied came too late: an error, too.
MarkExpired(p, i) ==
    LET k == session[p] IN
    /\ k.pc = "expire"
    /\ i \in k.ids
    /\ ledger' = [ledger EXCEPT ![i].status = "expired"]
    /\ log' = [log EXCEPT ![i.symbol] = @ \o Notes(p, i.symbol, {i}, "expired", k.at)]
    /\ session' = [session EXCEPT ![p] = Idle]
    /\ UNCHANGED <<now, config, left>>

\* A statement fails, the save does, or the page is closed.
Cut(p) ==
    /\ session[p].pc # "idle"
    /\ left.cuts > 0
    /\ left' = [left EXCEPT !.cuts = @ - 1]
    /\ session' = [session EXCEPT ![p] = Idle]
    /\ UNCHANGED <<now, config, ledger, log>>

Step(p) ==
    \/ ReadConflicts(p) \/ Insert(p) \/ SweepRead(p) \/ SweepWrite(p) \/ List(p) \/ Choose(p)
    \/ Save(p) \/ \E i \in session[p].todo : Check(p, i) \/ MarkRead(p, i) \/ MarkWrite(p, i)
        \/ MarkExpired(p, i)

Next == Tick \/ \E p \in Sessions : Open(p) \/ Recompute(p) \/ Step(p) \/ Cut(p)

Spec == Init /\ [][Next]_vars

\* Time goes by, and a page is rerun when a row has run out: every rerun of any
\* page sweeps, and the script sweep_proposals does.
FairSpec ==
    /\ Spec
    /\ WF_vars(Tick)
    /\ \A p \in Sessions : WF_vars(Due(now) # {} /\ Open(p)) /\ WF_vars(Step(p))

-----------------------------------------------------------------------------

TypeOK ==
    /\ now \in 0..MaxNow
    /\ config \subseteq Symbols
    /\ ledger \in [Ids -> Row \cup {None}]
    /\ log \in [Symbols -> Seq(Decision)]
    /\ session \in [Sessions -> Session]
    /\ left \in Scope

\* A session decides on a row once: what it has applied, dismissed, expired or
\* superseded does not come up again in it, whatever the others do with the row
\* in the meantime, for no decided row is ever pending again.
DecidesOnce ==
    \A s \in Symbols : \A n \in DOMAIN log[s] : \A m \in 1..n - 1 :
        log[s][m].id = log[s][n].id /\ log[s][m].by = log[s][n].by => log[s][m].what = "created"

\* What a session has dismissed it does not propose again as long as the
\* dismissal lasts, unless another has decided otherwise in the meantime.
DismissalsHold ==
    \A s \in Symbols : \A n \in DOMAIN log[s] : \A m \in 1..n - 1 :
        LET d == log[s][m]  c == log[s][n] IN
        (d.what = "dismissed" /\ c.what = "created" /\ d.by = c.by /\ d.id.what = c.id.what
            /\ c.at < d.at + Dismissal)
        => \E k \in m + 1..n - 1 : log[s][k].id = d.id /\ log[s][k].by # d.by

Created(p, i) == \E n \in DOMAIN log[i.symbol] :
    log[i.symbol][n].id = i /\ log[i.symbol][n].what = "created" /\ log[i.symbol][n].by = p

\* A newer rule replaces the older one: two rules for a symbol wait side by side
\* only if two sessions proposed them at the same time.
OneRulePerSession ==
    \A p \in Sessions : \A i, j \in {i \in In("pending") : i.what # Prune /\ Created(p, i)} :
        i.symbol = j.symbol => i.what = j.what

UpdatesOf(b) == {i \in In("pending") : i.what # Prune /\ i.bucket = b}

\* The rule updates of a recompute do not wait for ever.  (A recompute comes while
\* its rows have time to run out.)
RuleUpdatesSettle == \A b \in 0..MaxNow - Lifetime : UpdatesOf(b) # {} ~> UpdatesOf(b) = {}
=============================================================================

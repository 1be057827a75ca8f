---------------------------- MODULE PaperTrading ----------------------------
(***************************************************************************)
(* The paper strategy: the dictionaries of state.py that core/trade_engine *)
(* works on, one pass over the symbols in each market loop of main.py, the *)
(* runtime state that is saved after the pass, and the trade log, which is *)
(* written during the pass.  The process may stop anywhere and is started  *)
(* again from what was saved; a pass may end in an exception; a day may    *)
(* end at any time.  Prices are left out: any symbol may be in its buy     *)
(* zone, and any position may meet one of its exit conditions, any time.   *)
(***************************************************************************)
EXTENDS Naturals

CONSTANTS
    Symbols,     \* the symbols of config["rules"]
    MaxTrades,   \* max_trades_per_day of every rule
    MaxImports,  \* bound: wallet imports of a symbol in a day
    MaxSlips     \* bound: crashes and failed passes in a day

ASSUME MaxTradesAssumption == MaxTrades \in Nat \ {0}
ASSUME BoundsAssumption == MaxImports \in Nat /\ MaxSlips \in Nat

VARIABLES
    pc,          \* "off", "idle" (between two passes) or "pass"
    todo,        \* the symbols the pass has not come to yet
    late,        \* the pass began before midnight: its timestamp is yesterday's
    book,        \* book[s]: the position, zone, cooldown and counter of s
    saved,       \* the runtime state on disk, and whether it is today's
    log,         \* log[s]: today's rows of s in the trade log file
    imports,     \* imports[s]: how often the wallet was imported today
    resting,     \* resting[s]: s was sold less than cooldown_seconds ago
    slips        \* today's crashes and failed passes

vars == <<pc, todo, late, book, saved, log, imports, resting, slips>>

\* open: s is in positions.  inBuy: last_zones[s] is "BUY".  cooling:
\* cooldowns[s] is in the future.  trades: daily_stats[today][s]["trades"].
Entry == [open : BOOLEAN, inBuy : BOOLEAN, cooling : BOOLEAN, trades : Nat]
NoEntry == [open |-> FALSE, inBuy |-> FALSE, cooling |-> FALSE, trades |-> 0]

\* daily_stats is keyed by the day: yesterday's counters are not today's.
Today(b, isToday) == [s \in Symbols |-> IF isToday THEN b[s] ELSE [b[s] EXCEPT !.trades = 0]]

Zeros == [s \in Symbols |-> 0]

Init ==
    /\ pc = "off"
    /\ todo = {}
    /\ late = FALSE
    /\ book = [s \in Symbols |-> NoEntry]
    /\ saved = [book |-> book, today |-> TRUE]
    /\ log = Zeros
    /\ imports = Zeros
    /\ resting = [s \in Symbols |-> FALSE]
    /\ slips = 0

-----------------------------------------------------------------------------
(* The process.                                                            *)

\* A fault for the checks: the cooldowns are not restored.
StartWithoutCooldowns ==
    /\ pc = "off"
    /\ pc' = "idle"
    /\ book' = [s \in Symbols |-> [Today(saved.book, saved.today)[s] EXCEPT !.cooling = FALSE]]
    /\ UNCHANGED <<todo, late, saved, log, imports, resting, slips>>

\* load_runtime_state.
Start ==
    /\ pc = "off"
    /\ pc' = "idle"
    /\ book' = Today(saved.book, saved.today)
    /\ UNCHANGED <<todo, late, saved, log, imports, resting, slips>>

\* The process is killed: what was not saved is gone, the log is not.
Crash ==
    /\ pc # "off"
    /\ slips < MaxSlips
    /\ pc' = "off"
    /\ todo' = {}
    /\ late' = FALSE
    /\ slips' = slips + 1
    /\ UNCHANGED <<book, saved, log, imports, resting>>

\* persist_state
Persist(b) == book' = b /\ saved' = [book |-> b, today |-> TRUE]

\* The unpaused part of the market loop begins.
BeginPass ==
    /\ pc = "idle"
    /\ pc' = "pass"
    /\ todo' = Symbols
    /\ UNCHANGED <<late, book, saved, log, imports, resting, slips>>

\* A fault: the state is saved on shutdown only.
EndPassUnsaved ==
    /\ pc = "pass"
    /\ todo = {}
    /\ pc' = "idle"
    /\ late' = FALSE
    /\ UNCHANGED <<todo, book, saved, log, imports, resting, slips>>

EndPass ==
    /\ pc = "pass"
    /\ todo = {}
    /\ pc' = "idle"
    /\ late' = FALSE
    /\ Persist(book)
    /\ UNCHANGED <<todo, log, imports, resting, slips>>

-----------------------------------------------------------------------------
(* One symbol of the pass.                                                 *)

Turn(s) == pc = "pass" /\ s \in todo

\* A fault: the limit is compared with <=.
CanOpenOneMore(s) == book[s].trades <= MaxTrades

\* can_open_new_trade counts the trades closed today.
CanOpenNewTrade(s) == book[s].trades < MaxTrades

\* open_position, when the price has come into the buy zone since the last
\* pass, s is not cooling down and the limit of the day is not reached.
Enter(s) ==
    /\ Turn(s)
    /\ ~book[s].open
    /\ ~book[s].inBuy
    /\ ~book[s].cooling
    /\ CanOpenNewTrade(s)
    /\ book' = [book EXCEPT ![s].open = TRUE, ![s].inBuy = TRUE]
    /\ todo' = todo \ {s}
    /\ UNCHANGED <<pc, late, saved, log, imports, resting, slips>>

\* write_trade_log puts the pass's timestamp into the row.
Logged(s) == log' = IF late THEN log ELSE [log EXCEPT ![s] = @ + 1]

\* close_position: stop loss, take profit or sell zone.  The trade counts for
\* the day on which it is recorded.
Exit(s) ==
    /\ Turn(s)
    /\ book[s].open
    /\ \E inBuy \in BOOLEAN :
         book' = [book EXCEPT ![s] = [open |-> FALSE, inBuy |-> inBuy, cooling |-> TRUE,
                                      trades |-> book[s].trades + 1]]
    /\ Logged(s)
    /\ resting' = [resting EXCEPT ![s] = TRUE]
    /\ todo' = todo \ {s}
    /\ UNCHANGED <<pc, late, saved, imports, slips>>

\* Neither: no signal, a refused one, a position that is kept, a price that is
\* not usable or missing from the ticker.
Keep(s) ==
    /\ Turn(s)
    /\ \E inBuy \in BOOLEAN : book' = [book EXCEPT ![s].inBuy = inBuy]
    /\ todo' = todo \ {s}
    /\ UNCHANGED <<pc, late, saved, log, imports, resting, slips>>

\* An exception leaves the pass; the handler around the loop saves the state.
\* last_zones is set by then, and the sale that could not be inserted into the
\* database is in the log file already.
Fail(s) ==
    /\ Turn(s)
    /\ slips < MaxSlips
    /\ \E inBuy \in BOOLEAN : Persist([book EXCEPT ![s].inBuy = inBuy])
    /\ UNCHANGED log \/ (book[s].open /\ Logged(s))
    /\ slips' = slips + 1
    /\ pc' = "idle"
    /\ todo' = {}
    /\ late' = FALSE
    /\ UNCHANGED <<imports, resting>>

-----------------------------------------------------------------------------
(* The operator and the clock.                                             *)

\* Hotkey I: a position for every chosen symbol without one.
ImportWallet(chosen) ==
    /\ pc = "idle"
    /\ chosen # {}
    /\ \A s \in chosen : ~book[s].open /\ imports[s] < MaxImports
    /\ Persist([s \in Symbols |-> IF s \in chosen THEN [book[s] EXCEPT !.open = TRUE] ELSE book[s]])
    /\ imports' = [s \in Symbols |-> IF s \in chosen THEN imports[s] + 1 ELSE imports[s]]
    /\ UNCHANGED <<pc, todo, late, log, resting, slips>>

\* Local positions go, with the cooldowns of their symbols.
Drop(chosen) ==
    /\ pc = "idle"
    /\ chosen # {} /\ \A s \in chosen : book[s].open
    /\ Persist([s \in Symbols |-> IF s \in chosen
                                  THEN [book[s] EXCEPT !.open = FALSE, !.cooling = FALSE]
                                  ELSE book[s]])
    /\ resting' = [s \in Symbols |-> resting[s] /\ s \notin chosen]
    /\ UNCHANGED <<pc, todo, late, log, imports, slips>>

\* Hotkey C: every position.
ClearPositions == Drop({s \in Symbols : book[s].open})

\* A reload in a mode other than paper prunes the positions whose rules are gone.  Until
\* another reload brings the rule of a symbol back, its turns are all like Keep.
ReloadPrunes(chosen) == Drop(chosen)

CooldownEnds(s) ==
    /\ resting[s] \/ book[s].cooling
    /\ resting' = [resting EXCEPT ![s] = FALSE]
    /\ book' = [book EXCEPT ![s].cooling = FALSE]
    /\ UNCHANGED <<pc, todo, late, saved, log, imports, slips>>

\* Midnight.
NewDay ==
    /\ late' = (pc = "pass")
    /\ book' = Today(book, FALSE)
    /\ saved' = [saved EXCEPT !.today = FALSE]
    /\ log' = Zeros
    /\ imports' = Zeros
    /\ slips' = 0
    /\ UNCHANGED <<pc, todo, resting>>

Next ==
    \/ Start \/ Crash \/ BeginPass \/ EndPass
    \/ \E s \in Symbols : Enter(s) \/ Exit(s) \/ Keep(s) \/ Fail(s) \/ CooldownEnds(s)
    \/ \E chosen \in SUBSET Symbols : ImportWallet(chosen) \/ ReloadPrunes(chosen)
    \/ ClearPositions
    \/ NewDay

Spec == Init /\ [][Next]_vars

-----------------------------------------------------------------------------

TypeOK ==
    /\ pc \in {"off", "idle", "pass"}
    /\ todo \subseteq Symbols
    /\ late \in BOOLEAN
    /\ book \in [Symbols -> Entry]
    /\ saved \in [book : [Symbols -> Entry], today : BOOLEAN]
    /\ log \in [Symbols -> Nat]
    /\ imports \in [Symbols -> Nat]
    /\ resting \in [Symbols -> BOOLEAN]
    /\ slips \in Nat

\* A symbol closes no more trades in a day than its rule allows and the wallet
\* was imported: can_open_new_trade looks at closed trades only, so this needs
\* that a position is never opened twice, whatever is restored after a crash
\* and whichever day the position was opened on.
TradesWithinLimit ==
    \A s \in Symbols : book[s].trades <= MaxTrades + imports[s]

\* The log file has each sale once, but for one more row for each crash and
\* each failed pass: the state is saved after every pass, so the restored
\* position is sold again at most once.
SalesLoggedOnce ==
    \A s \in Symbols : log[s] <= book[s].trades + slips

\* The strategy does not buy a symbol that it sold less than cooldown_seconds
\* ago, across crashes and restarts too; only the operator's clearing of a
\* position, or a reload that prunes it, ends the rest of its symbol.
RestBeforeReentry ==
    [][\A s \in Symbols : pc = "pass" /\ ~book[s].open /\ book'[s].open => ~resting[s]]_vars
=============================================================================

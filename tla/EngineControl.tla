--------------------------- MODULE EngineControl ---------------------------
(***************************************************************************)
(* main.py's control of the engine: which configuration is in force, when  *)
(* the loop is paused and by whom, and what of it outlives the process.    *)
(* config.json is edited from outside (an editor, the Streamlit pages) and *)
(* from inside (a Telegram confirmation); a reload brings an edit into     *)
(* force, or is rejected and pauses the loop for safety.                   *)
(*                                                                         *)
(* An iteration of the loop goes pass -> telegram -> wait; a paused one    *)
(* leaves the pass out.  The rules and the mode it works with are the ones *)
(* that were in force when it began: the hotkeys pressed during the wait   *)
(* still see them after a reload.  Of a configuration, the symbols that    *)
(* have a rule and the trading mode are kept; of the runtime state, the    *)
(* symbols with a paper position and the manual pause.                     *)
(*                                                                         *)
(* An action writes runtime events and audit rows on its way, and each of  *)
(* these inserts may raise (the database is locked).  What was done before *)
(* it stands.  The loop answers a hotkey that raises by saving the state   *)
(* and starting its next iteration; a Telegram command that raises is      *)
(* reported as failed, and nothing is saved.                               *)
(***************************************************************************)
EXTENDS Naturals

CONSTANT Symbols

\* "live" stands for every mode but paper: read-only, live-disabled,
\* shadow-live and live are treated alike here.
Modes == {"paper", "live"}

\* validate_config wants a rule at least.
Config == [rules : (SUBSET Symbols) \ {{}}, mode : Modes]

\* What validate_config, or the JSON parser, refuses.
Invalid == [rules |-> {}, mode |-> "paper"]

VARIABLES
    file,        \* config.json
    active,      \* config.py's _ACTIVE_CONFIG, read by the clients and services
    config,      \* the loop's own reference to the configuration
    loop,        \* the configuration the iteration began with, and whether it is paused
    pc,          \* "off", or where the iteration is
    positions,   \* the symbols with a paper position
    manual,      \* manual_pause
    safety,      \* safety_pause
    saved,       \* the runtime state on disk
    ask,         \* the Telegram command that waits for its confirmation
    torn,        \* the last reload that changed anything raised before its end
    failed       \* a Telegram command raised, and nothing was saved since

disk == <<saved, failed>>
memory == <<active, config, positions, manual, safety, torn>>
vars == <<file, active, config, loop, pc, positions, manual, safety, saved, ask, torn, failed>>

NoAsk == [do |-> "none"]

Asks ==
    [do : {"none", "reload", "pause", "resume"}]
    \union [do : {"set_config"}, config : Config]
    \union [do : {"add_rule"}, symbol : Symbols]

Init ==
    /\ file \in Config
    /\ active = file
    /\ config = file
    /\ loop = [config |-> file, paused |-> FALSE]
    /\ pc = "off"
    /\ positions = {}
    /\ manual = FALSE
    /\ safety = FALSE
    /\ saved = [positions |-> {}, manual |-> FALSE]
    /\ ask = NoAsk
    /\ torn = FALSE
    /\ failed = FALSE

Running == pc # "off"

\* persist_state
Persist ==
    /\ saved' = [positions |-> positions', manual |-> manual']
    /\ failed' = FALSE

\* missing_position_symbols
Missing(rules) == positions \ rules

-----------------------------------------------------------------------------
(* Outside the engine.                                                     *)

\* An editor or a page writes config.json.
EditFile ==
    /\ file' \in Config \union {Invalid}
    /\ UNCHANGED <<pc, loop, ask>> /\ UNCHANGED disk /\ UNCHANGED memory

\* What was in memory is gone.
Off ==
    /\ pc' = "off"
    /\ loop' = [config |-> config, paused |-> FALSE]
    /\ active' = config
    /\ positions' = {}
    /\ manual' = FALSE /\ safety' = FALSE
    /\ ask' = NoAsk
    /\ torn' = FALSE /\ failed' = FALSE
    /\ UNCHANGED <<file, config>>

\* The process ends where it is.
Crash == Running /\ Off /\ UNCHANGED saved

-----------------------------------------------------------------------------
(* The loop.                                                               *)

\* The top of the loop.
Iterate ==
    /\ loop' = [config |-> config', paused |-> manual' \/ safety']
    /\ pc' = IF manual' \/ safety' THEN "telegram" ELSE "pass"

\* reconciliation_requires_safety_pause: only in paper mode.  The balances
\* cover the positions or do not (an unreadable balance does not).
UncoveredPauses(mode) == mode = "paper" /\ saved.positions # {}

\* The restored state is checked against the configuration and the balances
\* before the first iteration.
Start ==
    /\ pc = "off"
    /\ file # Invalid
    /\ active' = file
    /\ config' = file
    /\ positions' = saved.positions
    /\ manual' = saved.manual
    /\ \E uncovered \in BOOLEAN :
         safety' = \/ saved.positions \ file.rules # {}
                   \/ uncovered /\ UncoveredPauses(file.mode)
    /\ Iterate
    /\ UNCHANGED <<file, saved, ask, torn, failed>>

\* The market pass.  In paper mode it opens and closes positions, of symbols
\* that have a rule; what makes it do so is PaperTrading's matter.
Pass ==
    /\ pc = "pass"
    /\ pc' = "telegram"
    /\ IF loop.config.mode = "paper"
       THEN \E traded \in SUBSET loop.config.rules :
              positions' = (positions \ loop.config.rules) \union traded
       ELSE UNCHANGED positions
    /\ UNCHANGED <<file, active, config, loop, manual, safety, ask, torn>>
    /\ UNCHANGED disk

\* Something in the iteration raises: the state is saved, and the next one
\* begins.
RuntimeError ==
    /\ Running
    /\ UNCHANGED <<file, ask>> /\ UNCHANGED memory
    /\ Persist
    /\ Iterate

\* Only an iteration that was not paused saves the state before its wait.
EndTelegram ==
    /\ pc = "telegram"
    /\ pc' = "wait"
    /\ UNCHANGED <<file, loop, ask>> /\ UNCHANGED memory
    /\ IF loop.paused THEN UNCHANGED disk ELSE Persist

EndWait ==
    /\ pc = "wait"
    /\ UNCHANGED <<file, ask>> /\ UNCHANGED disk /\ UNCHANGED memory
    /\ Iterate

-----------------------------------------------------------------------------
(* What an operator may order, with a hotkey or by Telegram.               *)

\* activate_safety_pause
PauseForSafety ==
    /\ safety' = TRUE
    /\ UNCHANGED <<config, positions, torn>>

\* reload_config: a valid file is in force for the clients before the loop
\* looks at its rules.
Activate == active' = IF file = Invalid THEN active ELSE file

\* A file that would leave positions of paper mode without a rule is rejected
\* like an invalid one; other modes drop those positions.
Rejected == file = Invalid \/ (file.mode = "paper" /\ Missing(file.rules) # {})

\* A fault for the checks: the file is taken into force as it is.
ReloadUnchecked ==
    /\ active' = file
    /\ config' = file
    /\ safety' = FALSE
    /\ torn' = FALSE
    /\ UNCHANGED <<file, positions, manual>>

\* A fault for the checks: the loop's own configuration is left as it was.
ReloadSplits ==
    /\ file # Invalid
    /\ active' = file
    /\ safety' = FALSE
    /\ positions' = positions \intersect file.rules
    /\ UNCHANGED <<file, config, manual, torn>>

\* reload_config_action
Reload ==
    /\ Activate
    /\ \/ Rejected /\ PauseForSafety
       \/ /\ ~Rejected
          /\ config' = file
          /\ positions' = positions \ Missing(file.rules)
          /\ safety' = FALSE
          /\ torn' = FALSE
    /\ UNCHANGED <<file, manual>>

\* It raises on its way: where the dropped positions are recorded, before the
\* loop has the new configuration, or after that, before or after the safety
\* pause is cleared.
ReloadRaises ==
    /\ Activate
    /\ \/ Rejected /\ PauseForSafety
       \/ /\ ~Rejected
          /\ positions' = positions \ Missing(file.rules)
          /\ \/ Missing(file.rules) # {} /\ torn' = TRUE /\ UNCHANGED <<config, safety>>
             \/ config' = file /\ torn' = FALSE /\ safety' \in {safety, FALSE}
    /\ UNCHANGED <<file, manual>>

\* set_manual_pause_action: a safety pause stops a resume.
SetPause(target) ==
    /\ manual' = (target \/ (safety /\ manual))
    /\ UNCHANGED <<file, active, config, positions, safety, torn>>

\* A fault for the checks: the pause is not saved.
SavePauseNot == UNCHANGED disk

\* Its end: saved when it changed something.
SavePause == IF manual' = manual THEN UNCHANGED disk ELSE Persist

\* apply_saved_config_update: written to the file and taken into force, with
\* no look at the positions.
SaveConfig(new) ==
    /\ file' = new
    /\ active' = new
    /\ config' = new
    /\ torn' = FALSE
    /\ UNCHANGED <<positions, manual, safety>>

\* A hotkey runs to its end, or raises.
Pressed == pc = "wait" /\ UNCHANGED ask
Ends == UNCHANGED <<pc, loop>>
Raises == Iterate

HotkeyReload ==
    /\ Pressed
    /\ (Reload /\ Ends) \/ (ReloadRaises /\ Raises)
    /\ Persist

HotkeyPause ==
    /\ Pressed
    /\ SetPause(~manual)
    /\ (SavePause /\ Ends) \/ (Persist /\ Raises)

\* A fault for the checks: the safety pause does not stop an import.
HotkeyImportPaused ==
    /\ Pressed
    /\ loop.config.mode = "paper"
    /\ \E held \in SUBSET loop.config.rules : positions' = positions \union held
    /\ UNCHANGED <<file, active, config, manual, safety, torn>>
    /\ Persist
    /\ Ends \/ Raises

\* import_wallet_positions_action: a position for every symbol of the wallet
\* that has a rule; the rules and the mode are the ones at the top of the
\* iteration, the safety pause is the one of now.
HotkeyImport ==
    /\ Pressed
    /\ ~safety
    /\ loop.config.mode = "paper"
    /\ \E held \in SUBSET loop.config.rules : positions' = positions \union held
    /\ UNCHANGED <<file, active, config, manual, safety, torn>>
    /\ Persist
    /\ Ends \/ Raises

\* clear_local_paper_positions_action
HotkeyClear ==
    /\ Pressed
    /\ positions # {}
    /\ positions' = {}
    /\ UNCHANGED <<file, active, config, manual, safety, torn>>
    /\ Persist
    /\ Ends \/ Raises

\* quit_action
HotkeyQuit ==
    /\ pc = "wait"
    /\ Off
    /\ saved' = [positions |-> positions, manual |-> manual]

-----------------------------------------------------------------------------
(* process_telegram_commands: a command is confirmed by a second one.      *)

\* /set_config keeps the whole configuration of now with the field changed.
Asked ==
    [do : {"reload", "pause", "resume"}]
    \union [do : {"set_config"}, config : {[config EXCEPT !.mode = m] : m \in Modes}]
    \union [do : {"add_rule"}, symbol : Symbols]

\* create_telegram_confirmation: one a chat, a new one in place of the old.
Ask ==
    /\ pc = "telegram"
    /\ ask' \in Asked
    /\ UNCHANGED <<file, pc, loop>> /\ UNCHANGED disk /\ UNCHANGED memory

\* The confirmation came too late, or the file could not be written.
Expire ==
    /\ pc = "telegram"
    /\ ask # NoAsk
    /\ ask' = NoAsk
    /\ UNCHANGED <<file, pc, loop>> /\ UNCHANGED disk /\ UNCHANGED memory

\* /promote_symbol and /set_rule add a rule to the configuration of now.
ToSave == IF ask.do = "set_config" THEN ask.config
          ELSE [config EXCEPT !.rules = @ \union {ask.symbol}]

ConfirmedUpdate == ask.do \in {"set_config", "add_rule"} /\ SaveConfig(ToSave)
ConfirmedPause == ask.do \in {"pause", "resume"} /\ SetPause(ask.do = "pause")

\* execute_telegram_confirmation
Confirm ==
    /\ pc = "telegram"
    /\ \/ ask.do = "reload" /\ Reload /\ Persist
       \/ ConfirmedPause /\ SavePause
       \/ ConfirmedUpdate /\ Persist
    /\ ask' = NoAsk
    /\ UNCHANGED <<pc, loop>>

ConfirmRaises ==
    /\ pc = "telegram"
    /\ (ask.do = "reload" /\ ReloadRaises) \/ ConfirmedPause \/ ConfirmedUpdate
    /\ ask' = NoAsk
    /\ failed' = TRUE
    /\ UNCHANGED <<pc, loop, saved>>

-----------------------------------------------------------------------------

Next ==
    \/ EditFile \/ Crash
    \/ Start \/ Pass \/ RuntimeError \/ EndTelegram \/ EndWait
    \/ HotkeyReload \/ HotkeyPause \/ HotkeyImport \/ HotkeyClear \/ HotkeyQuit
    \/ Ask \/ Expire \/ Confirm \/ ConfirmRaises

Spec == Init /\ [][Next]_vars

-----------------------------------------------------------------------------

\* The variables have their types; no rejected file is ever in force.
TypeOK ==
    /\ file \in Config \union {Invalid}
    /\ active \in Config /\ config \in Config
    /\ loop \in [config : Config, paused : BOOLEAN]
    /\ pc \in {"off", "pass", "telegram", "wait"}
    /\ positions \in SUBSET Symbols
    /\ manual \in BOOLEAN /\ safety \in BOOLEAN
    /\ saved \in [positions : SUBSET Symbols, manual : BOOLEAN]
    /\ ask \in Asks
    /\ torn \in BOOLEAN /\ failed \in BOOLEAN

\* A manual pause outlives the process whenever it dies, and outside of a
\* pass so do the positions: what a restart finds on disk is what the operator
\* last saw.  Only a Telegram command that raised, and was reported as failed,
\* may have left something unsaved, until an iteration that is not paused
\* reaches its wait.
StateOnDisk ==
    Running /\ (~failed \/ (pc = "wait" /\ ~loop.paused))
    => /\ saved.manual = manual
       /\ pc = "wait" \/ loop.paused => saved.positions = positions

\* The clients and services work with the loop's configuration, except while
\* a safety pause stands (a reload that was rejected for its missing symbols
\* has put the rejected file in force for them), and after a reload out of
\* paper mode that raised where it records the positions it dropped: until the
\* next reload or saved configuration, nothing but the error tells of it.
OneConfigInForce ==
    Running /\ ~safety /\ active # config => torn /\ active.mode # "paper"

\* While a safety pause stands no position is opened, by trading or by hand.
SafetyPauseHolds == [][Running /\ safety /\ Running' /\ safety'
                       => positions' \subseteq positions]_vars

\* A start without a safety pause, and a reload that lifts one, leave every
\* position with a rule that can close it.
PausesUnlessManaged == [][(safety \/ ~Running) /\ Running' /\ ~safety'
                          => positions' \subseteq config'.rules]_vars

\* README.md, Safety Behavior: a mismatch of the configuration and the
\* runtime state is a safety pause.  So without one every position has a rule.
PositionsManaged == Running /\ ~safety => positions \subseteq config.rules
=============================================================================

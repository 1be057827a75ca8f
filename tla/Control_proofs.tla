--------------------------- MODULE Control_proofs ---------------------------
(***************************************************************************)
(* The control of the engine holds for every set of symbols: what is on    *)
(* disk, which configuration is in force, and what a safety pause stops.   *)
(* A reconciliation that says that all is well knows every open order.     *)
(***************************************************************************)
EXTENDS EngineControl, Reconciliation, SequenceTheorems, TLAPS

-----------------------------------------------------------------------------
(* EngineControl.                                                          *)
(*                                                                         *)
(* The properties are not inductive.  A pass trades whatever the safety    *)
(* pause is at that time and leaves its positions to be saved before the   *)
(* wait: it must come in an iteration that is not paused.  And which       *)
(* configuration is in force has to be known of a stopped engine too.      *)
(* IInv says both.                                                         *)

Agreed == ~safety /\ active # config => torn /\ active.mode # "paper"

Memory ==
    /\ active \in Config /\ config \in Config
    /\ positions \in SUBSET Symbols
    /\ manual \in BOOLEAN /\ safety \in BOOLEAN /\ torn \in BOOLEAN
    /\ Agreed

SavedType == [positions : SUBSET Symbols, manual : BOOLEAN]

Surroundings ==
    /\ file \in Config \union {Invalid}
    /\ loop \in [config : Config, paused : BOOLEAN]
    /\ pc \in {"off", "pass", "telegram", "wait"}
    /\ saved \in SavedType
    /\ ask \in Asks
    /\ failed \in BOOLEAN

PassesUnpaused == pc = "pass" => ~safety /\ ~loop.paused

IInv == Memory /\ Surroundings /\ StateOnDisk /\ PassesUnpaused

-----------------------------------------------------------------------------

\* A reload keeps the types.  It leaves two configurations only under a safety
\* pause or when it is torn, opens no position, and lifts a pause only when
\* every position has a rule.
LEMMA Reloads ==
    ASSUME Memory, file \in Config \union {Invalid}, Reload \/ ReloadRaises
    PROVE  /\ Memory'
           /\ positions' \subseteq positions
           /\ safety /\ ~safety' => positions' \subseteq config'.rules
           /\ UNCHANGED <<file, manual>>
<1>1. UNCHANGED <<file, manual>> /\ Activate
  BY DEF Reload, ReloadRaises
<1>2. active' \in Config
  BY <1>1 DEF Activate, Memory
<1>3. CASE PauseForSafety
  BY <1>1, <1>2, <1>3 DEF PauseForSafety, Memory, Agreed
<1>4. ASSUME ~Rejected, positions' = positions \ Missing(file.rules)
      PROVE  /\ active' = file /\ active' \in Config
             /\ positions' \in SUBSET Symbols /\ positions' \subseteq positions
             /\ positions' \subseteq file.rules
  BY <1>1, <1>2, <1>4 DEF Rejected, Activate, Memory, Missing
<1>5. CASE /\ ~Rejected /\ positions' = positions \ Missing(file.rules)
           /\ config' = file /\ torn' = FALSE /\ safety' \in {safety, FALSE}
  <2>1. safety' \in BOOLEAN
    BY <1>5 DEF Memory
  <2> QED
    BY <1>1, <1>4, <1>5, <2>1 DEF Memory, Agreed
<1>6. CASE /\ ~Rejected /\ positions' = positions \ Missing(file.rules)
           /\ Missing(file.rules) # {} /\ torn' = TRUE /\ UNCHANGED <<config, safety>>
  <2>1. active'.mode # "paper"
    BY <1>4, <1>6 DEF Rejected
  <2> QED
    BY <1>1, <1>4, <1>6, <2>1 DEF Memory, Agreed
<1> QED
  BY <1>3, <1>5, <1>6 DEF Reload, ReloadRaises

\* A pause and a resume change nothing else in memory.
LEMMA Pauses ==
    ASSUME Memory, NEW target \in BOOLEAN, SetPause(target)
    PROVE  Memory' /\ UNCHANGED <<file, active, config, positions, safety, torn>>
<1>1. manual' \in BOOLEAN
  BY DEF SetPause, Memory
<1> QED
  BY <1>1 DEF SetPause, Memory, Agreed

\* A saved configuration is the one in force.
LEMMA Saves ==
    ASSUME Memory, NEW new \in Config, SaveConfig(new)
    PROVE  /\ Memory' /\ file' \in Config
           /\ UNCHANGED <<positions, manual, safety>>
  BY DEF SaveConfig, Memory, Agreed

\* What is confirmed is a configuration.
LEMMA Updates ==
    ASSUME Memory, ask \in Asks, ConfirmedUpdate
    PROVE  ToSave \in Config /\ SaveConfig(ToSave)
<1>1. CASE ask.do = "set_config"
  BY <1>1 DEF ConfirmedUpdate, ToSave, Asks
<1>2. CASE ask.do = "add_rule"
  <2>1. ask.symbol \in Symbols
    BY <1>2 DEF Asks
  <2>2. [config EXCEPT !.rules = @ \union {ask.symbol}] \in Config
    BY <2>1 DEF Memory, Config
  <2> QED
    BY <1>2, <2>2 DEF ConfirmedUpdate, ToSave
<1> QED
  BY <1>1, <1>2 DEF ConfirmedUpdate

\* A confirmed command is one of these.
LEMMA Confirms ==
    ASSUME Memory, ask \in Asks, Confirm \/ ConfirmRaises
    PROVE  \/ Reload \/ ReloadRaises
           \/ \E target \in BOOLEAN : SetPause(target)
           \/ \E new \in Config : SaveConfig(new)
<1>1. ASSUME ConfirmedPause PROVE \E target \in BOOLEAN : SetPause(target)
  BY <1>1 DEF ConfirmedPause
<1> QED
  BY <1>1, Updates DEF Confirm, ConfirmRaises

\* So it keeps the memory and a file that can be read or not.
LEMMA Confirmed ==
    ASSUME Memory, Surroundings, Confirm \/ ConfirmRaises
    PROVE  Memory' /\ file' \in Config \union {Invalid}
<1>1. ASSUME NEW target \in BOOLEAN, SetPause(target)
      PROVE  Memory' /\ file' \in Config \union {Invalid}
  BY <1>1, Pauses DEF Surroundings
<1>2. ASSUME NEW new \in Config, SaveConfig(new)
      PROVE  Memory' /\ file' \in Config \union {Invalid}
  BY <1>2, Saves
<1> QED
  BY <1>1, <1>2, Confirms, Reloads DEF Surroundings

\* An iteration begins with the configuration and the pauses of now.
LEMMA IterationBegins ==
    ASSUME Memory', Iterate
    PROVE  /\ loop' \in [config : Config, paused : BOOLEAN]
           /\ pc' \in {"pass", "telegram"}
           /\ PassesUnpaused'
<1>1. loop' = [config |-> config', paused |-> manual' \/ safety']
  BY DEF Iterate
<1>2. loop'.paused = (manual' \/ safety')
  BY <1>1
<1>3. config' \in Config
  BY DEF Memory
<1>4. loop' \in [config : Config, paused : BOOLEAN]
  BY <1>1, <1>3
<1>5. pc' = IF manual' \/ safety' THEN "telegram" ELSE "pass"
  BY DEF Iterate
<1> QED
  BY <1>2, <1>4, <1>5 DEF PassesUnpaused

\* What is saved is what is in memory.
LEMMA Persists ==
    ASSUME Memory', Persist
    PROVE  /\ saved' \in SavedType /\ failed' = FALSE
           /\ saved'.positions = positions' /\ saved'.manual = manual'
  BY DEF Persist, Memory, SavedType

\* A step that saves keeps IInv, be it within an iteration or on to the next.
LEMMA Saving ==
    ASSUME IInv, Memory', Persist,
           file' \in Config \union {Invalid}, ask' \in Asks,
           Iterate \/ (pc' \in {"telegram", "wait"} /\ UNCHANGED loop)
    PROVE  IInv'
<1>1. /\ loop' \in [config : Config, paused : BOOLEAN]
      /\ pc' \in {"off", "pass", "telegram", "wait"}
      /\ PassesUnpaused'
  BY IterationBegins DEF IInv, Surroundings, PassesUnpaused
<1>2. Surroundings'
  BY <1>1, Persists DEF Surroundings
<1>3. StateOnDisk'
  BY Persists DEF StateOnDisk
<1> QED
  BY <1>1, <1>2, <1>3 DEF IInv

\* So does one that changes neither the memory nor the disk, and stays in the
\* iteration.
LEMMA Waiting ==
    ASSUME IInv, UNCHANGED memory, UNCHANGED disk, UNCHANGED <<pc, loop>>,
           file' \in Config \union {Invalid}, ask' \in Asks
    PROVE  IInv'
  BY DEF IInv, memory, disk, Memory, Agreed, Surroundings, StateOnDisk, PassesUnpaused, Running

\* A stopped engine has nothing to keep.
LEMMA Stops ==
    ASSUME IInv, Off, saved' \in SavedType
    PROVE  IInv'
  BY DEF IInv, Off, Memory, Agreed, Surroundings, StateOnDisk, PassesUnpaused, Running, NoAsk, Asks

-----------------------------------------------------------------------------

LEMMA Initially == Init => IInv
<1> SUFFICES ASSUME Init PROVE IInv
  OBVIOUS
<1>1. Memory
  BY DEF Init, Memory, Agreed
<1>2. Surroundings
  BY DEF Init, Surroundings, SavedType, NoAsk, Asks
<1> QED
  BY <1>1, <1>2 DEF Init, IInv, StateOnDisk, PassesUnpaused, Running

LEMMA Inductive == IInv /\ [Next]_vars => IInv'
<1> SUFFICES ASSUME IInv, [Next]_vars PROVE IInv'
  OBVIOUS
<1>a. Memory /\ Surroundings
  BY DEF IInv
<1>b. file \in Config \union {Invalid} /\ ask \in Asks /\ NoAsk \in Asks
  BY <1>a DEF Surroundings, NoAsk, Asks
<1>c. UNCHANGED memory => Memory'
  BY <1>a DEF memory, Memory, Agreed
<1>1. CASE EditFile
  BY <1>1, <1>b, Waiting DEF EditFile
<1>2. CASE Crash
  BY <1>2, <1>a, Stops DEF Crash, Surroundings
<1>3. CASE Start
  <2>1. Memory'
    BY <1>3, <1>a DEF Start, Memory, Agreed, Surroundings, SavedType, UncoveredPauses
  <2>2. Iterate /\ UNCHANGED <<file, saved, ask, failed>>
    BY <1>3 DEF Start
  <2>3. saved'.positions = positions' /\ saved'.manual = manual'
    BY <1>3 DEF Start
  <2> QED
    BY <1>a, <2>1, <2>2, <2>3, IterationBegins DEF IInv, Surroundings, StateOnDisk, PassesUnpaused
<1>4. CASE Pass
  <2>1. positions' \in SUBSET Symbols
    BY <1>4, <1>a DEF Pass, Memory, Surroundings, Config
  <2>2. Memory'
    BY <1>4, <1>a, <2>1 DEF Pass, Memory, Agreed
  <2> QED
    BY <1>4, <2>2 DEF Pass, disk, IInv, Surroundings, StateOnDisk, PassesUnpaused, Running
<1>5. CASE RuntimeError
  BY <1>5, <1>b, <1>c, Saving DEF RuntimeError
<1>6. CASE EndTelegram
  <2>1. CASE loop.paused
    BY <1>6, <2>1, <1>c DEF EndTelegram, IInv, disk, memory, Surroundings, StateOnDisk, PassesUnpaused, Running
  <2>2. CASE ~loop.paused
    BY <1>6, <2>2, <1>b, <1>c, Saving DEF EndTelegram
  <2> QED
    BY <2>1, <2>2
<1>7. CASE EndWait
  <2>1. Memory' /\ Iterate
    BY <1>7, <1>c DEF EndWait
  <2> QED
    BY <1>7, <1>a, <2>1, IterationBegins
    DEF EndWait, disk, memory, IInv, Surroundings, StateOnDisk, PassesUnpaused, Running
<1>8. CASE HotkeyReload
  <2>1. Memory' /\ UNCHANGED file
    BY <1>8, <1>a, <1>b, Reloads DEF HotkeyReload
  <2> QED
    BY <1>8, <1>b, <2>1, Saving DEF HotkeyReload, Pressed, Ends, Raises
<1>9. CASE HotkeyPause
  <2>1. (~manual) \in BOOLEAN /\ SetPause(~manual)
    BY <1>9 DEF HotkeyPause
  <2>2. Memory' /\ UNCHANGED <<file, active, config, positions, safety, torn>>
    BY <1>a, <2>1, Pauses
  <2>3. CASE Persist
    BY <1>9, <1>b, <2>2, <2>3, Saving DEF HotkeyPause, Pressed, Ends, Raises
  <2>4. CASE manual' = manual /\ UNCHANGED disk /\ Ends
    BY <1>9, <1>b, <2>2, <2>4, Waiting DEF HotkeyPause, Pressed, Ends, memory
  <2> QED
    BY <1>9, <2>3, <2>4 DEF HotkeyPause, SavePause
<1>10. CASE HotkeyImport
  <2>1. positions' \in SUBSET Symbols
    BY <1>10, <1>a DEF HotkeyImport, Memory, Surroundings, Config
  <2>2. Memory'
    BY <1>10, <1>a, <2>1 DEF HotkeyImport, Memory, Agreed
  <2> QED
    BY <1>10, <1>b, <2>2, Saving DEF HotkeyImport, Pressed, Ends, Raises
<1>11. CASE HotkeyClear
  <2>1. Memory'
    BY <1>11, <1>a DEF HotkeyClear, Memory, Agreed
  <2> QED
    BY <1>11, <1>b, <2>1, Saving DEF HotkeyClear, Pressed, Ends, Raises
<1>12. CASE HotkeyQuit
  BY <1>12, <1>a, Stops DEF HotkeyQuit, Memory, SavedType
<1>13. CASE Ask
  <2>1. \A m \in Modes : [config EXCEPT !.mode = m] \in Config
    BY <1>a DEF Memory, Config
  <2>2. Asked \subseteq Asks
    BY <2>1 DEF Asked, Asks
  <2> QED
    BY <1>13, <1>b, <2>2, Waiting DEF Ask
<1>14. CASE Expire
  BY <1>14, <1>b, Waiting DEF Expire
<1>15. CASE Confirm
  <2>1. /\ Memory' /\ file' \in Config \union {Invalid}
        /\ pc = "telegram" /\ UNCHANGED <<pc, loop>> /\ ask' = NoAsk
    BY <1>15, <1>a, Confirmed DEF Confirm
  <2>2. CASE Persist
    BY <1>b, <2>1, <2>2, Saving
  <2>3. CASE ConfirmedPause /\ manual' = manual /\ UNCHANGED disk
    <3>1. UNCHANGED memory
      BY <2>3 DEF ConfirmedPause, SetPause, memory
    <3> QED
      BY <1>b, <2>1, <2>3, <3>1, Waiting
  <2> QED
    BY <1>15, <2>2, <2>3 DEF Confirm, SavePause
<1>16. CASE ConfirmRaises
  <2>1. Memory' /\ file' \in Config \union {Invalid}
    BY <1>16, <1>a, Confirmed
  <2> QED
    BY <1>16, <1>a, <1>b, <2>1
    DEF ConfirmRaises, IInv, Surroundings, StateOnDisk, PassesUnpaused
<1>17. CASE UNCHANGED vars
  BY <1>17, <1>b, Waiting DEF vars, memory, disk
<1> QED
  BY <1>1, <1>2, <1>3, <1>4, <1>5, <1>6, <1>7, <1>8, <1>9, <1>10, <1>11, <1>12, <1>13,
     <1>14, <1>15, <1>16, <1>17 DEF Next

LEMMA Invariance == Spec => []IInv
  BY Initially, Inductive, PTL DEF Spec

-----------------------------------------------------------------------------

\* The variables have their types, and no rejected file is ever in force.
THEOREM TypeCorrect == Spec => []TypeOK
<1>1. IInv => TypeOK
  BY DEF IInv, Memory, Surroundings, SavedType, TypeOK
<1> QED
  BY <1>1, Invariance, PTL

\* A manual pause outlives the process whenever it dies, and so do the
\* positions outside of a pass, but for a Telegram command that raised.
THEOREM StateKept == Spec => []StateOnDisk
<1>1. IInv => StateOnDisk
  BY DEF IInv
<1> QED
  BY <1>1, Invariance, PTL

\* The loop and its clients disagree on the configuration only under a safety
\* pause, or after a reload out of paper mode that raised half-way.
THEOREM ConfigAgreed == Spec => []OneConfigInForce
<1>1. IInv => OneConfigInForce
  BY DEF IInv, Memory, Agreed, OneConfigInForce
<1> QED
  BY <1>1, Invariance, PTL

\* No position is opened while a safety pause stands.
THEOREM PauseHolds == Spec => SafetyPauseHolds
<1> DEFINE Held == Running /\ safety /\ Running' /\ safety' => positions' \subseteq positions
<1>1. IInv /\ [Next]_vars => [Held]_vars
  <2> SUFFICES ASSUME IInv, Next, Running, safety, Running' PROVE positions' \subseteq positions
    OBVIOUS
  <2>a. Memory /\ file \in Config \union {Invalid} /\ ask \in Asks
    BY DEF IInv, Surroundings
  <2>1. pc # "pass"
    BY DEF IInv, PassesUnpaused
  <2>2. ~Pass /\ ~Start /\ ~HotkeyImport
    BY <2>1 DEF Pass, Start, HotkeyImport, Running
  <2>3. ~Crash /\ ~HotkeyQuit
    BY DEF Crash, HotkeyQuit, Off, Running
  <2>4. CASE HotkeyReload
    BY <2>4, <2>a, Reloads DEF HotkeyReload
  <2>5. CASE HotkeyPause
    BY <2>5 DEF HotkeyPause, SetPause
  <2>6. CASE Confirm \/ ConfirmRaises
    BY <2>6, <2>a, Confirms, Reloads, Pauses, Saves
  <2>7. CASE HotkeyClear
    BY <2>7 DEF HotkeyClear
  <2>8. CASE EditFile \/ RuntimeError \/ EndTelegram \/ EndWait \/ Ask \/ Expire
    BY <2>8 DEF EditFile, RuntimeError, EndTelegram, EndWait, Ask, Expire, memory
  <2> QED
    BY <2>2, <2>3, <2>4, <2>5, <2>6, <2>7, <2>8 DEF Next
<1> QED
  BY <1>1, Invariance, PTL DEF Spec, SafetyPauseHolds

\* A start without a safety pause, and a reload that lifts one, leave every
\* position with a rule.
THEOREM UnpausedIsManaged == Spec => PausesUnlessManaged
<1> DEFINE Managed == (safety \/ ~Running) /\ Running' /\ ~safety'
                      => positions' \subseteq config'.rules
<1>1. IInv /\ [Next]_vars => [Managed]_vars
  <2> SUFFICES ASSUME IInv, Next, safety \/ ~Running, Running', ~safety'
               PROVE  positions' \subseteq config'.rules
    OBVIOUS
  <2>a. Memory /\ file \in Config \union {Invalid} /\ ask \in Asks
    BY DEF IInv, Surroundings
  <2>1. CASE Start
    BY <2>1 DEF Start
  <2>2. CASE Pass
    BY <2>2 DEF Pass, IInv, PassesUnpaused, Running
  <2>3. CASE HotkeyReload
    BY <2>3, <2>a, Reloads DEF HotkeyReload, Pressed, Running
  <2>4. CASE Confirm \/ ConfirmRaises
    <3>1. Running
      BY <2>4 DEF Confirm, ConfirmRaises, Running
    <3>2. Reload \/ ReloadRaises
      BY <2>4, <2>a, <3>1, Confirms, Pauses, Saves
    <3> QED
      BY <2>a, <3>1, <3>2, Reloads
  <2>5. ~HotkeyPause
    BY DEF HotkeyPause, Pressed, SetPause, Running
  <2>6. ~Crash /\ ~HotkeyQuit
    BY DEF Crash, HotkeyQuit, Off, Running
  <2>7. ~(EditFile \/ RuntimeError \/ EndTelegram \/ EndWait
          \/ HotkeyImport \/ HotkeyClear \/ Ask \/ Expire)
    BY DEF EditFile, RuntimeError, EndTelegram, EndWait, HotkeyImport, HotkeyClear, Ask, Expire,
           Pressed, memory, Running
  <2> QED
    BY <2>1, <2>2, <2>3, <2>4, <2>5, <2>6, <2>7 DEF Next
<1> QED
  BY <1>1, Invariance, PTL DEF Spec, PausesUnlessManaged

-----------------------------------------------------------------------------
(* Reconciliation.                                                         *)
(*                                                                         *)
(* OkMeansTracked is about the end of a run.  On the way there the orders  *)
(* of the symbols read so far are in what was read, or were placed since;  *)
(* a symbol that could not be read has left an error; and a run compares   *)
(* only when all symbols were asked for.  RunInv says these.               *)

\* A row is of an order that was placed.
RowsPlaced == \A r \in DOMAIN rows : exchange[rows[r].order] # "none"

\* What was read of a symbol lists the orders that are live now, but for those
\* placed since.
ReadingHolds ==
    \A s \in rules : run.reading[s] = "ok" => LiveOrders(s) \subseteq run.visible \cup run.late

\* A symbol whose orders could not be read leaves an error.
ErrorsKept == \A s \in Pairs : run.reading[s] = "error" => run.errors

\* A snapshot is left when every symbol with a rule has been asked for.
AllAsked ==
    /\ at \in {"refresh", "compare"} /\ client => \A s \in rules : run.reading[s] # "unread"
    /\ at \in {"off", "starting", "loop"} => \A s \in Pairs : run.reading[s] = "unread"

RunInv == ReconTypeOK /\ RowsPlaced /\ ReadingHolds /\ ErrorsKept /\ AllAsked

LEMMA ReconStarts == ReconInit => RunInv
<1>. SUFFICES ASSUME ReconInit PROVE RunInv
  OBVIOUS
<1>1. NoRun \in Runs
  BY DEF NoRun, Runs, Reading
<1>2. extent \in Extent /\ extent.symbols \subseteq Pairs
  BY ExtentsAssumption DEF ReconInit, Extent
<1>3. rows = <<>> /\ rows \in Seq(Row) /\ DOMAIN rows = {}
  BY DEF ReconInit
<1>4. ReconTypeOK
  BY <1>1, <1>2, <1>3 DEF ReconInit, ReconTypeOK, Assets
<1>5. \A s \in Pairs : run.reading[s] = "unread"
  BY DEF ReconInit, NoRun
<1>. QED BY <1>2, <1>3, <1>4, <1>5 DEF RunInv, RowsPlaced, ReadingHolds, ErrorsKept, AllAsked, ReconInit, ReconTypeOK

\* No order is on the exchange before it is placed, and then it closes or gets live.
LEMMA AccountStep ==
    ASSUME RunInv, NEW o \in Orders, Place(o) \/ FillHalf(o) \/ Fill(o) \/ Cancel(o)
    PROVE  RunInv'
<1>. USE DEF RunInv
<1>1. SymbolOf[o] \in Assets /\ Cash \in Assets /\ SymbolOf[o] \in Pairs
  BY OrdersAssumption DEF Assets
<1>2. CASE Place(o)
  <2>1. exchange' = [exchange EXCEPT ![o] = "open"] /\ UNCHANGED <<rows, rules, client, metadata, at, extent>>
    BY <1>2 DEF Place
  <2>2. free' \subseteq Assets
    BY <1>2 DEF Place, ReconTypeOK
  <2>3. /\ run' \in Runs /\ run'.reading = run.reading /\ run'.visible = run.visible
        /\ run'.errors = run.errors /\ run.late \subseteq run'.late
        /\ run.reading[SymbolOf[o]] # "unread" => o \in run'.late
    BY <1>2 DEF Place, ReconTypeOK, Runs
  <2>4. ReconTypeOK'
    BY <2>1, <2>2, <2>3 DEF ReconTypeOK, Live, Terminal
  <2>5. RowsPlaced'
    BY <2>1 DEF RowsPlaced, ReconTypeOK
  <2>6. ReadingHolds'
    <3>1. \A s \in rules : LiveOrders(s)' \subseteq LiveOrders(s) \cup {q \in {o} : SymbolOf[o] = s}
      BY <2>1 DEF LiveOrders, ReconTypeOK
    <3>2. \A s \in rules : s \in Pairs
      BY DEF ReconTypeOK
    <3>. QED BY <2>1, <2>3, <3>1, <3>2 DEF ReadingHolds
  <2>. QED BY <2>1, <2>3, <2>4, <2>5, <2>6 DEF ErrorsKept, AllAsked
<1>3. CASE FillHalf(o) \/ Fill(o) \/ Cancel(o)
  <2>1. /\ exchange[o] \in Live /\ UNCHANGED <<rows, rules, client, metadata, at, run, extent>>
        /\ \E v \in Live \cup Terminal : exchange' = [exchange EXCEPT ![o] = v]
    BY <1>3 DEF FillHalf, Fill, Cancel, Live, Terminal
  <2>2. free' \subseteq Assets
    BY <1>1, <1>3 DEF FillHalf, Fill, Cancel, ReconTypeOK
  <2>3. ReconTypeOK'
    BY <2>1, <2>2 DEF ReconTypeOK
  <2>4. RowsPlaced'
    BY <2>1 DEF RowsPlaced, ReconTypeOK, Live, Terminal
  <2>5. \A s \in rules : LiveOrders(s)' \subseteq LiveOrders(s)
    BY <2>1 DEF LiveOrders, ReconTypeOK
  <2>. QED BY <2>1, <2>3, <2>4, <2>5 DEF ReadingHolds, ErrorsKept, AllAsked
<1>. QED BY <1>2, <1>3

\* A row is inserted or brought up to date by anyone.
LEMMA RowsStep ==
    ASSUME RunInv, UNCHANGED <<account, rules, client, metadata, at, extent>>,
           run' \in Runs, run'.reading = run.reading, run'.visible = run.visible,
           run'.late = run.late, run.errors => run'.errors,
           \/ \E o \in Orders : InsertRow(o)
           \/ UNCHANGED rows
           \/ \E r : rows' = Refreshed(r)
    PROVE  RunInv'
<1>. USE DEF RunInv
<1>1. rows \in Seq(Row) /\ exchange \in [Orders -> {"none"} \cup Live \cup Terminal]
  BY DEF ReconTypeOK
<1>2. UNCHANGED <<exchange, free, rules, client, metadata, at, extent>>
  BY DEF account
<1>3. rows' \in Seq(Row) /\ RowsPlaced'
  <2>1. CASE \E o \in Orders : InsertRow(o)
    <3>1. PICK o \in Orders, row \in Row : exchange[o] # "none" /\ row.order = o /\ rows' = Append(rows, row)
      <4>1. PICK o \in Orders : InsertRow(o)
        BY <2>1
      <4>2. PICK row \in [order : {o}, xid : BOOLEAN, state : {"open", exchange[o]}] :
               exchange[o] # "none" /\ rows' = Append(rows, row)
        BY <4>1 DEF InsertRow
      <4>3. row \in Row /\ row.order = o
        BY <1>1, <4>2 DEF Row, Live, Terminal
      <4>. QED BY <4>2, <4>3
    <3>2. rows' \in Seq(Row) /\ \A r \in DOMAIN rows' : rows'[r] = row \/ (r \in DOMAIN rows /\ rows'[r] = rows[r])
      <4>1. /\ rows' \in Seq(Row) /\ Len(rows') = Len(rows) + 1 /\ Len(rows) \in Nat
            /\ \A i \in 1 .. Len(rows) : rows'[i] = rows[i]
            /\ rows'[Len(rows) + 1] = row
        BY <1>1, <3>1, AppendProperties
      <4>2. DOMAIN rows = 1 .. Len(rows) /\ DOMAIN rows' = 1 .. Len(rows')
        BY <1>1, <4>1
      <4>. QED BY <4>1, <4>2
    <3>3. \A q \in DOMAIN rows' : exchange'[rows'[q].order] # "none"
      BY <1>2, <3>1, <3>2 DEF RowsPlaced
    <3>. QED BY <3>2, <3>3 DEF RowsPlaced
  <2>2. CASE UNCHANGED rows
    BY <1>1, <1>2, <2>2 DEF RowsPlaced
  <2>3. CASE \E r : rows' = Refreshed(r)
    <3>1. PICK r : rows' = [rows EXCEPT ![r].state = exchange[rows[r].order]]
      BY <2>3 DEF Refreshed
    <3>2. CASE r \notin DOMAIN rows
      <4>1. /\ rows \in [1 .. Len(rows) -> Row] /\ Len(rows) \in Nat
            /\ r \notin 1 .. Len(rows)
        BY <1>1, <3>2
      <4>2. /\ rows' \in [1 .. Len(rows) -> Row]
            /\ \A q \in 1 .. Len(rows) : rows'[q] = rows[q]
        BY <3>1, <4>1
      <4>3. rows' \in Seq(Row) /\ DOMAIN rows' = DOMAIN rows
        BY <4>1, <4>2
      <4>. QED BY <1>2, <4>1, <4>2, <4>3 DEF RowsPlaced
    <3>3. CASE r \in DOMAIN rows
      <4>1. rows[r] \in Row /\ exchange[rows[r].order] \in Live \cup Terminal
        <5>1. rows[r] \in Row
          BY <1>1, <3>3
        <5>2. rows[r].order \in Orders /\ exchange[rows[r].order] # "none"
          BY <3>3, <5>1 DEF RowsPlaced, Row
        <5>. QED BY <1>1, <5>1, <5>2
      <4>2. [rows[r] EXCEPT !.state = exchange[rows[r].order]] \in Row
        BY <4>1 DEF Row
      <4>3. [rows[r] EXCEPT !.state = exchange[rows[r].order]].order = rows[r].order
        BY <4>1 DEF Row
      <4>4. rows' = [rows EXCEPT ![r] = [rows[r] EXCEPT !.state = exchange[rows[r].order]]]
        BY <3>1
      <4>5. rows' \in Seq(Row) /\ DOMAIN rows' = DOMAIN rows
        <5>1. rows \in [1 .. Len(rows) -> Row] /\ Len(rows) \in Nat /\ DOMAIN rows = 1 .. Len(rows)
          BY <1>1
        <5>2. rows' \in [1 .. Len(rows) -> Row]
          BY <4>2, <4>4, <5>1
        <5>. QED BY <5>1, <5>2
      <4>6. \A q \in DOMAIN rows : rows'[q].order = rows[q].order
        BY <1>1, <3>3, <4>3, <4>4
      <4>. QED BY <1>2, <4>5, <4>6 DEF RowsPlaced
    <3>. QED BY <3>2, <3>3
  <2>. QED BY <2>1, <2>2, <2>3
<1>4. \A s : LiveOrders(s)' = LiveOrders(s)
  BY <1>2 DEF LiveOrders
<1>5. ReconTypeOK'
  BY <1>2, <1>3 DEF ReconTypeOK
<1>. QED BY <1>2, <1>3, <1>4, <1>5 DEF ReadingHolds, ErrorsKept, AllAsked

\* A symbol is read, or that fails.
LEMMA SnapshotStep ==
    ASSUME RunInv, NEW s \in Pairs, ReadSymbol(s) \/ SymbolFails(s)
    PROVE  RunInv'
<1>. USE DEF RunInv
<1>1. at = "snapshot" /\ UNCHANGED <<exchange, free, rows, rules, client, metadata, at, extent>>
  BY DEF ReadSymbol, SymbolFails, account
<1>2. PICK v \in {"ok", "error", "unsupported"} :
         /\ v = "ok" => LiveOrders(s) \subseteq run'.visible
         /\ run'.reading = [run.reading EXCEPT ![s] = v]
         /\ run' \in Runs /\ run.visible \subseteq run'.visible /\ run'.late = run.late
         /\ run.errors => run'.errors
         /\ v = "error" => run'.errors
  <2>1. LiveOrders(s) \subseteq Orders
    BY DEF LiveOrders
  <2>2. CASE ReadSymbol(s)
    <3>1. run' = [run EXCEPT !.reading[s] = "ok", !.visible = run.visible \cup LiveOrders(s)]
      BY <2>2 DEF ReadSymbol
    <3>2. run' \in Runs /\ run'.reading = [run.reading EXCEPT ![s] = "ok"]
          /\ run'.visible = run.visible \cup LiveOrders(s) /\ run'.late = run.late /\ run'.errors = run.errors
      <4>1. run \in Runs /\ run.reading \in [Pairs -> Reading] /\ run.visible \subseteq Orders
        BY DEF ReconTypeOK, Runs
      <4>2. [run.reading EXCEPT ![s] = "ok"] \in [Pairs -> Reading] /\ run.visible \cup LiveOrders(s) \in SUBSET Orders
        BY <2>1, <4>1 DEF Reading
      <4>3. run' = [run EXCEPT !.reading = [run.reading EXCEPT ![s] = "ok"], !.visible = run.visible \cup LiveOrders(s)]
        BY <3>1
      <4>. QED BY <4>1, <4>2, <4>3 DEF Runs
    <3>. QED BY <3>2
  <2>3. CASE SymbolFails(s)
    <3>1. PICK v \in {"error", "unsupported"} :
             run' = [run EXCEPT !.reading[s] = v, !.errors = run.errors \/ v = "error"]
      BY <2>3 DEF SymbolFails
    <3>2. run' \in Runs /\ run'.reading = [run.reading EXCEPT ![s] = v]
          /\ run'.visible = run.visible /\ run'.late = run.late /\ run'.errors = (run.errors \/ v = "error")
      BY <3>1 DEF Runs, ReconTypeOK, Reading
    <3>. QED BY <3>2
  <2>. QED BY <2>2, <2>3
<1>3. run.reading \in [Pairs -> Reading] /\ rules \subseteq Pairs
  BY DEF ReconTypeOK, Runs
<1>4. \A q : LiveOrders(q)' = LiveOrders(q)
  BY <1>1 DEF LiveOrders
<1>5. ReconTypeOK'
  BY <1>1, <1>2 DEF ReconTypeOK
<1>6. RowsPlaced'
  BY <1>1 DEF RowsPlaced
<1>7. ReadingHolds'
  BY <1>1, <1>2, <1>3, <1>4 DEF ReadingHolds
<1>8. ErrorsKept'
  BY <1>2, <1>3 DEF ErrorsKept
<1>. QED BY <1>1, <1>5, <1>6, <1>7, <1>8 DEF AllAsked

\* The engine starts or stops, a run begins or ends, or the rules change: nothing
\* is read.
LEMMA FreshStep ==
    ASSUME RunInv, StartUp \/ BeginFirst \/ BeginPeriodic \/ Compare \/ ChangeRules \/ Stop
    PROVE  RunInv'
<1>. USE DEF RunInv
<1>1. UNCHANGED <<exchange, free, rows, client, extent>>
  BY DEF StartUp, BeginFirst, BeginPeriodic, Begins, Compare, ChangeRules, Stop, account
<1>2. rules' \subseteq Pairs /\ (UNCHANGED rules \/ ChangeRules)
  BY DEF StartUp, BeginFirst, BeginPeriodic, Begins, Compare, ChangeRules, Stop, ReconTypeOK, Extent
<1>3. at' \in {"off", "starting", "snapshot", "compare", "loop"} /\ (at' = "compare" => ~client)
      /\ metadata' \in {"saved", "pending"}
  BY DEF StartUp, BeginFirst, BeginPeriodic, Begins, Compare, ChangeRules, Stop, ReconTypeOK
<1>4. NoRun \in Runs /\ \A s \in Pairs : NoRun.reading[s] = "unread"
  BY DEF NoRun, Runs, Reading
<1>5. OpenRows \in SUBSET Nat
  BY DEF OpenRows, ReconTypeOK
<1>6. run' \in Runs /\ \A s \in Pairs : run'.reading[s] = "unread"
  <2>1. CASE StartUp \/ ChangeRules
    BY <2>1 DEF StartUp, ChangeRules, AllAsked, ReconTypeOK
  <2>2. CASE Stop
    BY <1>4, <2>2 DEF Stop
  <2>3. CASE BeginFirst \/ BeginPeriodic
    <3>1. run' = [NoRun EXCEPT !.todo = IF client THEN OpenRows ELSE {}]
      BY <2>3 DEF BeginFirst, BeginPeriodic, Begins
    <3>. QED BY <1>4, <1>5, <3>1 DEF Runs
  <2>4. CASE Compare
    <3>1. PICK old \in {{}, OpenRows} :
             run' = [NoRun EXCEPT !.status = Status(Findings(old)),
                                  !.missing_locally = Findings(old).missing_locally]
      BY <2>4 DEF Compare
    <3>2. Status(Findings(old)) \in {"ok", "warning", "unavailable"}
      BY DEF Status
    <3>3. Findings(old).missing_locally \subseteq Orders
      BY DEF Findings, ReconTypeOK, Runs
    <3>. QED BY <1>4, <3>1, <3>2, <3>3 DEF Runs
  <2>. QED BY <2>1, <2>2, <2>3, <2>4
<1>7. ReconTypeOK'
  BY <1>1, <1>2, <1>3, <1>6 DEF ReconTypeOK
<1>. QED BY <1>1, <1>2, <1>3, <1>6, <1>7 DEF RowsPlaced, ReadingHolds, ErrorsKept, AllAsked

\* The balances are read, and the rows are refreshed one by one.
LEMMA BalancesStep ==
    ASSUME RunInv, ReadBalances \/ BalancesFail \/ RowsRefreshed
    PROVE  RunInv'
<1>. USE DEF RunInv
<1>1. UNCHANGED <<exchange, free, rows, rules, client, metadata, extent>> /\ at' \in {"refresh", "compare"}
  BY DEF ReadBalances, BalancesFail, RowsRefreshed, account
<1>2. \A s \in rules : client => run.reading[s] # "unread"
  BY DEF ReadBalances, BalancesFail, RowsRefreshed, SymbolsRead, Unread, AllAsked
<1>3. Reserved \subseteq Assets /\ free \subseteq Assets
  BY DEF Reserved, Assets, ReconTypeOK
<1>4. /\ run' \in Runs /\ run'.reading = run.reading /\ run'.visible = run.visible
      /\ run'.late = run.late /\ (run.errors => run'.errors)
  <2>1. CASE ReadBalances
    <3>1. run' = [run EXCEPT !.balances = TRUE, !.available = free, !.reserved = Reserved]
      BY <2>1 DEF ReadBalances
    <3>. QED BY <1>3, <3>1 DEF Runs, ReconTypeOK
  <2>2. CASE BalancesFail
    <3>1. PICK read \in BOOLEAN, a \in SUBSET Assets, b \in SUBSET Assets :
             run' = [run EXCEPT !.errors = TRUE, !.balances = read, !.available = a, !.reserved = b]
      BY <1>3, <2>2 DEF BalancesFail
    <3>. QED BY <3>1 DEF Runs, ReconTypeOK
  <2>3. CASE RowsRefreshed
    BY <2>3 DEF RowsRefreshed, ReconTypeOK
  <2>. QED BY <2>1, <2>2, <2>3
<1>5. \A s : LiveOrders(s)' = LiveOrders(s)
  BY <1>1 DEF LiveOrders
<1>6. ReconTypeOK'
  BY <1>1, <1>4 DEF ReconTypeOK
<1>. QED BY <1>1, <1>2, <1>4, <1>5, <1>6 DEF RowsPlaced, ReadingHolds, ErrorsKept, AllAsked

LEMMA RunInvariance == ReconSpec => []RunInv
<1>1. RunInv /\ [ReconNext]_recon => RunInv'
  <2>. SUFFICES ASSUME RunInv, [ReconNext]_recon PROVE RunInv'
    OBVIOUS
  <2>1. CASE UNCHANGED recon
    BY <2>1 DEF recon, RunInv, ReconTypeOK, RowsPlaced, ReadingHolds, ErrorsKept, AllAsked, LiveOrders
  <2>2. CASE \E o \in Orders : Place(o) \/ FillHalf(o) \/ Fill(o) \/ Cancel(o)
    BY <2>2, AccountStep
  <2>3. CASE (\E o \in Orders : InsertRow(o)) \/ \E r \in DOMAIN rows : RefreshElsewhere(r)
    <3>1. UNCHANGED <<account, rules, client, metadata, at, extent>> /\ UNCHANGED run
          /\ ((\E o \in Orders : InsertRow(o)) \/ \E r : rows' = Refreshed(r))
      BY <2>3 DEF InsertRow, RefreshElsewhere
    <3>2. run' \in Runs
      BY <3>1 DEF RunInv, ReconTypeOK
    <3>. QED BY <3>1, <3>2, RowsStep
  <2>4. CASE RefreshRow
    <3>1. UNCHANGED <<account, rules, client, metadata, at, extent>>
      BY <2>4 DEF RefreshRow
    <3>2. PICK r : \/ rows' = Refreshed(r) /\ run' = [run EXCEPT !.todo = @ \ {r}]
                   \/ UNCHANGED rows /\ run' = [run EXCEPT !.todo = @ \ {r}, !.errors = TRUE]
      BY <2>4 DEF RefreshRow
    <3>3. run \in Runs /\ run.todo \ {r} \in SUBSET Nat
      BY DEF RunInv, ReconTypeOK, Runs
    <3>4. /\ run' \in Runs /\ run'.reading = run.reading /\ run'.visible = run.visible
          /\ run'.late = run.late /\ (run.errors => run'.errors)
      <4>1. CASE run' = [run EXCEPT !.todo = @ \ {r}]
        BY <3>3, <4>1 DEF Runs
      <4>2. CASE run' = [run EXCEPT !.todo = @ \ {r}, !.errors = TRUE]
        <5>1. run' = [[run EXCEPT !.todo = run.todo \ {r}] EXCEPT !.errors = TRUE]
          BY <4>2
        <5>. DEFINE kept == [run EXCEPT !.todo = run.todo \ {r}]
        <5>2. /\ kept \in Runs /\ kept.reading = run.reading /\ kept.visible = run.visible
              /\ kept.late = run.late
          BY <3>3 DEF Runs
        <5>. HIDE DEF kept
        <5>3. run' = [kept EXCEPT !.errors = TRUE]
          BY <5>1 DEF kept
        <5>. QED BY <5>2, <5>3 DEF Runs
      <4>. QED BY <3>2, <4>1, <4>2
    <3>5. UNCHANGED rows \/ \E q : rows' = Refreshed(q)
      BY <3>2
    <3>. QED BY <2>4, <3>1, <3>4, <3>5, RowsStep
  <2>5. CASE \E s \in Pairs : ReadSymbol(s) \/ SymbolFails(s)
    BY <2>5, SnapshotStep
  <2>6. CASE StartUp \/ BeginFirst \/ BeginPeriodic \/ Compare \/ ChangeRules \/ Stop
    BY <2>6, FreshStep
  <2>7. CASE ReadBalances \/ BalancesFail \/ RowsRefreshed
    BY <2>7, BalancesStep
  <2>. QED BY <2>1, <2>2, <2>3, <2>4, <2>5, <2>6, <2>7 DEF ReconNext, ReconStep, Run, Elsewhere
<1>. QED BY <1>1, ReconStarts, PTL DEF ReconSpec

\* The readings of a run are well typed, whoever works on the account meanwhile.
THEOREM RunsTypeCorrect == ReconSpec => []ReconTypeOK
<1>1. RunInv => ReconTypeOK
  BY DEF RunInv
<1>. QED BY <1>1, RunInvariance, PTL

\* OkMeansTracked, for any number of symbols, orders and sessions: a run that is
\* about to say that all is well knows an open row for every live order of the
\* symbols it could read, but for those placed after their symbol was read.
THEOREM OkIsTracked == ReconSpec => []OkMeansTracked
<1>1. RunInv => OkMeansTracked
  <2>. SUFFICES ASSUME RunInv, at = "compare", client, Status(Findings({})) = "ok",
                       NEW s \in rules, run.reading[s] # "unsupported", NEW o \in LiveOrders(s), o \notin run.late
                PROVE  HasRow(o, OpenRows)
    BY DEF OkMeansTracked
  <2>1. Findings({}) = NoFindings /\ ~run.errors
    BY DEF Status
  <2>2. \A q \in run.visible : HasRow(q, OpenRows)
    <3>1. Findings({}).missing_locally = {q \in run.visible : ~HasRow(q, OpenRows)}
      BY DEF Findings
    <3>2. NoFindings.missing_locally = {}
      BY DEF NoFindings
    <3>. QED BY <2>1, <3>1, <3>2
  <2>3. run.reading[s] = "ok"
    BY <2>1 DEF RunInv, ErrorsKept, AllAsked, ReconTypeOK, Runs, Reading
  <2>. QED BY <2>2, <2>3 DEF RunInv, ReadingHolds
<1>. QED BY <1>1, RunInvariance, PTL
=============================================================================

------------------------- MODULE PaperTrading_proofs -------------------------
(***************************************************************************)
(* The daily limit, the trade log and the rest after a sale, for any set   *)
(* of symbols, any limit and any number of crashes.                        *)
(*                                                                         *)
(* Each of the three is about the book in memory, and a crash replaces the *)
(* book by the saved one: IInv says the same of what a start would restore,*)
(* which in the middle of a pass lags behind by one turn of each symbol.   *)
(***************************************************************************)
EXTENDS PaperTrading, TLAPS

\* What Start would make of the saved entry of s.
Restored(s) == Today(saved.book, saved.today)[s]

\* A position that is open may still be closed today.
Bounded(s, entry) ==
    entry.trades + (IF entry.open THEN 1 ELSE 0) <= MaxTrades + imports[s]

\* s had its turn in the pass, and the state was not saved since.
Had(s) == pc = "pass" /\ s \notin todo

LogCovered(s) ==
    /\ log[s] <= book[s].trades + slips
    /\ log[s] <= Restored(s).trades + slips + (IF Had(s) THEN 1 ELSE 0)

\* A symbol that rests cannot be bought: it cools down, or the position that
\* was sold is open again.
Rests(s, entry) == resting[s] => entry.cooling \/ entry.open

\* Until its turn, the position of s is as it was saved.
SavedBeforeTurn(s) == pc # "off" /\ ~Had(s) => Restored(s).open = book[s].open

SymbolOK(s) ==
    /\ Bounded(s, book[s]) /\ Bounded(s, Restored(s))
    /\ LogCovered(s)
    /\ Rests(s, book[s]) /\ Rests(s, Restored(s))
    /\ SavedBeforeTurn(s)

IInv == TypeOK /\ \A s \in Symbols : SymbolOK(s)

-----------------------------------------------------------------------------

\* Another day leaves everything of a book but its counters.
LEMMA TodayKeeps ==
    ASSUME NEW b \in [Symbols -> Entry], NEW isToday \in BOOLEAN
    PROVE  /\ Today(b, isToday) \in [Symbols -> Entry]
           /\ \A s \in Symbols :
                /\ Today(b, isToday)[s].open = b[s].open
                /\ Today(b, isToday)[s].inBuy = b[s].inBuy
                /\ Today(b, isToday)[s].cooling = b[s].cooling
                /\ Today(b, isToday)[s].trades = IF isToday THEN b[s].trades ELSE 0
BY DEF Today, Entry

\* Restored as a saved entry.
LEMMA RestoredEntry ==
    ASSUME TypeOK, NEW s \in Symbols
    PROVE  /\ book[s] \in Entry /\ saved.book[s] \in Entry /\ Restored(s) \in Entry
           /\ Restored(s).open = saved.book[s].open
           /\ Restored(s).cooling = saved.book[s].cooling
           /\ Restored(s).trades = IF saved.today THEN saved.book[s].trades ELSE 0
           /\ saved.today \in BOOLEAN
           /\ log[s] \in Nat /\ imports[s] \in Nat /\ slips \in Nat /\ resting[s] \in BOOLEAN
BY TodayKeeps DEF TypeOK, Restored

LEMMA InitIInv == Init => IInv
<1> SUFFICES ASSUME Init PROVE IInv
  OBVIOUS
<1>1. TypeOK
  BY DEF Init, TypeOK, Entry, NoEntry, Zeros
<1>2. ASSUME NEW s \in Symbols PROVE SymbolOK(s)
  <2>1. book[s] = NoEntry /\ saved.book[s] = NoEntry
    BY DEF Init
  <2> QED
    BY <1>1, <2>1, RestoredEntry, MaxTradesAssumption
    DEF Init, SymbolOK, Bounded, LogCovered, Rests, SavedBeforeTurn, NoEntry, Zeros
<1> QED BY <1>1, <1>2 DEF IInv

-----------------------------------------------------------------------------
(* The types.                                                              *)

LEMMA PersistType ==
    ASSUME NEW b \in [Symbols -> Entry], Persist(b)
    PROVE  book' \in [Symbols -> Entry] /\ saved' \in [book : [Symbols -> Entry], today : BOOLEAN]
BY DEF Persist

LEMMA NextType == TypeOK /\ [Next]_vars => TypeOK'
<1> SUFFICES ASSUME TypeOK, [Next]_vars PROVE TypeOK'
  OBVIOUS
<1> USE DEF TypeOK
<1>1. CASE Start
  BY <1>1, TodayKeeps DEF Start
<1>2. CASE Crash
  <2>1. /\ pc' = "off" /\ todo' = {} /\ late' = FALSE
        /\ UNCHANGED <<book, saved, log, imports, resting>>
    BY <1>2 DEF Crash
  <2>2. slips' \in Nat
    BY <1>2 DEF Crash
  <2> QED BY <2>1, <2>2
<1>3. CASE BeginPass
  BY <1>3 DEF BeginPass
<1>4. CASE EndPass
  BY <1>4, PersistType DEF EndPass
<1>5. ASSUME NEW s \in Symbols, Enter(s) PROVE TypeOK'
  BY <1>5 DEF Enter, Turn, Entry
<1>6. ASSUME NEW s \in Symbols, Exit(s) PROVE TypeOK'
  <2>1. PICK inBuy \in BOOLEAN :
           book' = [book EXCEPT ![s] = [open |-> FALSE, inBuy |-> inBuy, cooling |-> TRUE,
                                        trades |-> book[s].trades + 1]]
    BY <1>6 DEF Exit
  <2>2. book' \in [Symbols -> Entry]
    BY <2>1 DEF Entry
  <2>3. log' \in [Symbols -> Nat]
    BY <1>6 DEF Exit, Logged
  <2> QED BY <1>6, <2>2, <2>3 DEF Exit, Turn
<1>7. ASSUME NEW s \in Symbols, Keep(s) PROVE TypeOK'
  BY <1>7 DEF Keep, Turn, Entry
<1>8. ASSUME NEW s \in Symbols, Fail(s) PROVE TypeOK'
  <2>1. ASSUME NEW inBuy \in BOOLEAN PROVE [book EXCEPT ![s].inBuy = inBuy] \in [Symbols -> Entry]
    BY DEF Entry
  <2>2. PICK inBuy \in BOOLEAN : Persist([book EXCEPT ![s].inBuy = inBuy])
    BY <1>8 DEF Fail
  <2>3. book' \in [Symbols -> Entry] /\ saved' \in [book : [Symbols -> Entry], today : BOOLEAN]
    BY <2>1, <2>2, PersistType
  <2>4. log' \in [Symbols -> Nat]
    BY <1>8 DEF Fail, Logged
  <2>5. pc' = "idle" /\ todo' = {} /\ late' = FALSE /\ UNCHANGED <<imports, resting>>
    BY <1>8 DEF Fail
  <2>6. slips' \in Nat
    BY <1>8 DEF Fail
  <2> QED BY <2>3, <2>4, <2>5, <2>6
<1>9. ASSUME NEW s \in Symbols, CooldownEnds(s) PROVE TypeOK'
  BY <1>9 DEF CooldownEnds, Entry
<1>10. ASSUME NEW chosen \in SUBSET Symbols, ImportWallet(chosen) PROVE TypeOK'
  <2>1. [s \in Symbols |-> IF s \in chosen THEN [book[s] EXCEPT !.open = TRUE] ELSE book[s]]
           \in [Symbols -> Entry]
    BY DEF Entry
  <2>2. imports' \in [Symbols -> Nat]
    BY <1>10 DEF ImportWallet
  <2> QED BY <1>10, <2>1, <2>2, PersistType DEF ImportWallet
<1>11. ASSUME NEW chosen \in SUBSET Symbols, Drop(chosen) PROVE TypeOK'
  <2>1. [s \in Symbols |-> IF s \in chosen
                           THEN [book[s] EXCEPT !.open = FALSE, !.cooling = FALSE]
                           ELSE book[s]] \in [Symbols -> Entry]
    BY DEF Entry
  <2>2. [s \in Symbols |-> resting[s] /\ s \notin chosen] \in [Symbols -> BOOLEAN]
    OBVIOUS
  <2> QED BY <1>11, <2>1, <2>2, PersistType DEF Drop
<1>12. CASE NewDay
  BY <1>12, TodayKeeps DEF NewDay, Zeros
<1>13. CASE UNCHANGED vars
  BY <1>13 DEF vars
<1> QED
  BY <1>1, <1>2, <1>3, <1>4, <1>5, <1>6, <1>7, <1>8, <1>9, <1>10, <1>11, <1>12, <1>13 DEF Next, ClearPositions, ReloadPrunes

-----------------------------------------------------------------------------
(* The invariant.                                                          *)

\* Everything the steps are about, of one symbol and in the next state.
LEMMA RestoredNext ==
    ASSUME TypeOK', NEW s \in Symbols
    PROVE  /\ book'[s] \in Entry /\ saved'.book[s] \in Entry /\ Restored(s)' \in Entry
           /\ Restored(s)'.open = saved'.book[s].open
           /\ Restored(s)'.cooling = saved'.book[s].cooling
           /\ Restored(s)'.trades = IF saved'.today THEN saved'.book[s].trades ELSE 0
           /\ saved'.today \in BOOLEAN
           /\ log'[s] \in Nat /\ imports'[s] \in Nat /\ slips' \in Nat /\ resting'[s] \in BOOLEAN
BY TodayKeeps DEF TypeOK, Restored

\* A step that saves the book and ends or stays out of a pass has to keep what
\* is said of the book only.
LEMMA SavedStep ==
    ASSUME TypeOK', NEW s \in Symbols,
           saved' = [book |-> book', today |-> TRUE], pc' # "pass",
           Bounded(s, book[s])', log'[s] <= book'[s].trades + slips', Rests(s, book[s])'
    PROVE  SymbolOK(s)'
<1>1. /\ Restored(s)'.open = book'[s].open
      /\ Restored(s)'.cooling = book'[s].cooling
      /\ Restored(s)'.trades = book'[s].trades
  BY RestoredNext
<1> QED
  BY <1>1, RestoredNext, MaxTradesAssumption
  DEF SymbolOK, Bounded, LogCovered, Rests, SavedBeforeTurn, Had, Entry

LEMMA NextIInv == IInv /\ [Next]_vars => IInv'
<1> SUFFICES ASSUME IInv, [Next]_vars, TypeOK, TypeOK', NEW s \in Symbols PROVE SymbolOK(s)'
  BY NextType DEF IInv
<1> DEFINE now == book[s]
           next == book'[s]
           r == Restored(s)
<1>0. SymbolOK(s)
  BY DEF IInv
<1> USE RestoredEntry, RestoredNext, MaxTradesAssumption, <1>0
        DEF SymbolOK, Bounded, LogCovered, Rests, SavedBeforeTurn, Had
<1>1. CASE Start
  <2>1. book'[s] = Restored(s) /\ Restored(s)' = Restored(s)
    BY <1>1 DEF Start, Restored
  <2> QED BY <1>1, <2>1 DEF Start, Entry
<1>2. CASE Crash
  BY <1>2 DEF Crash, Entry, Restored
<1>3. CASE BeginPass
  BY <1>3 DEF BeginPass, Entry, Restored
<1>4. CASE EndPass
  BY <1>4, SavedStep DEF EndPass, Persist
<1>5. ASSUME NEW t \in Symbols, Enter(t) PROVE SymbolOK(s)'
  <2>1. /\ t # s => next = now
        /\ t = s => ~now.open /\ next.open /\ next.trades = now.trades /\ next.trades < MaxTrades
    BY <1>5 DEF Enter, CanOpenNewTrade, Entry, TypeOK
  <2>2. /\ todo' = todo \ {t} /\ pc = "pass" /\ Restored(s)' = r
        /\ UNCHANGED <<pc, saved, log, imports, resting, slips>>
    BY <1>5 DEF Enter, Turn, Restored
  <2> QED BY <2>1, <2>2 DEF Entry
<1>6. ASSUME NEW t \in Symbols, Exit(t) PROVE SymbolOK(s)'
  <2>1. /\ t # s => next = now
        /\ t = s => now.open /\ ~next.open /\ next.cooling /\ next.trades = now.trades + 1
    <3>1. PICK inBuy \in BOOLEAN :
             book' = [book EXCEPT ![t] = [open |-> FALSE, inBuy |-> inBuy, cooling |-> TRUE,
                                          trades |-> book[t].trades + 1]]
      BY <1>6 DEF Exit
    <3> QED BY <1>6, <3>1 DEF Exit, Entry, TypeOK
  <2>3. t # s => log'[s] = log[s]
    BY <1>6 DEF Exit, Logged, TypeOK
  <2>4. log'[s] <= log[s] + 1
    BY <1>6 DEF Exit, Logged, TypeOK
  <2>5. t # s => resting'[s] = resting[s]
    BY <1>6 DEF Exit, TypeOK
  <2>2. /\ todo' = todo \ {t} /\ pc = "pass" /\ t \in todo /\ Restored(s)' = r
        /\ UNCHANGED <<pc, saved, imports, slips>>
    BY <1>6 DEF Exit, Turn, Restored
  <2> QED BY <2>1, <2>2, <2>3, <2>4, <2>5 DEF Entry
<1>7. ASSUME NEW t \in Symbols, Keep(t) PROVE SymbolOK(s)'
  <2>1. next.open = now.open /\ next.cooling = now.cooling /\ next.trades = now.trades
    BY <1>7 DEF Keep, Entry, TypeOK
  <2>2. /\ todo' = todo \ {t} /\ pc = "pass" /\ Restored(s)' = r
        /\ UNCHANGED <<pc, saved, log, imports, resting, slips>>
    BY <1>7 DEF Keep, Turn, Restored
  <2> QED BY <2>1, <2>2 DEF Entry
<1>8. ASSUME NEW t \in Symbols, Fail(t) PROVE SymbolOK(s)'
  <2>1. PICK inBuy \in BOOLEAN : Persist([book EXCEPT ![t].inBuy = inBuy])
    BY <1>8 DEF Fail
  <2>2. next.open = now.open /\ next.cooling = now.cooling /\ next.trades = now.trades
    BY <2>1 DEF Persist, Entry, TypeOK
  <2>3. log'[s] <= log[s] + 1
    BY <1>8 DEF Fail, Logged, TypeOK
  <2>4. /\ saved' = [book |-> book', today |-> TRUE] /\ pc' # "pass" /\ slips' = slips + 1
        /\ UNCHANGED <<imports, resting>>
    BY <1>8, <2>1 DEF Fail, Persist
  <2> QED BY <2>2, <2>3, <2>4, SavedStep DEF Entry
<1>9. ASSUME NEW t \in Symbols, CooldownEnds(t) PROVE SymbolOK(s)'
  <2>1. /\ next.open = now.open /\ next.trades = now.trades
        /\ t # s => next.cooling = now.cooling
    <3>1. /\ book' = [book EXCEPT ![t].cooling = FALSE]
          /\ book \in [Symbols -> [open : BOOLEAN, inBuy : BOOLEAN, cooling : BOOLEAN, trades : Nat]]
      BY <1>9 DEF CooldownEnds, Entry, TypeOK
    <3>2. CASE t = s
      BY <3>1, <3>2
    <3>3. CASE t # s
      BY <3>1, <3>3
    <3> QED BY <3>2, <3>3
  <2>3. IF t = s THEN ~resting'[s] ELSE resting'[s] = resting[s]
    BY <1>9 DEF CooldownEnds, TypeOK
  <2>2. Restored(s)' = r /\ UNCHANGED <<pc, todo, saved, log, imports, slips>>
    BY <1>9 DEF CooldownEnds, Restored
  <2> QED BY <2>1, <2>2, <2>3 DEF Entry
<1>10. ASSUME NEW chosen \in SUBSET Symbols, ImportWallet(chosen) PROVE SymbolOK(s)'
  <2>1. /\ s \notin chosen => next = now /\ imports'[s] = imports[s]
        /\ s \in chosen => /\ ~now.open /\ next.open /\ next.cooling = now.cooling
                           /\ next.trades = now.trades /\ imports'[s] = imports[s] + 1
    BY <1>10 DEF ImportWallet, Persist, Entry, TypeOK
  <2>2. /\ saved' = [book |-> book', today |-> TRUE] /\ pc' # "pass"
        /\ UNCHANGED <<log, resting, slips>>
    BY <1>10 DEF ImportWallet, Persist
  <2> QED BY <2>1, <2>2, SavedStep DEF Entry
<1>11. ASSUME NEW chosen \in SUBSET Symbols, Drop(chosen) PROVE SymbolOK(s)'
  <2>1. /\ s \notin chosen => next = now
        /\ s \in chosen => ~next.open /\ next.trades = now.trades
    <3>1. next = IF s \in chosen THEN [now EXCEPT !.open = FALSE, !.cooling = FALSE] ELSE now
      BY <1>11 DEF Drop, Persist
    <3>2. now \in [open : BOOLEAN, inBuy : BOOLEAN, cooling : BOOLEAN, trades : Nat]
      BY DEF Entry
    <3> QED BY <3>1, <3>2
  <2>3. resting'[s] => resting[s] /\ s \notin chosen
    BY <1>11 DEF Drop
  <2>2. /\ saved' = [book |-> book', today |-> TRUE] /\ pc' # "pass"
        /\ UNCHANGED <<log, imports, slips>>
    BY <1>11 DEF Drop, Persist
  <2> QED BY <2>1, <2>2, <2>3, SavedStep DEF Entry
<1>12. CASE NewDay
  <2>1. next.open = now.open /\ next.cooling = now.cooling /\ next.trades = 0
    <3>1. book' = Today(book, FALSE) /\ book \in [Symbols -> Entry]
      BY <1>12 DEF NewDay, TypeOK
    <3> QED BY <3>1, TodayKeeps
  <2>3. log'[s] = 0 /\ imports'[s] = 0 /\ slips' = 0
    BY <1>12 DEF NewDay, Zeros
  <2>2. ~saved'.today /\ saved'.book = saved.book /\ UNCHANGED <<pc, todo, resting>>
    BY <1>12 DEF NewDay, TypeOK
  <2> QED BY <2>1, <2>2, <2>3 DEF Entry
<1>13. CASE UNCHANGED vars
  BY <1>13 DEF vars, Entry, Restored
<1> QED
  BY <1>1, <1>2, <1>3, <1>4, <1>5, <1>6, <1>7, <1>8, <1>9, <1>10, <1>11, <1>12, <1>13 DEF Next, ClearPositions, ReloadPrunes

\* The invariant holds of the book and of the saved one, through every pass, crash and
\* midnight.
THEOREM Invariance == Spec => []IInv
BY InitIInv, NextIInv, PTL DEF Spec

-----------------------------------------------------------------------------

\* The book, the saved book and the log have their types.
THEOREM TypeCorrect == Spec => []TypeOK
BY Invariance, PTL DEF IInv

\* No symbol closes more trades in a day than its rule and the wallet imports
\* allow, whatever is restored and whenever midnight comes.
THEOREM LimitHolds == Spec => []TradesWithinLimit
<1>1. IInv => TradesWithinLimit
  <2> SUFFICES ASSUME IInv, NEW s \in Symbols
               PROVE  book[s].trades <= MaxTrades + imports[s]
    BY DEF TradesWithinLimit
  <2> QED BY RestoredEntry, MaxTradesAssumption DEF IInv, SymbolOK, Bounded, Entry
<1> QED BY <1>1, Invariance, PTL

\* The trade log has no row too many but one for each crash and failed pass.
THEOREM LogExact == Spec => []SalesLoggedOnce
<1>1. IInv => SalesLoggedOnce
  BY DEF IInv, SymbolOK, LogCovered, SalesLoggedOnce
<1> QED BY <1>1, Invariance, PTL

\* A symbol is not bought before its rest is over, across restarts too.
THEOREM RestKept == Spec => RestBeforeReentry
<1>1. IInv /\ [Next]_vars =>
        [\A s \in Symbols : pc = "pass" /\ ~book[s].open /\ book'[s].open => ~resting[s]]_vars
  <2> SUFFICES ASSUME IInv, Next, NEW s \in Symbols, pc = "pass", ~book[s].open, book'[s].open
               PROVE  ~resting[s]
    OBVIOUS
  <2> USE DEF IInv, TypeOK, Entry
  <2>1. ASSUME NEW t \in Symbols, Enter(t) PROVE ~resting[s]
    <3>1. t = s
      BY <2>1 DEF Enter
    <3> QED BY <2>1, <3>1, RestoredEntry DEF Enter, SymbolOK, Rests
  <2>2. ASSUME NEW t \in Symbols, Exit(t) \/ Keep(t) PROVE FALSE
    BY <2>2 DEF Exit, Keep
  <2>3. ASSUME NEW t \in Symbols, Fail(t) PROVE FALSE
    BY <2>3 DEF Fail, Persist
  <2>4. ASSUME NEW t \in Symbols, CooldownEnds(t) PROVE FALSE
    BY <2>4 DEF CooldownEnds
  <2>5. ~NewDay
    <3>1. Today(book, FALSE)[s].open = book[s].open
      BY TodayKeeps
    <3> QED BY <3>1 DEF NewDay
  <2>6. ~Start /\ ~BeginPass /\ ~ClearPositions
    BY DEF Start, BeginPass, ClearPositions, Drop
  <2>7. ASSUME NEW chosen \in SUBSET Symbols PROVE ~ImportWallet(chosen) /\ ~ReloadPrunes(chosen)
    BY DEF ImportWallet, ReloadPrunes, Drop
  <2>8. ~Crash /\ ~EndPass
    BY DEF Crash, EndPass, Persist
  <2> QED BY <2>1, <2>2, <2>3, <2>4, <2>5, <2>6, <2>7, <2>8 DEF Next
<1> QED BY <1>1, Invariance, PTL DEF Spec, RestBeforeReentry
=============================================================================

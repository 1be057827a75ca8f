-------------------------- MODULE Proposals_proofs --------------------------
(***************************************************************************)
(* What the Strategy Inbox can be relied on for: what its tiers mean, and  *)
(* one case in which they do not do what they are said to; and that the    *)
(* ledger, its notes and any number of sessions, symbols and rules keep    *)
(* to the decisions that were made.                                        *)
(***************************************************************************)
EXTENDS Proposals, ProposalTiers, FiniteSetTheorems, SequenceTheorems, TLAPS

-----------------------------------------------------------------------------
(* ProposalTiers.                                                          *)

\* A score is a sum of bounded parts, of which the two that depend on the profit
\* grow with it.
LEMMA Parts ==
    ASSUME NEW p \in Int, NEW q \in Int, p <= q
    PROVE  /\ EdgeScore(p) \in Int /\ PnlScore(p) \in Int
           /\ EdgeScore(q) \in Int /\ PnlScore(q) \in Int
           /\ EdgeScore(p) <= EdgeScore(q) /\ PnlScore(p) <= PnlScore(q)
BY DEF EdgeScore, PnlScore, AtMost, AtLeast

\* A higher profit, all else being the same, never puts a rule update into a
\* lower tier, whatever the profit of the current rule.
THEOREM BetterRanksNoLower ==
    ASSUME NEW best \in Replay, NEW more \in Int, more >= best.pnl,
           NEW baseline \in Int, NEW fresh \in Freshness
    PROVE  Rank(UpdateTier(best, baseline, fresh))
              <= Rank(UpdateTier([best EXCEPT !.pnl = more], baseline, fresh))
<1>. DEFINE good == [best EXCEPT !.pnl = more]
<1>1. /\ good.pnl = more /\ good.trades = best.trades /\ good.win = best.win /\ good.fee = best.fee
      /\ best.pnl \in Int
  BY DEF Replay
<1>3. /\ EdgeScore(best.pnl - baseline) \in Int /\ EdgeScore(more - baseline) \in Int
      /\ EdgeScore(best.pnl - baseline) <= EdgeScore(more - baseline)
  <2>1. best.pnl - baseline \in Int /\ more - baseline \in Int /\ best.pnl - baseline <= more - baseline
    BY <1>1
  <2>. QED BY <2>1, Parts
<1>4. /\ PnlScore(best.pnl) \in Int /\ PnlScore(more) \in Int /\ PnlScore(best.pnl) <= PnlScore(more)
  BY <1>1, Parts
<1>5. /\ UpdateConfidence(best, baseline, fresh) \in Int /\ UpdateConfidence(good, baseline, fresh) \in Int
      /\ UpdateConfidence(best, baseline, fresh) <= UpdateConfidence(good, baseline, fresh)
  <2>1. /\ TradesScore(best.trades) \in Int /\ WinScore(best.win) \in Int
        /\ FeeScore(best.fee) \in Int /\ AgeScore(fresh) \in Int
    BY DEF TradesScore, WinScore, FeeScore, AgeScore, Replay
  <2>2. \A x, y \in Int : x <= y => /\ Confidence(x) \in Int /\ Confidence(y) \in Int
                                    /\ Confidence(x) <= Confidence(y)
    BY DEF Confidence, AtMost, AtLeast
  <2>3. PICK low \in Int : low = 400 + EdgeScore(best.pnl - baseline) + PnlScore(best.pnl)
            + TradesScore(best.trades) + WinScore(best.win) + FeeScore(best.fee) + AgeScore(fresh)
    BY <1>3, <1>4, <2>1
  <2>4. PICK high \in Int : high = 400 + EdgeScore(more - baseline) + PnlScore(more)
            + TradesScore(best.trades) + WinScore(best.win) + FeeScore(best.fee) + AgeScore(fresh)
    BY <1>3, <1>4, <2>1
  <2>5. low <= high
    BY <1>3, <1>4, <2>1, <2>3, <2>4
  <2>6. UpdateConfidence(best, baseline, fresh) = Confidence(low)
    BY <2>3 DEF UpdateConfidence
  <2>7. UpdateConfidence(good, baseline, fresh) = Confidence(high)
    BY <1>1, <2>4 DEF UpdateConfidence
  <2>. QED BY <2>2, <2>5, <2>6, <2>7
<1>6. UpdateWarned(good) <=> UpdateWarned(best)
  BY <1>1 DEF UpdateWarned
<1>7. \A c, d \in Int : c <= d => Rank(UpdateTierAt(c, best, baseline, fresh))
                                    <= Rank(UpdateTierAt(d, good, baseline, fresh))
  <2>. SUFFICES ASSUME NEW c \in Int, NEW d \in Int, c <= d
                PROVE  Rank(UpdateTierAt(c, best, baseline, fresh))
                          <= Rank(UpdateTierAt(d, good, baseline, fresh))
    OBVIOUS
  <2>1. /\ Rank("BLOCKED") = 0 /\ Rank("NEEDS_REVIEW") = 1
        /\ Rank("RECOMMENDED") = 2 /\ Rank("AUTO_APPROVE") = 3
    BY DEF Rank
  <2>. HIDE DEF good
  <2>. QED BY <1>1, <1>6, <2>1 DEF UpdateTierAt
<1>. QED BY <1>5, <1>7 DEF UpdateTier

\* Every prune of a recompute that nothing stands against is recommended at
\* least.  It is ticked if the lab recommends it and is sure of it, or lost with
\* it, or its fees eat the profit; or if the lab is only sure, and lost with it.
THEOREM PrunesTicked ==
    ASSUME NEW row \in Tuning, NEW k \in Knowledge, IsPrune(row), HardBlocks(k) = {}
    PROVE  /\ PruneTier(row, k) \in {"RECOMMENDED", "AUTO_APPROVE"}
           /\ PruneTier(row, k) = "AUTO_APPROVE" <=>
                \/ row.prune /\ (row.high \/ row.pnl <= 0 \/ row.fee \in {"THIN_EDGE", "LOSS_AFTER_FEES"})
                \/ row.high /\ row.pnl <= 0
BY DEF Tuning, IsPrune, PruneTier, PruneConfidence, Confidence, AtMost, AtLeast

LEMMA Blocking ==
    ASSUME NEW k, NEW c \in Unresolved(k)
    PROVE  HardBlocks(k) # {}
<1>1. c \notin Soft
  BY DEF Unresolved, Soft
<1>2. c \in HardBlocks(k)
  BY <1>1 DEF HardBlocks, ReviewReasons
<1>. QED BY <1>2

\* Where the open orders were read and nothing stands against a prune, they are
\* the rows, one for one, and nothing is reserved without one of them.
THEOREM ReadyMeansAgreed ==
    ASSUME NEW k \in Knowledge, k.snapshot = "read", HardBlocks(k) = {}
    PROVE  /\ RowIds(k) = k.visible
           /\ \A r \in k.rows : r.id # 0 /\ ~r.partial
           /\ k.reserved > 0 => k.rows # {}
<1>1. Visible(k) = k.visible
  BY DEF Visible
<1>2. \A c : c \notin Unresolved(k)
  BY Blocking
<1>3. RowIds(k) \subseteq k.visible
  <2>1. "missing_on_exchange" \notin Unresolved(k)
    BY <1>2
  <2>. QED BY <1>1, <2>1 DEF Unresolved
<1>4. k.visible \subseteq RowIds(k)
  <2>1. "missing_locally" \notin Unresolved(k)
    BY <1>2
  <2>. QED BY <1>1, <2>1 DEF Unresolved
<1>5. \A r \in k.rows : r.id # 0
  <2>1. "orders_without_exchange_id" \notin Unresolved(k)
    BY <1>2
  <2>. QED BY <2>1 DEF Unresolved
<1>6. \A r \in k.rows : ~r.partial
  <2>1. "partially_filled" \notin Unresolved(k)
    BY <1>2
  <2>. QED BY <2>1 DEF Unresolved
<1>7. ASSUME k.reserved > 0 PROVE k.rows # {}
  <2>1. "reserved_without_open_order" \notin Unresolved(k)
    BY <1>2
  <2>2. k.visible # {}
    BY <1>1, <1>7, <2>1 DEF Unresolved, Reserved
  <2>. QED BY <1>4, <2>2 DEF RowIds
<1>. QED BY <1>3, <1>4, <1>5, <1>6, <1>7

\* Where the open orders could not be read, only a symbol without a row is left
\* open for a prune: nothing is known of the orders that have none.
THEOREM UnreadNeedsNoRows ==
    ASSUME NEW k \in Knowledge, k.snapshot \in {"requires_symbol", "error"}, HardBlocks(k) = {}
    PROVE  k.rows = {}
<1>. SUFFICES ASSUME k.rows # {} PROVE FALSE
  OBVIOUS
<1>1. "query returned an error" \in ReviewReasons(k) \cap Soft
  BY DEF ReviewReasons, Soft
<1>2. "query returned an error" \in HardBlocks(k)
  BY <1>1 DEF HardBlocks, OpenOrders
<1>. QED BY <1>2

\* assess_prune_readiness is documented to let a "ghost reserved" balance, one
\* without an open order, pass with a warning.  With the state that
\* build_symbol_operational_state hands to it, such a symbol is always blocked.
THEOREM GhostsBlocked ==
    ASSUME NEW k \in Knowledge, GhostReserved(k)
    PROVE  HardBlocks(k) # {}
<1>1. CASE Visible(k) = {}
  <2>1. "reserved_without_open_order" \in Unresolved(k)
    BY <1>1 DEF GhostReserved, Unresolved
  <2>. QED BY <2>1, Blocking
<1>2. CASE Visible(k) # {}
  <2>1. RowIds(k) = {}
    BY DEF GhostReserved, OpenOrders, RowIds
  <2>2. "missing_locally" \in Unresolved(k)
    BY <1>2, <2>1 DEF Unresolved
  <2>. QED BY <2>2, Blocking
<1>. QED BY <1>1, <1>2

-----------------------------------------------------------------------------
(* The inductive invariant of the ledger.                                  *)

DecidedBy(p, i) == \E n \in DOMAIN log[i.symbol] :
    LET d == log[i.symbol][n] IN d.id = i /\ d.by = p /\ d.what # "created"

\* A note is followed by another session's note on the same proposal.
Overruled(s, m) == \E n \in m + 1..Len(log[s]) :
    log[s][n].id = log[s][m].id /\ log[s][n].by # log[s][m].by

\* No dismissal by p that is in force at t stands against the proposal i.
Allowed(p, i, t) == \A m \in DOMAIN log[i.symbol] :
    LET d == log[i.symbol][m] IN
    d.what = "dismissed" /\ d.by = p /\ d.id.what = i.what /\ t < d.at + Dismissal
        => Overruled(i.symbol, m)

\* The proposals that the rerun k is going to decide.
Handled(k) ==
    IF k.pc = "insert" THEN k.ids \ k.todo
    ELSE IF k.pc \in {"sweep", "choose"} THEN k.ids
    ELSE IF k.pc \in {"save", "mark", "write", "expire"} THEN k.todo ELSE {}

Proposing(k) == k.pc \in {"check", "read", "insert"}

\* What a rerun k of the session p knows: it has not decided what it is going to
\* decide; of each symbol it proposes one thing, which none of its dismissals
\* forbids; and the rules of its own that the first proposal replaces are among
\* those it has read.
SessionOK(p, k) ==
    /\ \A i \in Handled(k) : ledger[i] # None /\ ~DecidedBy(p, i)
    /\ k.pc \in {"read", "write", "expire"} => k.ids \subseteq k.todo
    /\ Proposing(k) => \A i, j \in k.todo : i.symbol = j.symbol => i = j
    /\ k.pc \in {"read", "insert"} => \A i \in k.ids \cap k.todo : Allowed(p, i, k.at)
    /\ k.pc = "insert" => \A i \in k.ids \cap k.todo : \A j \in Conflicts(i) : Created(p, j) => j \in k.ids

\* A note is about a row of its symbol, which is not pending if it was decided.
NotesOK ==
    \A s \in Symbols : \A n \in DOMAIN log[s] :
        LET d == log[s][n] IN
        /\ d.id.symbol = s /\ ledger[d.id] # None
        /\ d.what # "created" => ledger[d.id].status # "pending"

\* A dismissal is in force until another session decides otherwise.
DismissalsLast ==
    \A s \in Symbols : \A m \in DOMAIN log[s] :
        LET d == log[s][m] IN
        d.what = "dismissed" =>
            \/ Overruled(s, m)
            \/ ledger[d.id].status = "dismissed" /\ ledger[d.id].until = d.at + Dismissal

LedgerInv ==
    /\ TypeOK
    /\ \A p \in Sessions : SessionOK(p, session[p])
    /\ NotesOK
    /\ DismissalsLast
    /\ DecidesOnce
    /\ DismissalsHold
    /\ OneRulePerSession

-----------------------------------------------------------------------------
(* The notes of a call.                                                    *)

LEMMA IdsFinite == IsFiniteSet(Ids)
<1>. DEFINE D == (Symbols \X What) \X (0..MaxNow)
            f == [x \in D |-> [symbol |-> x[1][1], what |-> x[1][2], bucket |-> x[2]]]
<1>1. IsFiniteSet(D)
  <2>1. IsFiniteSet(What)
    BY FinitelyMany, FS_Singleton, FS_Union DEF What
  <2>2. IsFiniteSet(0..MaxNow)
    BY TimesAssumption, FS_Interval
  <2>3. IsFiniteSet(Symbols \X What)
    BY <2>1, FinitelyMany, FS_Product
  <2>. QED BY <2>2, <2>3, FS_Product
<1>2. f \in Surjection(D, Ids)
  <2>1. ASSUME NEW x \in D PROVE f[x] \in Ids
    BY DEF Ids
  <2>2. ASSUME NEW i \in Ids PROVE \E x \in D : f[x] = i
    <3>1. i.symbol \in Symbols /\ i.what \in What /\ i.bucket \in 0..MaxNow
          /\ i = [symbol |-> i.symbol, what |-> i.what, bucket |-> i.bucket]
      BY DEF Ids
    <3>2. <<<<i.symbol, i.what>>, i.bucket>> \in D
      BY <3>1
    <3>3. f[<<<<i.symbol, i.what>>, i.bucket>>] = i
      BY <3>1, <3>2
    <3>. QED BY <3>2, <3>3
  <2>. QED BY <2>1, <2>2 DEF Surjection
<1>. QED BY <1>1, <1>2, FS_Surjection

\* SetToSeq lists the elements of a finite set, each of them once.
LEMMA Listed ==
    ASSUME NEW S, IsFiniteSet(S)
    PROVE  LET q == SetToSeq(S) IN
           /\ q \in Seq(S) /\ Len(q) \in Nat /\ DOMAIN q = 1..Len(q)
           /\ \A m, n \in 1..Len(q) : q[m] = q[n] => m = n
           /\ \A x \in S : \E n \in 1..Len(q) : q[n] = x
<1>. DEFINE q == SetToSeq(S)
            c == Cardinality(S)
<1>1. c \in Nat /\ \E f \in [1..c -> S] : IsInjective(f)
  BY FS_CardinalityType DEF ExistsBijection, Bijection, Injection, IsInjective
<1>2. q \in [1..c -> S] /\ IsInjective(q)
  BY <1>1 DEF SetToSeq
<1>3. q \in Seq(S) /\ Len(q) = c /\ DOMAIN q = 1..c
  <2>. HIDE DEF q, c
  <2>. QED BY <1>1, <1>2
<1>4. q \in Surjection(1..c, S)
  <2>1. q \in Injection(1..c, S)
    BY <1>2 DEF Injection
  <2>2. Cardinality(1..c) = c
    BY <1>1, FS_Interval
  <2>. QED BY <2>1, <2>2, FS_Injection
<1>5. \A x \in S : \E n \in 1..c : q[n] = x
  BY <1>4 DEF Surjection
<1>6. \A m, n \in 1..c : q[m] = q[n] => m = n
  BY <1>2 DEF IsInjective
<1>. QED BY <1>1, <1>3, <1>5, <1>6

\* The notes of one kind are one for each id of the symbol.
LEMMA NotesMade ==
    ASSUME NEW p \in Sessions, NEW s \in Symbols, NEW ids \in SUBSET Ids,
           NEW what \in Terminal \cup {"created", "dismissed"}, NEW t \in 0..MaxNow
    PROVE  LET notes == Notes(p, s, ids, what, t) IN
           /\ notes \in Seq(Decision) /\ Len(notes) \in Nat
           /\ \A n \in 1..Len(notes) :
                 /\ notes[n].id \in ids /\ notes[n].id.symbol = s
                 /\ notes[n].what = what /\ notes[n].by = p /\ notes[n].at = t
           /\ \A m, n \in 1..Len(notes) : notes[m].id = notes[n].id => m = n
           /\ \A i \in ids : i.symbol = s => \E n \in 1..Len(notes) : notes[n].id = i
<1>. DEFINE S == {i \in ids : i.symbol = s}
            q == SetToSeq(S)
            notes == [n \in 1..Len(q) |-> [id |-> q[n], what |-> what, by |-> p, at |-> t]]
<1>1. IsFiniteSet(S)
  <2>1. S \in SUBSET Ids
    OBVIOUS
  <2>. QED BY <2>1, IdsFinite, FS_Subset
<1>2. /\ q \in Seq(S) /\ Len(q) \in Nat /\ DOMAIN q = 1..Len(q)
      /\ \A m, n \in 1..Len(q) : q[m] = q[n] => m = n
      /\ \A x \in S : \E n \in 1..Len(q) : q[n] = x
  BY <1>1, Listed
<1>3. Notes(p, s, ids, what, t) = notes
  BY DEF Notes
<1>. HIDE DEF q
<1>4. \A n \in 1..Len(q) : q[n] \in ids /\ q[n].symbol = s
  BY <1>2
<1>5. \A n \in 1..Len(q) : [id |-> q[n], what |-> what, by |-> p, at |-> t] \in Decision
  BY <1>4 DEF Decision
<1>6. notes \in Seq(Decision) /\ Len(notes) = Len(q)
  BY <1>2, <1>5
<1>. HIDE DEF S
<1>7. \A n \in 1..Len(q) : /\ notes[n].id = q[n] /\ notes[n].what = what
                          /\ notes[n].by = p /\ notes[n].at = t
  OBVIOUS
<1>8. \A i \in ids : i.symbol = s => \E n \in 1..Len(q) : q[n] = i
  BY <1>2 DEF S
<1>. HIDE DEF notes
<1>. QED BY <1>2, <1>3, <1>4, <1>6, <1>7, <1>8

\* The notes of s after a call of p that has noted what of the ids A, and then the
\* creation of the ids B.
Continues(notes, after, s, p, A, what, B, t) ==
    /\ after \in Seq(Decision) /\ Len(notes) \in Nat /\ Len(after) \in Nat
    /\ DOMAIN notes = 1..Len(notes) /\ DOMAIN after = 1..Len(after) /\ Len(notes) <= Len(after)
    /\ \A n \in 1..Len(notes) : after[n] = notes[n]
    /\ \A n \in Len(notes) + 1..Len(after) :
          LET c == after[n] IN
          /\ c.id.symbol = s /\ c.by = p /\ c.at = t
          /\ (c.id \in A /\ c.what = what) \/ (c.id \in B /\ c.what = "created")
    /\ \A m, n \in Len(notes) + 1..Len(after) : after[m].id = after[n].id => m = n
    /\ \A i \in A : i.symbol = s => \E n \in Len(notes) + 1..Len(after) : after[n].id = i

LogStep(p, A, what, B, t) ==
    log' = [s \in Symbols |-> log[s] \o Notes(p, s, A, what, t) \o Notes(p, s, B, "created", t)]

\* Three sequences, one behind the other.
Joins(new, old, a, b) ==
    /\ Len(new) = Len(old) + Len(a) + Len(b) /\ DOMAIN new = 1..Len(new)
    /\ \A n \in 1..Len(old) : new[n] = old[n]
    /\ \A k \in 1..Len(a) : new[Len(old) + k] = a[k]
    /\ \A n \in Len(old) + 1..Len(new) :
          \/ \E k \in 1..Len(a) : n = Len(old) + k /\ new[n] = a[k]
          \/ \E k \in 1..Len(b) : n = Len(old) + Len(a) + k /\ new[n] = b[k]

LEMMA Joined ==
    ASSUME NEW S, NEW old \in Seq(S), NEW a \in Seq(S), NEW b \in Seq(S),
           NEW new, new = (old \o a) \o b
    PROVE  new \in Seq(S) /\ Joins(new, old, a, b)
<1>1. /\ old \o a \in Seq(S) /\ Len(old \o a) = Len(old) + Len(a)
      /\ \A n \in 1..Len(old) : (old \o a)[n] = old[n]
      /\ \A k \in 1..Len(a) : (old \o a)[Len(old) + k] = a[k]
  OBVIOUS
<1>2. PICK r \in Seq(S) : r = old \o a
  BY <1>1
<1>3. /\ r \o b \in Seq(S) /\ Len(r \o b) = Len(r) + Len(b)
      /\ \A n \in 1..Len(r) : (r \o b)[n] = r[n]
      /\ \A k \in 1..Len(b) : (r \o b)[Len(r) + k] = b[k]
  OBVIOUS
<1>4. new \in Seq(S) /\ new = r \o b
  BY <1>2, <1>3
<1>. DEFINE c == Len(old)
            d == Len(a)
            e == Len(b)
<1>10. c \in Nat /\ d \in Nat /\ e \in Nat
  OBVIOUS
<1>11. \A n \in 1..c : r[n] = old[n]
  BY <1>1, <1>2
<1>12. Len(r) = c + d /\ \A k \in 1..d : r[c + k] = a[k]
  BY <1>1, <1>2
<1>5. /\ Len(new) = c + d + e
      /\ \A n \in 1..c + d : new[n] = r[n]
      /\ \A k \in 1..e : new[c + d + k] = b[k]
  <2>1. Len(new) = c + d + e /\ \A n \in 1..c + d : new[n] = r[n]
    BY <1>3, <1>4, <1>12
  <2>2. ASSUME NEW k \in 1..e PROVE new[c + d + k] = b[k]
    <3>1. (r \o b)[Len(r) + k] = b[k]
      BY <1>3
    <3>. QED BY <1>4, <1>12, <3>1
  <2>. QED BY <2>1, <2>2
<1>9. DOMAIN new = 1..Len(new)
  BY <1>4
<1>. HIDE DEF c, d, e
<1>6. \A k \in 1..d : c + k \in 1..c + d /\ new[c + k] = a[k]
  <2>1. \A k \in 1..d : c + k \in 1..c + d
    BY <1>10
  <2>. QED BY <1>5, <1>12, <2>1
<1>7. \A n \in 1..c : new[n] = old[n]
  BY <1>5, <1>10, <1>11
<1>8. ASSUME NEW n \in c + 1..c + d + e
      PROVE  \/ \E k \in 1..d : n = c + k /\ new[n] = a[k]
             \/ \E k \in 1..e : n = c + d + k /\ new[n] = b[k]
  <2>1. CASE n <= c + d
    <3>1. n - c \in 1..d /\ n = c + (n - c)
      BY <1>10, <2>1
    <3>. QED BY <1>6, <3>1
  <2>2. CASE ~(n <= c + d)
    <3>1. n - (c + d) \in 1..e /\ n = c + d + (n - (c + d))
      BY <1>10, <2>2
    <3>. QED BY <1>5, <3>1
  <2>. QED BY <2>1, <2>2
<1>. QED BY <1>2, <1>4, <1>5, <1>6, <1>7, <1>8, <1>9 DEF c, d, e, Joins

\* A call that notes keeps the notes there are.
LEMMA Noting ==
    ASSUME NEW p \in Sessions, NEW A \in SUBSET Ids, NEW B \in SUBSET Ids, A \cap B = {},
           NEW what \in Terminal \cup {"dismissed"}, NEW t \in 0..MaxNow,
           log \in [Symbols -> Seq(Decision)], LogStep(p, A, what, B, t)
    PROVE  /\ log' \in [Symbols -> Seq(Decision)]
           /\ \A s \in Symbols : Continues(log[s], log'[s], s, p, A, what, B, t)
<1>1. ASSUME NEW s \in Symbols PROVE Continues(log[s], log'[s], s, p, A, what, B, t)
  <2>. DEFINE a == Notes(p, s, A, what, t)
              b == Notes(p, s, B, "created", t)
              old == log[s]
              new == (old \o a) \o b
  <2>1. /\ a \in Seq(Decision) /\ Len(a) \in Nat
        /\ \A n \in 1..Len(a) : /\ a[n].id \in A /\ a[n].id.symbol = s
                                /\ a[n].what = what /\ a[n].by = p /\ a[n].at = t
        /\ \A m, n \in 1..Len(a) : a[m].id = a[n].id => m = n
        /\ \A i \in A : i.symbol = s => \E n \in 1..Len(a) : a[n].id = i
    <3>1. what \in Terminal \cup {"created", "dismissed"}
      OBVIOUS
    <3>. QED BY <3>1, NotesMade, SMTT(60)
  <2>2. /\ b \in Seq(Decision) /\ Len(b) \in Nat
        /\ \A n \in 1..Len(b) : /\ b[n].id \in B /\ b[n].id.symbol = s
                                /\ b[n].what = "created" /\ b[n].by = p /\ b[n].at = t
        /\ \A m, n \in 1..Len(b) : b[m].id = b[n].id => m = n
    BY NotesMade
  <2>3. old \in Seq(Decision) /\ Len(old) \in Nat /\ DOMAIN old = 1..Len(old)
    OBVIOUS
  <2>4. log'[s] = new
    BY DEF LogStep
  <2>. HIDE DEF a, b, old
  <2>5. /\ new \in Seq(Decision) /\ Len(new) = Len(old) + Len(a) + Len(b) /\ DOMAIN new = 1..Len(new)
        /\ \A n \in 1..Len(old) : new[n] = old[n]
        /\ \A k \in 1..Len(a) : new[Len(old) + k] = a[k]
        /\ \A n \in Len(old) + 1..Len(new) :
              \/ \E k \in 1..Len(a) : n = Len(old) + k /\ new[n] = a[k]
              \/ \E k \in 1..Len(b) : n = Len(old) + Len(a) + k /\ new[n] = b[k]
    <3>1. old \in Seq(Decision) /\ a \in Seq(Decision) /\ b \in Seq(Decision)
      BY <2>1, <2>2, <2>3
    <3>. HIDE DEF new
    <3>2. new = (old \o a) \o b
      BY DEF new
    <3>. HIDE DEF old, a, b
    <3>3. new \in Seq(Decision) /\ Joins(new, old, a, b)
      BY <3>1, <3>2, Joined
    <3>. QED BY <3>3 DEF Joins
  <2>. HIDE DEF new
  <2>7. \A n \in Len(old) + 1..Len(new) :
          LET c == new[n] IN
          /\ c.id.symbol = s /\ c.by = p /\ c.at = t
          /\ (c.id \in A /\ c.what = what) \/ (c.id \in B /\ c.what = "created")
    <3>. SUFFICES ASSUME NEW n \in Len(old) + 1..Len(new)
                  PROVE  LET c == new[n] IN
                         /\ c.id.symbol = s /\ c.by = p /\ c.at = t
                         /\ (c.id \in A /\ c.what = what) \/ (c.id \in B /\ c.what = "created")
      OBVIOUS
    <3>1. CASE \E k \in 1..Len(a) : new[n] = a[k]
      BY <2>1, <3>1
    <3>2. CASE \E k \in 1..Len(b) : new[n] = b[k]
      BY <2>2, <3>2
    <3>. QED BY <2>5, <3>1, <3>2
  <2>8. ASSUME NEW m \in Len(old) + 1..Len(new), NEW n \in Len(old) + 1..Len(new),
               new[m].id = new[n].id
        PROVE  m = n
    <3>1. CASE new[m].id \in A
      <4>1. PICK k \in 1..Len(a) : m = Len(old) + k /\ new[m] = a[k]
        BY <2>2, <2>5, <3>1
      <4>2. PICK l \in 1..Len(a) : n = Len(old) + l /\ new[n] = a[l]
        BY <2>2, <2>5, <2>8, <3>1
      <4>. QED BY <2>1, <2>8, <4>1, <4>2
    <3>2. CASE new[m].id \notin A
      <4>1. PICK k \in 1..Len(b) : m = Len(old) + Len(a) + k /\ new[m] = b[k]
        BY <2>1, <2>5, <3>2
      <4>2. PICK l \in 1..Len(b) : n = Len(old) + Len(a) + l /\ new[n] = b[l]
        <5>1. new[n].id \notin A
          BY <2>8, <3>2
        <5>. QED BY <2>1, <2>5, <5>1
      <4>. QED BY <2>2, <2>8, <4>1, <4>2
    <3>. QED BY <3>1, <3>2
  <2>9. \A i \in A : i.symbol = s => \E n \in Len(old) + 1..Len(new) : new[n].id = i
    <3>. SUFFICES ASSUME NEW i \in A, i.symbol = s
                  PROVE  \E n \in Len(old) + 1..Len(new) : new[n].id = i
      OBVIOUS
    <3>1. PICK n \in 1..Len(a) : a[n].id = i
      BY <2>1
    <3>2. Len(old) + n \in Len(old) + 1..Len(new) /\ new[Len(old) + n] = a[n]
      BY <2>1, <2>2, <2>3, <2>5
    <3>. QED BY <3>1, <3>2
  <2>10. Len(new) \in Nat /\ Len(old) <= Len(new)
    BY <2>1, <2>2, <2>3, <2>5
  <2>11. Continues(old, new, s, p, A, what, B, t)
    BY <2>3, <2>5, <2>7, <2>8, <2>9, <2>10 DEF Continues
  <2>. QED BY <2>4, <2>11 DEF old
<1>2. log' \in [Symbols -> Seq(Decision)]
  <2>1. \A s \in Symbols : log'[s] \in Seq(Decision)
    BY <1>1 DEF Continues
  <2>2. log' = [s \in Symbols |-> log'[s]]
    BY DEF LogStep
  <2>. QED BY <2>1, <2>2
<1>. QED BY <1>1, <1>2

-----------------------------------------------------------------------------
(* What a step of p leaves to the other sessions.                          *)

\* The notes are there still, and the new ones are by p.
Grown(notes, after, p) ==
    /\ Len(notes) \in Nat /\ Len(after) \in Nat /\ Len(notes) <= Len(after)
    /\ DOMAIN notes = 1..Len(notes) /\ DOMAIN after = 1..Len(after)
    /\ \A n \in 1..Len(notes) : after[n] = notes[n]
    /\ \A n \in Len(notes) + 1..Len(after) : after[n].by = p

\* A row stays, and does not become pending again.
RowsGoOn ==
    \A i \in Ids :
        ledger[i] # None => /\ ledger'[i] # None
                            /\ ledger[i].status # "pending" => ledger'[i].status # "pending"

LEMMA OverruledStays ==
    ASSUME NEW p, NEW s, Grown(log[s], log'[s], p), NEW m \in 1..Len(log[s]), Overruled(s, m)
    PROVE  Overruled(s, m)'
<1>1. PICK n \in m + 1..Len(log[s]) : log[s][n].id = log[s][m].id /\ log[s][n].by # log[s][m].by
  BY DEF Overruled
<1>2. n \in 1..Len(log[s]) /\ n \in m + 1..Len(log'[s])
  BY DEF Grown
<1>3. log'[s][n] = log[s][n] /\ log'[s][m] = log[s][m]
  BY <1>2 DEF Grown
<1>. QED BY <1>1, <1>2, <1>3 DEF Overruled

LEMMA OthersDecide ==
    ASSUME NEW p, NEW q, p # q, NEW i, Grown(log[i.symbol], log'[i.symbol], p)
    PROVE  /\ DecidedBy(q, i)' => DecidedBy(q, i)
           /\ Created(q, i)' => Created(q, i)
           /\ \A t : Allowed(q, i, t) => Allowed(q, i, t)'
<1>1. ASSUME NEW n \in DOMAIN log'[i.symbol], log'[i.symbol][n].by = q
      PROVE  n \in DOMAIN log[i.symbol] /\ log'[i.symbol][n] = log[i.symbol][n]
  BY <1>1 DEF Grown
<1>2. DecidedBy(q, i)' => DecidedBy(q, i)
  BY <1>1 DEF DecidedBy
<1>3. Created(q, i)' => Created(q, i)
  BY <1>1 DEF Created
<1>4. ASSUME NEW t, Allowed(q, i, t) PROVE Allowed(q, i, t)'
  <2>. SUFFICES ASSUME NEW m \in DOMAIN log'[i.symbol],
                       log'[i.symbol][m].what = "dismissed", log'[i.symbol][m].by = q,
                       log'[i.symbol][m].id.what = i.what, t < log'[i.symbol][m].at + Dismissal
                PROVE  Overruled(i.symbol, m)'
    BY DEF Allowed
  <2>1. m \in DOMAIN log[i.symbol] /\ log'[i.symbol][m] = log[i.symbol][m]
    BY <1>1
  <2>2. Overruled(i.symbol, m)
    BY <1>4, <2>1 DEF Allowed
  <2>3. m \in 1..Len(log[i.symbol])
    BY <2>1 DEF Grown
  <2>. QED BY <2>2, <2>3, OverruledStays
<1>. QED BY <1>2, <1>3, <1>4

\* So what another session knows stays true.
LEMMA OthersOK ==
    ASSUME TypeOK, NotesOK, NEW p \in Sessions, NEW q \in Sessions, p # q, NEW k \in Session,
           \A s \in Symbols : Grown(log[s], log'[s], p), RowsGoOn, SessionOK(q, k)
    PROVE  SessionOK(q, k)'
<1>1. \A i \in Ids : i.symbol \in Symbols
  BY DEF Ids
<1>2. k.todo \subseteq Ids /\ k.ids \subseteq Ids /\ Handled(k) \subseteq Ids
  BY DEF Session, Handled
<1>3. ASSUME NEW i \in Handled(k) PROVE ledger'[i] # None /\ ~DecidedBy(q, i)'
  <2>1. ledger[i] # None /\ ~DecidedBy(q, i)
    BY DEF SessionOK
  <2>. QED BY <1>1, <1>2, <2>1, OthersDecide DEF RowsGoOn
<1>4. ASSUME NEW i \in Ids, Allowed(q, i, k.at) PROVE Allowed(q, i, k.at)'
  BY <1>1, <1>4, OthersDecide
<1>5. ASSUME NEW i, NEW j \in Conflicts(i)', Created(q, j)'
      PROVE  j \in Conflicts(i) /\ Created(q, j)
  <2>1. j \in Ids /\ ledger'[j] # None /\ ledger'[j].status = "pending"
        /\ j.symbol = i.symbol /\ IsKind(i, j) /\ j.what # i.what
    BY DEF Conflicts, In
  <2>2. Created(q, j)
    BY <1>1, <1>5, <2>1, OthersDecide
  <2>3. ledger[j] # None
    <3>1. PICK n \in DOMAIN log[j.symbol] : log[j.symbol][n].id = j
      BY <2>2 DEF Created
    <3>. QED BY <1>1, <2>1, <3>1 DEF NotesOK
  <2>4. ledger[j].status = "pending"
    BY <2>1, <2>3 DEF RowsGoOn
  <2>. QED BY <2>1, <2>2, <2>3, <2>4 DEF Conflicts, In
<1>. QED BY <1>2, <1>3, <1>4, <1>5 DEF SessionOK

-----------------------------------------------------------------------------
(* A call that notes what it has decided.                                  *)

\* What p notes of A it has not decided before, and the rows of A are decided
\* then; the rows of B are new, and no dismissal of p stands against them; and of
\* the dismissed rows only those of A are changed.
Decides(p, A, what, B, t) ==
    /\ \A i \in A : ledger[i] # None /\ ~DecidedBy(p, i) /\ ledger'[i].status # "pending"
    /\ \A i \in B : ledger[i] = None /\ ledger'[i] # None /\ Allowed(p, i, t)
    /\ what = "dismissed" => /\ B = {}
                             /\ \A i \in A : /\ ledger'[i].status = "dismissed"
                                            /\ ledger'[i].until = t + Dismissal
    /\ \A i \in Ids \ A : ledger[i] # None /\ ledger[i].status = "dismissed" => ledger'[i] = ledger[i]

LEMMA ContinuesGrown ==
    ASSUME NEW s, NEW p, NEW A, NEW what, NEW B, NEW t, NEW notes, NEW after,
           Continues(notes, after, s, p, A, what, B, t)
    PROVE  Grown(notes, after, p)
BY DEF Continues, Grown

LEMMA DecidingOK ==
    ASSUME TypeOK, NotesOK, DismissalsLast, DecidesOnce, DismissalsHold,
           NEW p \in Sessions, NEW A \in SUBSET Ids, NEW B \in SUBSET Ids, A \cap B = {},
           NEW what \in Terminal \cup {"dismissed"}, NEW t \in 0..MaxNow,
           \A s \in Symbols : Continues(log[s], log'[s], s, p, A, what, B, t),
           RowsGoOn, Decides(p, A, what, B, t)
    PROVE  NotesOK' /\ DismissalsLast' /\ DecidesOnce' /\ DismissalsHold'
<1>1. ASSUME NEW s \in Symbols
      PROVE  /\ Len(log[s]) \in Nat /\ Len(log'[s]) \in Nat /\ Len(log[s]) <= Len(log'[s])
             /\ DOMAIN log[s] = 1..Len(log[s]) /\ DOMAIN log'[s] = 1..Len(log'[s])
             /\ \A n \in DOMAIN log[s] : log'[s][n] = log[s][n] /\ log[s][n].id \in Ids
             /\ Grown(log[s], log'[s], p)
  <2>1. Continues(log[s], log'[s], s, p, A, what, B, t)
    OBVIOUS
  <2>2. \A n \in DOMAIN log[s] : log[s][n].id \in Ids
    <3>1. log[s] \in Seq(Decision)
      BY DEF TypeOK
    <3>2. \A n \in DOMAIN log[s] : log[s][n] \in Decision
      BY <3>1
    <3>. QED BY <3>2 DEF Decision
  <2>3. Grown(log[s], log'[s], p)
    BY <2>1, ContinuesGrown
  <2>4. /\ Len(log[s]) \in Nat /\ Len(log'[s]) \in Nat /\ Len(log[s]) <= Len(log'[s])
        /\ DOMAIN log[s] = 1..Len(log[s]) /\ DOMAIN log'[s] = 1..Len(log'[s])
        /\ \A n \in DOMAIN log[s] : log'[s][n] = log[s][n]
    BY <2>3 DEF Grown
  <2>. QED BY <2>2, <2>3, <2>4
<1>2. ASSUME NEW s \in Symbols, NEW n \in DOMAIN log'[s], n \notin DOMAIN log[s]
      PROVE  LET c == log'[s][n] IN
             /\ n \in Len(log[s]) + 1..Len(log'[s])
             /\ c.id.symbol = s /\ c.by = p /\ c.at = t
             /\ \/ c.id \in A /\ c.what = what
                \/ c.id \in B /\ c.what = "created"
  <2>1. n \in Len(log[s]) + 1..Len(log'[s])
    BY <1>1, <1>2
  <2>2. Continues(log[s], log'[s], s, p, A, what, B, t)
    OBVIOUS
  <2>. QED BY <2>1, <2>2 DEF Continues
<1>3. NotesOK'
  <2>1. ASSUME NEW s \in Symbols, NEW n \in DOMAIN log'[s]
        PROVE  /\ log'[s][n].id.symbol = s /\ ledger'[log'[s][n].id] # None
               /\ log'[s][n].what # "created" => ledger'[log'[s][n].id].status # "pending"
    <3>1. CASE n \in DOMAIN log[s]
      <4>1. log'[s][n] = log[s][n] /\ log[s][n].id \in Ids
        BY <1>1, <3>1
      <4>2. /\ log[s][n].id.symbol = s /\ ledger[log[s][n].id] # None
            /\ log[s][n].what # "created" => ledger[log[s][n].id].status # "pending"
        BY <3>1 DEF NotesOK
      <4>. QED BY <4>1, <4>2 DEF RowsGoOn
    <3>2. CASE n \notin DOMAIN log[s]
      <4>1. log'[s][n].id.symbol = s
        BY <1>2, <2>1, <3>2
      <4>2. CASE log'[s][n].id \in A
        BY <4>1, <4>2 DEF Decides, RowsGoOn
      <4>3. CASE log'[s][n].id \in B /\ log'[s][n].what = "created"
        BY <4>1, <4>3 DEF Decides
      <4>. QED BY <1>2, <2>1, <3>2, <4>2, <4>3
    <3>. QED BY <3>1, <3>2
  <2>. QED BY <2>1 DEF NotesOK
<1>4. DecidesOnce'
  <2>. SUFFICES ASSUME NEW s \in Symbols, NEW n \in DOMAIN log'[s], NEW m \in 1..n - 1,
                       log'[s][m].id = log'[s][n].id, log'[s][m].by = log'[s][n].by
                PROVE  log'[s][m].what = "created"
    BY DEF DecidesOnce
  <2>1. m \in DOMAIN log'[s] /\ m # n
    BY <1>1
  <2>2. CASE n \in DOMAIN log[s]
    <3>1. m \in DOMAIN log[s] /\ log'[s][m] = log[s][m] /\ log'[s][n] = log[s][n]
      BY <1>1, <2>2
    <3>. QED BY <2>2, <3>1 DEF DecidesOnce
  <2>3. CASE n \notin DOMAIN log[s] /\ m \in DOMAIN log[s]
    <3>1. log'[s][m] = log[s][m] /\ log[s][m].by = p /\ log[s][m].id.symbol = s
      BY <1>1, <1>2, <2>3 DEF NotesOK
    <3>2. CASE log'[s][n].id \in A
      <4>1. ~DecidedBy(p, log[s][m].id)
        BY <3>1, <3>2 DEF Decides
      <4>. QED BY <2>3, <3>1, <4>1 DEF DecidedBy
    <3>3. CASE log'[s][n].id \in B
      <4>1. ledger[log[s][m].id] = None
        BY <3>1, <3>3 DEF Decides
      <4>. QED BY <2>3, <4>1 DEF NotesOK
    <3>. QED BY <1>2, <2>3, <3>2, <3>3
  <2>4. CASE m \notin DOMAIN log[s]
    <3>1. m \in Len(log[s]) + 1..Len(log'[s]) /\ n \in Len(log[s]) + 1..Len(log'[s])
      BY <1>1, <2>1, <2>4
    <3>2. Continues(log[s], log'[s], s, p, A, what, B, t)
      OBVIOUS
    <3>. QED BY <2>1, <3>1, <3>2 DEF Continues
  <2>. QED BY <2>2, <2>3, <2>4
<1>5. DismissalsLast'
  <2>. SUFFICES ASSUME NEW s \in Symbols, NEW m \in DOMAIN log'[s], log'[s][m].what = "dismissed"
                PROVE  LET d == log'[s][m] IN
                       \/ Overruled(s, m)'
                       \/ ledger'[d.id].status = "dismissed" /\ ledger'[d.id].until = d.at + Dismissal
    BY DEF DismissalsLast
  <2>1. CASE m \in DOMAIN log[s]
    <3>1. log'[s][m] = log[s][m] /\ log[s][m].id \in Ids /\ log[s][m].id.symbol = s
          /\ ledger[log[s][m].id] # None /\ m \in 1..Len(log[s])
      BY <1>1, <2>1 DEF NotesOK
    <3>2. CASE Overruled(s, m)
      BY <1>1, <3>1, <3>2, OverruledStays
    <3>3. CASE ~Overruled(s, m)
      <4>1. ledger[log[s][m].id].status = "dismissed" /\ ledger[log[s][m].id].until = log[s][m].at + Dismissal
        BY <2>1, <3>1, <3>3 DEF DismissalsLast
      <4>2. CASE log[s][m].id \notin A
        BY <3>1, <4>1, <4>2 DEF Decides
      <4>3. CASE log[s][m].id \in A
        <5>1. ~DecidedBy(p, log[s][m].id)
          BY <4>3 DEF Decides
        <5>2. log[s][m].by # p
          BY <2>1, <3>1, <5>1 DEF DecidedBy
        <5>3. PICK n \in Len(log[s]) + 1..Len(log'[s]) : log'[s][n].id = log[s][m].id
          <6>1. Continues(log[s], log'[s], s, p, A, what, B, t)
            OBVIOUS
          <6>. QED BY <3>1, <4>3, <6>1 DEF Continues
        <5>4. log'[s][n].by = p /\ n \in m + 1..Len(log'[s])
          BY <1>1, <3>1, <5>3 DEF Grown
        <5>. QED BY <3>1, <5>2, <5>3, <5>4 DEF Overruled
      <4>. QED BY <4>2, <4>3
    <3>. QED BY <3>2, <3>3
  <2>2. CASE m \notin DOMAIN log[s]
    <3>1. log'[s][m].id \in A /\ what = "dismissed" /\ log'[s][m].at = t
      BY <1>2, <2>2
    <3>. QED BY <3>1 DEF Decides
  <2>. QED BY <2>1, <2>2
<1>6. DismissalsHold'
  <2>. SUFFICES ASSUME NEW s \in Symbols, NEW n \in DOMAIN log'[s], NEW m \in 1..n - 1,
                       log'[s][m].what = "dismissed", log'[s][n].what = "created",
                       log'[s][m].by = log'[s][n].by, log'[s][m].id.what = log'[s][n].id.what,
                       log'[s][n].at < log'[s][m].at + Dismissal
                PROVE  \E k \in m + 1..n - 1 : /\ log'[s][k].id = log'[s][m].id
                                             /\ log'[s][k].by # log'[s][m].by
    BY DEF DismissalsHold
  <2>1. m \in DOMAIN log'[s] /\ m # n
    BY <1>1
  <2>2. CASE n \in DOMAIN log[s]
    <3>1. /\ \A k \in 1..n : k \in DOMAIN log[s] /\ log'[s][k] = log[s][k]
          /\ m \in 1..n /\ n \in 1..n /\ m + 1..n - 1 \subseteq 1..n
      BY <1>1, <2>2
    <3>2. \E k \in m + 1..n - 1 : log[s][k].id = log[s][m].id /\ log[s][k].by # log[s][m].by
      BY <2>2, <3>1 DEF DismissalsHold
    <3>. QED BY <3>1, <3>2
  <2>3. CASE n \notin DOMAIN log[s] /\ m \in DOMAIN log[s]
    <3>1. log'[s][n].by = p /\ log'[s][n].at = t /\ log'[s][n].id.symbol = s
      BY <1>2, <2>3
    <3>2. log'[s][n].id \in B
      <4>1. what # "created"
        BY DEF Terminal
      <4>. QED BY <1>2, <2>3, <4>1
    <3>3. log'[s][m] = log[s][m] /\ m \in 1..Len(log[s])
      BY <1>1, <2>3
    <3>4. Overruled(s, m)
      <4>1. Allowed(p, log'[s][n].id, t)
        BY <3>2 DEF Decides
      <4>. QED BY <2>3, <3>1, <3>3, <4>1 DEF Allowed
    <3>5. PICK k \in m + 1..Len(log[s]) : log[s][k].id = log[s][m].id /\ log[s][k].by # log[s][m].by
      BY <3>4 DEF Overruled
    <3>6. k \in m + 1..n - 1 /\ log'[s][k] = log[s][k]
      BY <1>1, <2>3, <3>3
    <3>. QED BY <3>3, <3>5, <3>6
  <2>4. CASE m \notin DOMAIN log[s]
    <3>1. n \notin DOMAIN log[s]
      BY <1>1, <2>1, <2>4
    <3>2. what = "dismissed"
      BY <1>2, <2>1, <2>4
    <3>3. log'[s][n].id \in B
      <4>1. what # "created"
        BY DEF Terminal
      <4>. QED BY <1>2, <3>1, <4>1
    <3>. QED BY <3>2, <3>3 DEF Decides
  <2>. QED BY <2>2, <2>3, <2>4
<1>. QED BY <1>3, <1>4, <1>5, <1>6

-----------------------------------------------------------------------------
(* Steps that leave the ledger alone.                                      *)

LEMMA Idling == Idle \in Session /\ \A p : SessionOK(p, Idle)
<1>1. Idle \in Session
  BY TimesAssumption DEF Idle, Session, Verbs
<1>2. ASSUME NEW p PROVE SessionOK(p, Idle)
  BY DEF Idle, SessionOK, Handled, Proposing
<1>. QED BY <1>1, <1>2

LEMMA Marking ==
    ASSUME NEW todo \in SUBSET Ids, NEW verb \in Verbs
    PROVE  LET mark == [Idle EXCEPT !.pc = "mark", !.todo = todo, !.verb = verb]
               done == [Idle EXCEPT !.pc = "mark", !.todo = todo]
           IN  /\ mark \in Session /\ mark.pc = "mark" /\ mark.todo = todo
               /\ done \in Session /\ done.pc = "mark" /\ done.todo = todo
BY Idling DEF Session

\* A pending row is there, and nobody has decided on it.
LEMMA PendingFresh ==
    ASSUME NotesOK, NEW i \in In("pending"), NEW p
    PROVE  i \in Ids /\ ledger[i] # None /\ ~DecidedBy(p, i)
<1>1. i \in Ids /\ ledger[i] # None /\ ledger[i].status = "pending" /\ i.symbol \in Symbols
  BY DEF In, Ids
<1>. QED BY <1>1 DEF DecidedBy, NotesOK

\* What is not suppressed, no dismissal that is in force stands against.
LEMMA NotSuppressed ==
    ASSUME TypeOK, NotesOK, DismissalsLast, NEW i \in Ids, NEW t \in Nat, ~Suppressed(i, t), NEW p
    PROVE  Allowed(p, i, t)
<1>. SUFFICES ASSUME NEW m \in DOMAIN log[i.symbol],
                     log[i.symbol][m].what = "dismissed", log[i.symbol][m].by = p,
                     log[i.symbol][m].id.what = i.what, t < log[i.symbol][m].at + Dismissal,
                     ~Overruled(i.symbol, m)
              PROVE  FALSE
  BY DEF Allowed
<1>. DEFINE d == log[i.symbol][m]
<1>1. i.symbol \in Symbols
  BY DEF Ids
<1>2. d \in Decision
  <2>1. log[i.symbol] \in Seq(Decision)
    BY <1>1 DEF TypeOK
  <2>. QED BY <2>1
<1>3. d.id \in Ids /\ d.id.symbol = i.symbol /\ ledger[d.id] # None
  BY <1>1, <1>2 DEF Decision, NotesOK
<1>4. ledger[d.id].status = "dismissed" /\ ledger[d.id].until = d.at + Dismissal
  BY <1>1 DEF DismissalsLast
<1>5. ledger[d.id].until > t
  <2>1. d.at \in Nat /\ Dismissal \in Nat
    BY <1>2, TimesAssumption DEF Decision
  <2>. QED BY <1>4, <2>1
<1>6. d.id \in In("dismissed")
  BY <1>3, <1>4 DEF In
<1>. QED BY <1>3, <1>5, <1>6 DEF Suppressed

LEMMA QuietOK ==
    ASSUME LedgerInv, NEW p \in Sessions, NEW k \in Session,
           session' = [session EXCEPT ![p] = k], SessionOK(p, k), UNCHANGED <<ledger, log>>,
           now' \in 0..MaxNow, config' \subseteq Symbols, left' \in Scope
    PROVE  LedgerInv'
<1>1. TypeOK'
  BY DEF LedgerInv, TypeOK
<1>2. ASSUME NEW q \in Sessions PROVE SessionOK(q, session[q])' 
  <2>1. SessionOK(q, session'[q])
    BY DEF LedgerInv, TypeOK
  <2>. QED BY <2>1 DEF SessionOK, DecidedBy, Allowed, Overruled, Conflicts, Created, In
<1>3. NotesOK' /\ DismissalsLast' /\ DecidesOnce' /\ DismissalsHold' /\ OneRulePerSession'
  <2>1. NotesOK' /\ DecidesOnce' /\ DismissalsHold'
    BY DEF LedgerInv, NotesOK, DecidesOnce, DismissalsHold
  <2>2. DismissalsLast'
    BY DEF LedgerInv, DismissalsLast, Overruled
  <2>3. OneRulePerSession'
    BY DEF LedgerInv, OneRulePerSession, Created, In
  <2>. QED BY <2>1, <2>2, <2>3
<1>. QED BY <1>1, <1>2, <1>3 DEF LedgerInv

LEMMA RecomputeOK == ASSUME LedgerInv, NEW p \in Sessions, Recompute(p) PROVE LedgerInv'
<1>1. PICK f \in [session[p].config \cap left.symbols -> left.what \cup {None}] :
        LET todo == {i \in Ids : i.symbol \in DOMAIN f /\ i.what = f[i.symbol] /\ i.bucket = now} IN
        session' = [session EXCEPT ![p] =
            IF todo = {} THEN Idle ELSE [Idle EXCEPT !.pc = "check", !.todo = todo, !.at = now]]
  BY DEF Recompute
<1>. DEFINE todo == {i \in Ids : i.symbol \in DOMAIN f /\ i.what = f[i.symbol] /\ i.bucket = now}
            k == [Idle EXCEPT !.pc = "check", !.todo = todo, !.at = now]
<1>2. k \in Session
  BY DEF Idle, Session, Verbs, LedgerInv, TypeOK
<1>3. SessionOK(p, k)
  <2>1. ASSUME NEW i \in todo, NEW j \in todo, i.symbol = j.symbol PROVE i = j
    BY <2>1 DEF Ids
  <2>. QED BY <2>1 DEF Idle, SessionOK, Handled, Proposing
<1>4. left' \in Scope
  <2>1. left \in Scope /\ left.recomputes - 1 \in Nat /\ left' = [left EXCEPT !.recomputes = @ - 1]
    BY DEF Recompute, LedgerInv, TypeOK, Scope
  <2>. QED BY <2>1 DEF Scope
<1>5. UNCHANGED <<now, config, ledger, log>> /\ now \in 0..MaxNow /\ config \subseteq Symbols
  BY DEF Recompute, LedgerInv, TypeOK
<1>6. session' = [session EXCEPT ![p] = Idle] \/ session' = [session EXCEPT ![p] = k]
  BY <1>1
<1>. HIDE DEF k, todo
<1>. QED BY <1>2, <1>3, <1>4, <1>5, <1>6, Idling, QuietOK

LEMMA CheckOK ==
    ASSUME LedgerInv, NEW p \in Sessions, NEW i, Check(p, i) PROVE LedgerInv'
<1>. DEFINE k == session[p]
            found == [k EXCEPT !.pc = "read", !.ids = {i}]
            rest == [k EXCEPT !.todo = @ \ {i}]
<1>1. /\ k \in Session /\ SessionOK(p, k) /\ k.pc = "check" /\ i \in k.todo /\ i \in Ids
      /\ k.at \in Nat
  BY DEF Check, LedgerInv, TypeOK, Session
<1>2. \/ ~Suppressed(i, k.at) /\ session' = [session EXCEPT ![p] = found]
      \/ session' = [session EXCEPT ![p] = Idle]
      \/ session' = [session EXCEPT ![p] = rest]
  BY DEF Check, LedgerInv, TypeOK, Session
<1>3. UNCHANGED <<now, config, ledger, log, left>> /\ now \in 0..MaxNow /\ config \subseteq Symbols
      /\ left \in Scope
  BY DEF Check, LedgerInv, TypeOK
<1>4. found \in Session /\ rest \in Session
  BY <1>1 DEF Session
<1>5. SessionOK(p, rest)
  <2>1. rest.pc = "check" /\ rest.todo \subseteq k.todo
    BY <1>1 DEF Session
  <2>. HIDE DEF rest
  <2>. QED BY <1>1, <2>1 DEF SessionOK, Handled, Proposing
<1>6. CASE ~Suppressed(i, k.at) /\ session' = [session EXCEPT ![p] = found]
  <2>1. Allowed(p, i, k.at)
    BY <1>1, <1>6, NotSuppressed DEF LedgerInv
  <2>2. /\ found.pc = "read" /\ found.ids = {i} /\ found.todo = k.todo /\ found.at = k.at
    BY <1>1 DEF Session
  <2>. HIDE DEF found
  <2>3. SessionOK(p, found)
    BY <1>1, <2>1, <2>2 DEF SessionOK, Handled, Proposing
  <2>. QED BY <1>3, <1>4, <1>6, <2>3, QuietOK
<1>. HIDE DEF found, rest
<1>. QED BY <1>2, <1>3, <1>4, <1>5, <1>6, Idling, QuietOK

LEMMA ReadConflictsOK ==
    ASSUME LedgerInv, NEW p \in Sessions, ReadConflicts(p) PROVE LedgerInv'
<1>. DEFINE k == session[p]
            ids == k.ids \cup UNION {Conflicts(i) : i \in k.ids}
            l == [k EXCEPT !.pc = "insert", !.ids = ids]
<1>1. k \in Session /\ SessionOK(p, k) /\ k.pc = "read" /\ k.todo \subseteq Ids
  BY DEF ReadConflicts, LedgerInv, TypeOK, Session
<1>2. session' = [session EXCEPT ![p] = l]
  BY <1>1 DEF ReadConflicts, LedgerInv, TypeOK, Session
<1>3. UNCHANGED <<now, config, ledger, log, left>> /\ now \in 0..MaxNow /\ config \subseteq Symbols
      /\ left \in Scope
  BY DEF ReadConflicts, LedgerInv, TypeOK
<1>4. \A i : Conflicts(i) \subseteq In("pending") /\ In("pending") \subseteq Ids
  BY DEF Conflicts, In
<1>5. l \in Session
  BY <1>1, <1>4 DEF Session
<1>6. SessionOK(p, l)
  <2>1. l.pc = "insert" /\ l.ids = ids /\ l.todo = k.todo /\ l.at = k.at
    BY <1>1 DEF Session
  <2>2. k.ids \subseteq k.todo /\ \A i, j \in k.todo : i.symbol = j.symbol => i = j
    BY <1>1 DEF SessionOK, Proposing
  <2>3. ids \ k.todo \subseteq In("pending")
    BY <1>4, <2>2
  <2>4. ids \cap k.todo = k.ids
    <3>1. ASSUME NEW i \in k.ids, NEW j \in Conflicts(i) PROVE j \notin k.todo
      BY <2>2 DEF Conflicts
    <3>. QED BY <2>2, <3>1
  <2>5. \A i \in Handled(l) : ledger[i] # None /\ ~DecidedBy(p, i)
    <3>1. Handled(l) = ids \ k.todo
      BY <2>1 DEF Handled
    <3>. QED BY <2>3, <3>1, PendingFresh DEF LedgerInv
  <2>6. \A i \in k.ids : Allowed(p, i, k.at) /\ Conflicts(i) \subseteq ids
    BY <1>1, <2>2 DEF SessionOK
  <2>. HIDE DEF l, ids
  <2>. QED BY <2>1, <2>2, <2>4, <2>5, <2>6 DEF SessionOK
<1>. QED BY <1>2, <1>3, <1>5, <1>6, QuietOK

LEMMA SweepReadOK ==
    ASSUME LedgerInv, NEW p \in Sessions, SweepRead(p) PROVE LedgerInv'
<1>. DEFINE k == session[p]
            list == [k EXCEPT !.pc = "list"]
            sweep == [k EXCEPT !.pc = "sweep", !.ids = Due(now), !.at = now]
<1>1. k \in Session /\ SessionOK(p, k) /\ k.pc = "opened" /\ now \in 0..MaxNow
  BY DEF SweepRead, LedgerInv, TypeOK
<1>2. session' = [session EXCEPT ![p] = list] \/ session' = [session EXCEPT ![p] = sweep]
  BY <1>1 DEF SweepRead, LedgerInv, TypeOK
<1>3. UNCHANGED <<now, config, ledger, log, left>> /\ config \subseteq Symbols /\ left \in Scope
  BY DEF SweepRead, LedgerInv, TypeOK
<1>4. Due(now) \subseteq In("pending") /\ In("pending") \subseteq Ids
  BY DEF Due, In
<1>5. /\ list \in Session /\ list.pc = "list"
      /\ sweep \in Session /\ sweep.pc = "sweep" /\ sweep.ids = Due(now)
  BY <1>1, <1>4 DEF Session
<1>. HIDE DEF list, sweep
<1>6. SessionOK(p, list)
  BY <1>5 DEF SessionOK, Handled, Proposing
<1>7. SessionOK(p, sweep)
  <2>1. \A i \in Handled(sweep) : ledger[i] # None /\ ~DecidedBy(p, i)
    BY <1>4, <1>5, PendingFresh DEF Handled, LedgerInv
  <2>. QED BY <1>5, <2>1 DEF SessionOK, Proposing
<1>. QED BY <1>1, <1>2, <1>3, <1>5, <1>6, <1>7, QuietOK

LEMMA ListOK ==
    ASSUME LedgerInv, NEW p \in Sessions, List(p) PROVE LedgerInv'
<1>. DEFINE k == session[p]
            l == [k EXCEPT !.pc = "choose", !.ids = In("pending")]
<1>1. k \in Session /\ k.pc = "list"
  BY DEF List, LedgerInv, TypeOK
<1>2. session' = [session EXCEPT ![p] = l]
  BY <1>1 DEF List, LedgerInv, TypeOK
<1>3. UNCHANGED <<now, config, ledger, log, left>> /\ now \in 0..MaxNow /\ config \subseteq Symbols
      /\ left \in Scope
  BY DEF List, LedgerInv, TypeOK
<1>4. l \in Session /\ l.pc = "choose" /\ l.ids = In("pending")
  BY <1>1 DEF Session, In
<1>. HIDE DEF l
<1>5. SessionOK(p, l)
  <2>1. \A i \in Handled(l) : ledger[i] # None /\ ~DecidedBy(p, i)
    BY <1>4, PendingFresh DEF Handled, LedgerInv
  <2>. QED BY <1>4, <2>1 DEF SessionOK, Proposing
<1>. QED BY <1>2, <1>3, <1>4, <1>5, QuietOK

LEMMA ChooseOK ==
    ASSUME LedgerInv, NEW p \in Sessions, Choose(p) PROVE LedgerInv'
<1>. DEFINE k == session[p]
<1>1. k \in Session /\ SessionOK(p, k) /\ k.pc = "choose" /\ k.ids \subseteq Ids
  BY DEF Choose, LedgerInv, TypeOK, Session
<1>2. UNCHANGED <<now, config, ledger, log>> /\ now \in 0..MaxNow /\ config \subseteq Symbols
      /\ left \in Scope
  BY DEF Choose, LedgerInv, TypeOK
<1>3. CASE session' = [session EXCEPT ![p] = Idle] /\ UNCHANGED left
  BY <1>2, <1>3, Idling, QuietOK
<1>4. ASSUME left.clicks > 0, left' = [left EXCEPT !.clicks = @ - 1],
             NEW todo \in SUBSET k.ids, NEW verb \in Verbs,
             session' = [session EXCEPT ![p] =
                IF verb = "applied" THEN [@ EXCEPT !.pc = "save", !.todo = todo, !.ids = {}]
                ELSE [Idle EXCEPT !.pc = "mark", !.todo = todo, !.verb = verb]]
      PROVE  LedgerInv'
  <2>. DEFINE save == [k EXCEPT !.pc = "save", !.todo = todo, !.ids = {}]
              mark == [Idle EXCEPT !.pc = "mark", !.todo = todo, !.verb = verb]
  <2>1. left' \in Scope
    <3>1. left.clicks - 1 \in Nat
      BY <1>2, <1>4 DEF Scope
    <3>. QED BY <1>2, <1>4, <3>1 DEF Scope
  <2>2. session' = [session EXCEPT ![p] = save] \/ session' = [session EXCEPT ![p] = mark]
    BY <1>4 DEF LedgerInv, TypeOK
  <2>3. save \in Session /\ save.pc = "save" /\ save.todo = todo
    BY <1>1, <1>4 DEF Session
  <2>4. mark \in Session /\ mark.pc = "mark" /\ mark.todo = todo
    <3>1. todo \in SUBSET Ids
      BY <1>1, <1>4
    <3>. QED BY <3>1, <1>4, Marking
  <2>. HIDE DEF save, mark
  <2>5. \A i \in todo : ledger[i] # None /\ ~DecidedBy(p, i)
    BY <1>1, <1>4 DEF SessionOK, Handled
  <2>6. SessionOK(p, save) /\ SessionOK(p, mark)
    BY <2>3, <2>4, <2>5 DEF SessionOK, Handled, Proposing
  <2>. QED BY <1>2, <2>1, <2>2, <2>3, <2>4, <2>6, QuietOK
<1>. QED BY <1>3, <1>4 DEF Choose

LEMMA SaveOK ==
    ASSUME LedgerInv, NEW p \in Sessions, Save(p) PROVE LedgerInv'
<1>. DEFINE k == session[p]
            mark == [Idle EXCEPT !.pc = "mark", !.todo = k.todo]
<1>1. k \in Session /\ SessionOK(p, k) /\ k.pc = "save" /\ k.todo \subseteq Ids /\ k.config \subseteq Symbols
  BY DEF Save, LedgerInv, TypeOK, Session
<1>2. session' = [session EXCEPT ![p] = mark] /\ UNCHANGED <<now, ledger, log, left>>
      /\ now \in 0..MaxNow /\ left \in Scope
  BY DEF Save, LedgerInv, TypeOK
<1>3. config' \subseteq Symbols
  <2>1. {i.symbol : i \in k.todo} \subseteq Symbols
    BY <1>1 DEF Ids
  <2>2. \/ config' = config
        \/ config' = (k.config \cup {i.symbol : i \in k.todo})
                        \ {i.symbol : i \in {j \in k.todo : j.what = Prune}}
    BY DEF Save
  <2>. QED BY <1>1, <2>1, <2>2 DEF LedgerInv, TypeOK
<1>4. mark \in Session /\ mark.pc = "mark" /\ mark.todo = k.todo
  <2>1. k.todo \in SUBSET Ids /\ "applied" \in Verbs
    BY <1>1 DEF Verbs
  <2>. QED BY <2>1, Marking
<1>. HIDE DEF mark
<1>5. SessionOK(p, mark)
  <2>1. \A i \in k.todo : ledger[i] # None /\ ~DecidedBy(p, i)
    BY <1>1 DEF SessionOK, Handled
  <2>. QED BY <1>4, <2>1 DEF SessionOK, Handled, Proposing
<1>. QED BY <1>2, <1>3, <1>4, <1>5, QuietOK

LEMMA MarkReadOK ==
    ASSUME LedgerInv, NEW p \in Sessions, NEW i, MarkRead(p, i) PROVE LedgerInv'
<1>. DEFINE k == session[p]
            l(pc) == [k EXCEPT !.ids = {i}, !.at = now, !.pc = pc]
<1>1. k \in Session /\ SessionOK(p, k) /\ k.pc = "mark" /\ i \in k.todo /\ k.todo \subseteq Ids
  BY DEF MarkRead, LedgerInv, TypeOK, Session
<1>2. UNCHANGED <<now, config, ledger, log, left>> /\ now \in 0..MaxNow /\ config \subseteq Symbols
      /\ left \in Scope
  BY DEF MarkRead, LedgerInv, TypeOK
<1>3. \/ session' = [session EXCEPT ![p] = Idle]
      \/ session' = [session EXCEPT ![p] = l("write")]
      \/ session' = [session EXCEPT ![p] = l("expire")]
  BY DEF MarkRead, LedgerInv, TypeOK
<1>4. ASSUME NEW pc \in {"write", "expire"}
      PROVE  l(pc) \in Session /\ SessionOK(p, l(pc))
  <2>1. l(pc) \in Session /\ l(pc).pc = pc /\ l(pc).todo = k.todo /\ l(pc).ids = {i}
    BY <1>1, <1>2 DEF Session
  <2>2. \A j \in k.todo : ledger[j] # None /\ ~DecidedBy(p, j)
    BY <1>1 DEF SessionOK, Handled
  <2>. HIDE DEF l
  <2>. QED BY <1>1, <2>1, <2>2 DEF SessionOK, Handled, Proposing
<1>. HIDE DEF l
<1>. QED BY <1>2, <1>3, <1>4, Idling, QuietOK

-----------------------------------------------------------------------------
(* Steps that write to the ledger.                                         *)

\* Where no id of the symbol is noted nothing is.
LEMMA NoNotes ==
    ASSUME NEW p \in Sessions, NEW s \in Symbols, NEW ids \in SUBSET Ids, \A i \in ids : i.symbol # s,
           NEW what \in Terminal \cup {"created", "dismissed"}, NEW t \in 0..MaxNow
    PROVE  Notes(p, s, ids, what, t) = <<>>
<1>. DEFINE none == Notes(p, s, ids, what, t)
<1>1. /\ none \in Seq(Decision) /\ Len(none) \in Nat
      /\ \A n \in 1..Len(none) : none[n].id \in ids /\ none[n].id.symbol = s
  BY NotesMade
<1>. HIDE DEF none
<1>2. Len(none) = 0
  BY <1>1
<1>3. none = <<>>
  BY <1>1, <1>2
<1>. QED BY <1>3 DEF none

\* The notes of one kind alone.
LEMMA OneKind ==
    ASSUME NEW p \in Sessions, NEW A \in SUBSET Ids, NEW what \in Terminal \cup {"dismissed"},
           NEW t \in 0..MaxNow, log \in [Symbols -> Seq(Decision)],
           \/ log' = [s \in Symbols |-> log[s] \o Notes(p, s, A, what, t)]
           \/ \E i \in Ids : A = {i} /\ log' = [log EXCEPT ![i.symbol] = @ \o Notes(p, i.symbol, {i}, what, t)]
    PROVE  LogStep(p, A, what, {}, t)
<1>0. what \in Terminal \cup {"created", "dismissed"}
  OBVIOUS
<1>1. ASSUME NEW s \in Symbols
      PROVE  log[s] \o Notes(p, s, A, what, t) \o Notes(p, s, {}, "created", t)
                = log[s] \o Notes(p, s, A, what, t)
  <2>1. Notes(p, s, A, what, t) \in Seq(Decision)
    BY <1>0, NotesMade
  <2>2. log[s] \o Notes(p, s, A, what, t) \in Seq(Decision)
    BY <2>1
  <2>3. Notes(p, s, {}, "created", t) = <<>>
    <3>1. "created" \in Terminal \cup {"created", "dismissed"} /\ {} \in SUBSET Ids
      OBVIOUS
    <3>. QED BY <3>1, NoNotes
  <2>4. \A notes \in Seq(Decision) : notes \o <<>> = notes
    OBVIOUS
  <2>. QED BY <2>2, <2>3, <2>4
<1>2. CASE log' = [s \in Symbols |-> log[s] \o Notes(p, s, A, what, t)]
  BY <1>1, <1>2 DEF LogStep
<1>3. ASSUME NEW i \in Ids, A = {i}, log' = [log EXCEPT ![i.symbol] = @ \o Notes(p, i.symbol, {i}, what, t)]
      PROVE  LogStep(p, A, what, {}, t)
  <2>1. ASSUME NEW s \in Symbols PROVE log'[s] = log[s] \o Notes(p, s, A, what, t)
    <3>1. CASE s = i.symbol
      BY <1>3, <3>1
    <3>2. CASE s # i.symbol
      <4>1. log'[s] = log[s]
        BY <1>3, <3>2
      <4>2. log[s] \in Seq(Decision) /\ \A j \in A : j.symbol # s
        BY <1>3, <3>2
      <4>3. Notes(p, s, A, what, t) = <<>>
        BY <1>0, <4>2, NoNotes
      <4>. QED BY <4>1, <4>2, <4>3
    <3>. QED BY <3>1, <3>2
  <2>2. log' = [s \in Symbols |-> log'[s]]
    BY <1>3
  <2>. QED BY <1>1, <2>1, <2>2 DEF LogStep
<1>. QED BY <1>2, <1>3

\* A session has created what it had created and what it creates, and decided
\* what it had and what it decides.
LEMMA OwnNotes ==
    ASSUME NEW p \in Sessions, NEW A, NEW what \in Terminal \cup {"dismissed"}, NEW B, NEW t,
           NEW i \in Ids, Continues(log[i.symbol], log'[i.symbol], i.symbol, p, A, what, B, t)
    PROVE  /\ \A q : Created(q, i)' => Created(q, i) \/ i \in B
           /\ DecidedBy(p, i)' => DecidedBy(p, i) \/ i \in A
<1>. DEFINE s == i.symbol
<1>1. ASSUME NEW n \in DOMAIN log'[s]
      PROVE  \/ n \in DOMAIN log[s] /\ log'[s][n] = log[s][n]
             \/ log'[s][n].id \in A /\ log'[s][n].what # "created"
             \/ log'[s][n].id \in B /\ log'[s][n].what = "created"
  <2>1. what # "created"
    BY DEF Terminal
  <2>2. n \in 1..Len(log[s]) \/ n \in Len(log[s]) + 1..Len(log'[s])
    BY DEF Continues
  <2>. QED BY <2>1, <2>2 DEF Continues
<1>2. ASSUME NEW q, Created(q, i)' PROVE Created(q, i) \/ i \in B
  BY <1>1, <1>2 DEF Created
<1>3. ASSUME DecidedBy(p, i)' PROVE DecidedBy(p, i) \/ i \in A
  BY <1>1, <1>3 DEF DecidedBy
<1>. QED BY <1>2, <1>3

LEMMA LoudOK ==
    ASSUME LedgerInv, NEW p \in Sessions, NEW k \in Session, session' = [session EXCEPT ![p] = k],
           NEW A \in SUBSET Ids, NEW B \in SUBSET Ids, A \cap B = {},
           NEW what \in Terminal \cup {"dismissed"}, NEW t \in 0..MaxNow,
           LogStep(p, A, what, B, t), ledger' \in [Ids -> Row \cup {None}], RowsGoOn,
           Decides(p, A, what, B, t), SessionOK(p, k)', OneRulePerSession',
           UNCHANGED <<now, config, left>>
    PROVE  LedgerInv'
<1>1. /\ log' \in [Symbols -> Seq(Decision)]
      /\ \A s \in Symbols : Continues(log[s], log'[s], s, p, A, what, B, t)
  BY Noting DEF LedgerInv, TypeOK
<1>2. TypeOK'
  BY <1>1 DEF LedgerInv, TypeOK
<1>3. NotesOK' /\ DismissalsLast' /\ DecidesOnce' /\ DismissalsHold'
  BY <1>1, DecidingOK DEF LedgerInv
<1>4. ASSUME NEW q \in Sessions PROVE SessionOK(q, session[q])'
  <2>1. CASE q = p
    <3>1. session'[q] = k
      BY <2>1 DEF LedgerInv, TypeOK
    <3>. QED BY <2>1, <3>1 DEF SessionOK
  <2>2. CASE q # p
    <3>1. PICK l \in Session : l = session[q] /\ session'[q] = l
      BY <2>2 DEF LedgerInv, TypeOK
    <3>2. SessionOK(q, l)
      BY <3>1 DEF LedgerInv
    <3>3. \A s \in Symbols : Grown(log[s], log'[s], p)
      BY <1>1, ContinuesGrown
    <3>4. SessionOK(q, l)'
      BY <2>2, <3>2, <3>3, OthersOK DEF LedgerInv
    <3>. QED BY <3>1, <3>4 DEF SessionOK
  <2>. QED BY <2>1, <2>2
<1>. QED BY <1>2, <1>3, <1>4 DEF LedgerInv

\* A call that creates nothing leaves the pending rows of every session alike.
LEMMA RulesStay ==
    ASSUME LedgerInv, NEW p \in Sessions, NEW A, NEW what \in Terminal \cup {"dismissed"}, NEW t,
           \A s \in Symbols : Continues(log[s], log'[s], s, p, A, what, {}, t),
           In("pending")' \subseteq In("pending")
    PROVE  OneRulePerSession'
<1>1. ASSUME NEW q \in Sessions, NEW i \in In("pending")', Created(q, i)'
      PROVE  i \in In("pending") /\ Created(q, i)
  <2>1. i \in In("pending") /\ i \in Ids /\ i.symbol \in Symbols
    BY DEF In, Ids
  <2>2. PICK none : none = {} /\ Continues(log[i.symbol], log'[i.symbol], i.symbol, p, A, what, none, t)
    BY <2>1
  <2>3. \A r : Created(r, i)' => Created(r, i) \/ i \in none
    BY <2>1, <2>2, OwnNotes
  <2>. QED BY <1>1, <2>1, <2>2, <2>3
<1>. QED BY <1>1 DEF LedgerInv, OneRulePerSession

\* What p notes of A it has not decided before, and the rows of A are decided then.
Settles(p, A, what, t) ==
    /\ \A i \in A : ledger[i] # None /\ ~DecidedBy(p, i) /\ ledger'[i].status # "pending"
    /\ what = "dismissed" => \A i \in A : /\ ledger'[i].status = "dismissed"
                                          /\ ledger'[i].until = t + Dismissal
    /\ \A i \in Ids \ A : ledger'[i] = ledger[i]
    /\ \A i \in Ids : ledger[i] # None /\ ledger[i].status # "pending" => ledger'[i].status # "pending"
    /\ ledger' \in [Ids -> Row \cup {None}]
    /\ \A i \in A : ledger'[i] \in Row

\* The rows of the ids A are decided, and nothing else is written.
LEMMA DecideOK ==
    ASSUME LedgerInv, NEW p \in Sessions, NEW k \in Session, session' = [session EXCEPT ![p] = k],
           NEW A \in SUBSET Ids, NEW what \in Terminal \cup {"dismissed"}, NEW t \in 0..MaxNow,
           \/ log' = [s \in Symbols |-> log[s] \o Notes(p, s, A, what, t)]
           \/ \E i \in Ids : A = {i} /\ log' = [log EXCEPT ![i.symbol] = @ \o Notes(p, i.symbol, {i}, what, t)],
           Settles(p, A, what, t),
           (\A j \in Ids : DecidedBy(p, j)' => DecidedBy(p, j) \/ j \in A) => SessionOK(p, k)',
           UNCHANGED <<now, config, left>>
    PROVE  LedgerInv'
<1>1. LogStep(p, A, what, {}, t)
  BY OneKind DEF LedgerInv, TypeOK
<1>2. PICK none \in SUBSET Ids : none = {} /\ LogStep(p, A, what, none, t)
  BY <1>1
<1>3. \A i \in Ids : ledger[i] # None => ledger'[i] # None
  BY NoRowAssumption DEF Settles
<1>4. ledger' \in [Ids -> Row \cup {None}] /\ RowsGoOn
  BY <1>3 DEF Settles, RowsGoOn
<1>5. A \cap none = {} /\ Decides(p, A, what, none, t)
  BY <1>2 DEF Settles, Decides
<1>6. log \in [Symbols -> Seq(Decision)]
  BY DEF LedgerInv, TypeOK
<1>7. \A s \in Symbols : Continues(log[s], log'[s], s, p, A, what, none, t)
  BY <1>2, <1>5, <1>6, Noting
<1>8. In("pending")' \subseteq In("pending")
  <2>1. ASSUME NEW i \in Ids, ledger'[i] # None, ledger'[i].status = "pending"
        PROVE  ledger[i] # None /\ ledger[i].status = "pending"
    BY <2>1 DEF Settles
  <2>. QED BY <2>1 DEF In
<1>9. OneRulePerSession'
  BY <1>2, <1>7, <1>8, RulesStay
<1>10. SessionOK(p, k)'
  <2>1. ASSUME NEW j \in Ids, DecidedBy(p, j)' PROVE DecidedBy(p, j) \/ j \in A
    <3>1. Continues(log[j.symbol], log'[j.symbol], j.symbol, p, A, what, none, t)
      BY <1>7 DEF Ids
    <3>. QED BY <2>1, <3>1, OwnNotes
  <2>. QED BY <2>1
<1>. QED BY <1>2, <1>4, <1>5, <1>9, <1>10, LoudOK

\* A rerun that has nothing more to decide knows what it must.
LEMMA DoneOK == ASSUME NEW p, NEW k \in Session, k.pc \in {"idle", "list"} PROVE SessionOK(p, k)'
BY DEF SessionOK, Handled, Proposing

LEMMA SweepWriteOK ==
    ASSUME LedgerInv, NEW p \in Sessions, SweepWrite(p) PROVE LedgerInv'
<1>1. PICK k \in Session : k = session[p]
  BY DEF LedgerInv, TypeOK
<1>2. /\ SessionOK(p, k) /\ k.pc = "sweep" /\ k.ids \in SUBSET Ids /\ k.at \in 0..MaxNow
      /\ session' = [session EXCEPT ![p] = [k EXCEPT !.pc = "list", !.ids = {}, !.at = 0]]
      /\ UNCHANGED <<now, config, left>>
      /\ log' = [s \in Symbols |-> log[s] \o Notes(p, s, k.ids, "expired", k.at)]
      /\ ledger' = [i \in Ids |->
            IF i \in k.ids \cap In("pending") THEN [ledger[i] EXCEPT !.status = "expired"] ELSE ledger[i]]
  BY <1>1 DEF SweepWrite, LedgerInv, TypeOK, Session
<1>3. PICK l \in Session : l.pc = "list" /\ session' = [session EXCEPT ![p] = l]
  <2>1. [k EXCEPT !.pc = "list", !.ids = {}, !.at = 0] \in Session
    <3>1. 0 \in 0..MaxNow
      BY TimesAssumption
    <3>. QED BY <3>1 DEF Session
  <2>2. [k EXCEPT !.pc = "list", !.ids = {}, !.at = 0].pc = "list"
    BY DEF Session
  <2>. QED BY <1>2, <2>1, <2>2
<1>4. SessionOK(p, l)'
  BY <1>3, DoneOK
<1>5. ASSUME NEW i \in Ids, i \in k.ids \cap In("pending")
      PROVE  ledger'[i] \in Row /\ ledger'[i].status = "expired"
  <2>1. ledger[i] \in Row
    BY <1>5 DEF In, LedgerInv, TypeOK
  <2>2. ledger'[i] = [ledger[i] EXCEPT !.status = "expired"]
    BY <1>2, <1>5
  <2>. QED BY <2>1, <2>2 DEF Row, Statuses, Terminal
<1>6. ASSUME NEW i \in Ids, i \notin k.ids \cap In("pending")
      PROVE  ledger'[i] = ledger[i]
  BY <1>2, <1>6
<1>7. ASSUME NEW i \in Ids PROVE ledger'[i] \in Row \cup {None}
  BY <1>5, <1>6 DEF LedgerInv, TypeOK
<1>8. ledger' \in [Ids -> Row \cup {None}]
  <2>1. ledger' = [i \in Ids |-> ledger'[i]]
    BY <1>2
  <2>. QED BY <1>7, <2>1
<1>9. ASSUME NEW i \in k.ids
      PROVE  ledger[i] # None /\ ~DecidedBy(p, i) /\ ledger'[i].status # "pending" /\ ledger'[i] \in Row
  <2>1. ledger[i] # None /\ ~DecidedBy(p, i) /\ i \in Ids
    BY <1>2 DEF SessionOK, Handled
  <2>2. CASE i \in In("pending")
    BY <1>5, <2>1, <2>2
  <2>3. CASE i \notin In("pending")
    <3>1. ledger'[i] = ledger[i] /\ ledger[i].status # "pending"
      BY <1>6, <2>1, <2>3 DEF In
    <3>. QED BY <2>1, <3>1 DEF LedgerInv, TypeOK
  <2>. QED BY <2>2, <2>3
<1>10. ASSUME NEW i \in Ids, ledger[i] # None, ledger[i].status # "pending"
       PROVE  ledger'[i].status # "pending"
  BY <1>6, <1>10 DEF In
<1>11. Settles(p, k.ids, "expired", k.at)
  BY <1>6, <1>8, <1>9, <1>10 DEF Settles
<1>12. "expired" \in Terminal \cup {"dismissed"}
  BY DEF Terminal
<1>. QED BY <1>2, <1>3, <1>4, <1>11, <1>12, DecideOK

\* One row is decided, and nothing else is written.
LEMMA MarkedOK ==
    ASSUME LedgerInv, NEW p \in Sessions, NEW l \in Session, l = session[p],
           NEW k \in Session, session' = [session EXCEPT ![p] = k],
           NEW i \in Handled(l), NEW row \in Row, NEW t \in 0..MaxNow,
           row.status \in Terminal \cup {"dismissed"},
           row.status = "dismissed" => row.until = t + Dismissal,
           ledger' = [ledger EXCEPT ![i] = row],
           log' = [log EXCEPT ![i.symbol] = @ \o Notes(p, i.symbol, {i}, row.status, t)],
           k.pc = "idle" \/ (k.pc = "mark" /\ k.todo \subseteq Handled(l) \ {i}),
           UNCHANGED <<now, config, left>>
    PROVE  LedgerInv'
<1>1. Handled(l) \subseteq Ids /\ i \in Ids
  BY DEF Handled, Session
<1>2. \A j \in Handled(l) : ledger[j] # None /\ ~DecidedBy(p, j)
  BY DEF LedgerInv, SessionOK
<1>3. row.status # "pending"
  BY DEF Terminal
<1>4. ledger' \in [Ids -> Row \cup {None}]
  BY <1>1 DEF LedgerInv, TypeOK
<1>5. \A j \in Ids : ledger'[j] = IF j = i THEN row ELSE ledger[j]
  BY <1>1 DEF LedgerInv, TypeOK
<1>6. Settles(p, {i}, row.status, t)
  BY <1>1, <1>2, <1>3, <1>4, <1>5 DEF Settles
<1>7. ASSUME \A j \in Ids : DecidedBy(p, j)' => DecidedBy(p, j) \/ j \in {i}
      PROVE  SessionOK(p, k)'
  <2>1. CASE k.pc = "idle"
    BY <2>1, DoneOK
  <2>2. CASE k.pc = "mark" /\ k.todo \subseteq Handled(l) \ {i}
    <3>1. ASSUME NEW j \in k.todo PROVE ledger'[j] # None /\ ~DecidedBy(p, j)'
      BY <1>1, <1>2, <1>5, <1>7, <2>2
    <3>. QED BY <2>2, <3>1 DEF SessionOK, Handled, Proposing
  <2>. QED BY <2>1, <2>2
<1>8. {i} \in SUBSET Ids
  BY <1>1
<1>. QED BY <1>1, <1>6, <1>7, <1>8, DecideOK

LEMMA MarkWriteOK ==
    ASSUME LedgerInv, NEW p \in Sessions, NEW i, MarkWrite(p, i) PROVE LedgerInv'
<1>1. PICK k \in Session : k = session[p]
  BY DEF LedgerInv, TypeOK
<1>2. /\ SessionOK(p, k) /\ k.pc = "write" /\ i \in k.ids /\ k.todo \subseteq Ids
      /\ k.verb \in Verbs /\ k.at \in 0..MaxNow /\ UNCHANGED <<now, config, left>>
  BY <1>1 DEF MarkWrite, LedgerInv, TypeOK, Session
<1>3. i \in Handled(k) /\ i \in Ids /\ Handled(k) = k.todo /\ ledger[i] \in Row
  BY <1>2 DEF SessionOK, Handled, LedgerInv, TypeOK
<1>4. PICK l \in Session : l.pc = "mark" /\ l.todo = k.todo \ {i}
                              /\ l = [k EXCEPT !.pc = "mark", !.todo = @ \ {i}, !.ids = {}, !.at = 0]
  <2>1. 0 \in 0..MaxNow
    BY TimesAssumption
  <2>. QED BY <1>2, <2>1 DEF Session
<1>5. PICK until \in 0..MaxNow + Dismissal :
        until = IF k.verb = "dismissed" THEN k.at + Dismissal ELSE ledger[i].until
  <2>1. k.at + Dismissal \in 0..MaxNow + Dismissal
    BY <1>2, TimesAssumption
  <2>. QED BY <1>3, <2>1 DEF Row
<1>6. k.verb \in Statuses /\ k.verb \in Terminal \cup {"dismissed"}
  BY <1>2 DEF Verbs, Statuses, Terminal
<1>7. PICK row \in Row : /\ row = [ledger[i] EXCEPT !.status = k.verb, !.until = until]
                         /\ row.status = k.verb /\ row.until = until
  <2>1. PICK old \in Row : old = ledger[i]
    BY <1>3
  <2>2. PICK status \in Statuses : status = k.verb
    BY <1>6
  <2>3. LET row == [old EXCEPT !.status = status, !.until = until]
        IN  row \in Row /\ row.status = status /\ row.until = until
    BY DEF Row
  <2>. QED BY <2>1, <2>2, <2>3
<1>8. ledger' = [ledger EXCEPT ![i] = row]
  BY <1>1, <1>2, <1>3, <1>5, <1>7 DEF MarkWrite, LedgerInv, TypeOK
<1>9. log' = [log EXCEPT ![i.symbol] = @ \o Notes(p, i.symbol, {i}, row.status, k.at)]
  BY <1>1, <1>7 DEF MarkWrite
<1>10. PICK m \in Session : /\ m.pc = "idle" \/ (m.pc = "mark" /\ m.todo \subseteq Handled(k) \ {i})
                            /\ session' = [session EXCEPT ![p] = m]
  <2>1. session' = [session EXCEPT ![p] = Idle] \/ session' = [session EXCEPT ![p] = l]
    BY <1>1, <1>4 DEF MarkWrite
  <2>. QED BY <1>3, <1>4, <2>1, Idling DEF Idle
<1>. QED BY <1>1, <1>2, <1>3, <1>5, <1>6, <1>7, <1>8, <1>9, <1>10, MarkedOK

LEMMA MarkExpiredOK ==
    ASSUME LedgerInv, NEW p \in Sessions, NEW i, MarkExpired(p, i) PROVE LedgerInv'
<1>1. PICK k \in Session : k = session[p]
  BY DEF LedgerInv, TypeOK
<1>2. /\ SessionOK(p, k) /\ k.pc = "expire" /\ i \in k.ids /\ k.todo \subseteq Ids
      /\ k.at \in 0..MaxNow /\ UNCHANGED <<now, config, left>>
  BY <1>1 DEF MarkExpired, LedgerInv, TypeOK, Session
<1>3. i \in Handled(k) /\ i \in Ids /\ ledger[i] \in Row
  BY <1>2 DEF SessionOK, Handled, LedgerInv, TypeOK
<1>4. PICK row \in Row : row = [ledger[i] EXCEPT !.status = "expired"] /\ row.status = "expired"
  <2>1. PICK old \in Row : old = ledger[i]
    BY <1>3
  <2>2. "expired" \in Statuses /\ old.until \in 0..MaxNow + Dismissal
    BY DEF Row, Statuses, Terminal
  <2>3. LET row == [old EXCEPT !.status = "expired"] IN row \in Row /\ row.status = "expired"
    BY <2>2 DEF Row
  <2>. QED BY <2>1, <2>3
<1>5. ledger' = [ledger EXCEPT ![i] = row]
  BY <1>2, <1>3, <1>4 DEF MarkExpired, LedgerInv, TypeOK
<1>6. log' = [log EXCEPT ![i.symbol] = @ \o Notes(p, i.symbol, {i}, row.status, k.at)]
  BY <1>1, <1>4 DEF MarkExpired
<1>7. PICK m \in Session : m.pc = "idle" /\ session' = [session EXCEPT ![p] = m]
  BY Idling DEF MarkExpired, Idle
<1>8. row.status \in Terminal \cup {"dismissed"} /\ row.status # "dismissed"
  BY <1>4 DEF Terminal
<1>. QED BY <1>1, <1>2, <1>3, <1>5, <1>6, <1>7, <1>8, MarkedOK

\* The first proposal was found allowed, and its conflicts were read, in the steps
\* before; the others are looked at in the transaction itself.
LEMMA InsertOK ==
    ASSUME LedgerInv, NEW p \in Sessions, Insert(p) PROVE LedgerInv'
<1>1. PICK k \in Session : k = session[p]
  BY DEF LedgerInv, TypeOK
<1>2. SessionOK(p, k) /\ k.pc = "insert" /\ k.todo \subseteq Ids /\ k.ids \subseteq Ids
      /\ k.at \in 0..MaxNow /\ k.at \in Nat
  BY <1>1, TimesAssumption DEF Insert, LedgerInv, TypeOK, Session
<1>3. /\ \A i \in k.ids \ k.todo : ledger[i] # None /\ ~DecidedBy(p, i)
      /\ \A i, j \in k.todo : i.symbol = j.symbol => i = j
      /\ \A i \in k.ids \cap k.todo : Allowed(p, i, k.at)
      /\ \A i \in k.ids \cap k.todo : \A j \in Conflicts(i) : Created(p, j) => j \in k.ids
  BY <1>2 DEF SessionOK, Handled, Proposing
<1>4. PICK rest : rest = {i \in k.todo \ k.ids : ~Suppressed(i, k.at)}
  OBVIOUS
<1>5. PICK come : come = {i \in (k.todo \cap k.ids) \cup rest : ledger[i] = None}
  OBVIOUS
<1>6. PICK gone : gone = (k.ids \ k.todo) \cup UNION {Conflicts(i) : i \in rest}
  OBVIOUS
<1>7. /\ ledger' = [i \in Ids |->
            IF i \in come THEN [status |-> "pending", until |-> 0]
            ELSE IF i \in gone \cap In("pending") THEN [ledger[i] EXCEPT !.status = "superseded"]
            ELSE ledger[i]]
      /\ LogStep(p, gone, "superseded", come, k.at)
      /\ session' = [session EXCEPT ![p] = Idle]
      /\ UNCHANGED <<now, config, left>>
  BY <1>1, <1>4, <1>5, <1>6 DEF Insert, LogStep
<1>8. come \in SUBSET Ids /\ \A i \in come : ledger[i] = None /\ i \in k.todo /\ Allowed(p, i, k.at)
  <2>1. ASSUME NEW i \in rest PROVE i \in Ids /\ i \in k.todo /\ Allowed(p, i, k.at)
    <3>1. i \in Ids /\ i \in k.todo /\ ~Suppressed(i, k.at)
      BY <1>2, <1>4
    <3>. QED BY <1>2, <3>1, NotSuppressed DEF LedgerInv
  <2>2. \A i \in k.todo \cap k.ids : i \in Ids /\ Allowed(p, i, k.at)
    BY <1>2, <1>3
  <2>. QED BY <1>5, <2>1, <2>2
<1>9. gone \in SUBSET Ids /\ \A i \in gone : ledger[i] # None /\ ~DecidedBy(p, i)
  <2>1. ASSUME NEW i, NEW j \in Conflicts(i) PROVE j \in Ids /\ ledger[j] # None /\ ~DecidedBy(p, j)
    <3>1. j \in In("pending")
      BY DEF Conflicts
    <3>. QED BY <3>1, PendingFresh DEF LedgerInv
  <2>2. \A i \in k.ids \ k.todo : i \in Ids /\ ledger[i] # None /\ ~DecidedBy(p, i)
    BY <1>2, <1>3
  <2>. QED BY <1>6, <2>1, <2>2
<1>10. gone \cap come = {}
  BY <1>8, <1>9
<1>11. ASSUME NEW i \in come PROVE ledger'[i] \in Row /\ ledger'[i] # None
  <2>1. ledger'[i] = [status |-> "pending", until |-> 0]
    BY <1>7, <1>8
  <2>2. 0 \in 0..MaxNow + Dismissal
    BY TimesAssumption
  <2>. QED BY <2>1, <2>2, NoRowAssumption DEF Row, Statuses
<1>12. ASSUME NEW i \in gone
       PROVE  ledger'[i] \in Row /\ ledger'[i] # None /\ ledger'[i].status # "pending"
  <2>1. PICK old \in Row : old = ledger[i]
    BY <1>9 DEF LedgerInv, TypeOK
  <2>2. CASE i \in In("pending")
    <3>1. ledger'[i] = [old EXCEPT !.status = "superseded"]
      BY <1>7, <1>8, <1>9, <2>1, <2>2
    <3>. QED BY <3>1, NoRowAssumption DEF Row, Statuses, Terminal
  <2>3. CASE i \notin In("pending")
    <3>1. ledger'[i] = old
      BY <1>7, <1>8, <1>9, <2>1, <2>3
    <3>2. old.status # "pending"
      BY <1>9, <2>1, <2>3 DEF In
    <3>. QED BY <3>1, <3>2, NoRowAssumption
  <2>. QED BY <2>2, <2>3
<1>13. ASSUME NEW i \in Ids, i \notin come, i \notin gone PROVE ledger'[i] = ledger[i]
  BY <1>7, <1>13
<1>14. ledger' \in [Ids -> Row \cup {None}]
  <2>1. ASSUME NEW i \in Ids PROVE ledger'[i] \in Row \cup {None}
    BY <1>11, <1>12, <1>13 DEF LedgerInv, TypeOK
  <2>2. ledger' = [i \in Ids |-> ledger'[i]]
    BY <1>7
  <2>. QED BY <2>1, <2>2
<1>15. RowsGoOn
  <2>1. ASSUME NEW i \in Ids, ledger[i] # None
        PROVE  ledger'[i] # None /\ (ledger[i].status # "pending" => ledger'[i].status # "pending")
    BY <1>8, <1>12, <1>13, <2>1
  <2>. QED BY <2>1 DEF RowsGoOn
<1>16. Decides(p, gone, "superseded", come, k.at)
  <2>1. \A i \in Ids \ gone : ledger[i] # None => ledger'[i] = ledger[i]
    BY <1>8, <1>13
  <2>. QED BY <1>8, <1>9, <1>11, <1>12, <2>1 DEF Decides
<1>17. "superseded" \in Terminal \cup {"dismissed"}
  BY DEF Terminal
<1>18. \A s \in Symbols : Continues(log[s], log'[s], s, p, gone, "superseded", come, k.at)
  <2>1. log \in [Symbols -> Seq(Decision)]
    BY DEF LedgerInv, TypeOK
  <2>. QED BY <1>2, <1>7, <1>8, <1>9, <1>10, <1>17, <2>1, Noting
<1>19. ASSUME NEW q \in Sessions, NEW i \in In("pending")', Created(q, i)'
       PROVE  i \in Ids /\ (IF i \in come THEN q = p
                            ELSE i \in In("pending") \ gone /\ Created(q, i))
  <2>1. i \in Ids /\ ledger'[i] # None /\ ledger'[i].status = "pending" /\ i.symbol \in Symbols
    BY DEF In, Ids
  <2>2. Continues(log[i.symbol], log'[i.symbol], i.symbol, p, gone, "superseded", come, k.at)
    BY <1>18, <2>1
  <2>3. Grown(log[i.symbol], log'[i.symbol], p)
    BY <2>2, ContinuesGrown
  <2>4. CASE i \in come
    <3>1. ASSUME q # p PROVE FALSE
      <4>1. Created(q, i)
        BY <1>19, <2>3, <3>1, OthersDecide
      <4>2. PICK n \in DOMAIN log[i.symbol] : log[i.symbol][n].id = i
        BY <4>1 DEF Created
      <4>3. ledger[i] # None
        BY <2>1, <4>2 DEF LedgerInv, NotesOK
      <4>. QED BY <1>8, <2>4, <4>3
    <3>. QED BY <2>1, <2>4, <3>1
  <2>5. CASE i \notin come
    <3>1. Created(q, i)
      BY <1>17, <1>19, <2>1, <2>2, <2>5, OwnNotes
    <3>2. i \notin gone
      BY <1>12, <2>1
    <3>3. i \in In("pending")
      BY <1>13, <2>1, <2>5, <3>2 DEF In
    <3>. QED BY <2>1, <2>5, <3>1, <3>2, <3>3
  <2>. QED BY <2>4, <2>5
<1>20. ASSUME NEW i \in come, NEW j \in In("pending") \ gone, Created(p, j),
              i.what # Prune, j.what # Prune, i.symbol = j.symbol
       PROVE  i.what = j.what
  <2>. SUFFICES ASSUME i.what # j.what PROVE FALSE
    OBVIOUS
  <2>1. j \in Conflicts(i)
    BY <1>20 DEF Conflicts, IsKind
  <2>2. CASE i \in rest
    BY <1>6, <2>1, <2>2
  <2>3. CASE i \in k.todo \cap k.ids
    <3>1. j \in k.ids
      BY <1>3, <1>20, <2>1, <2>3
    <3>2. j \notin k.todo
      BY <1>3, <1>20, <2>3
    <3>. QED BY <1>6, <3>1, <3>2
  <2>. QED BY <1>5, <2>2, <2>3
<1>21. OneRulePerSession'
  <2>. SUFFICES ASSUME NEW q \in Sessions, NEW i \in In("pending")', NEW j \in In("pending")',
                       Created(q, i)', Created(q, j)', i.what # Prune, j.what # Prune,
                       i.symbol = j.symbol
                PROVE  i.what = j.what
    BY DEF OneRulePerSession
  <2>1. CASE i \in come /\ j \in come
    BY <1>3, <1>8, <2>1
  <2>2. CASE i \in come /\ j \notin come
    BY <1>19, <1>20, <2>2
  <2>3. CASE i \notin come /\ j \in come
    BY <1>19, <1>20, <2>3
  <2>4. CASE i \notin come /\ j \notin come
    <3>1. i \in In("pending") /\ j \in In("pending") /\ Created(q, i) /\ Created(q, j)
      BY <1>19, <2>4
    <3>. QED BY <3>1 DEF LedgerInv, OneRulePerSession
  <2>. QED BY <2>1, <2>2, <2>3, <2>4
<1>22. PICK m \in Session : m.pc = "idle" /\ session' = [session EXCEPT ![p] = m]
  BY <1>7, Idling DEF Idle
<1>23. SessionOK(p, m)'
  BY <1>22, DoneOK
<1>. QED BY <1>2, <1>7, <1>8, <1>9, <1>10, <1>14, <1>15, <1>16, <1>17, <1>21, <1>22, <1>23, LoudOK

-----------------------------------------------------------------------------
(* The invariant, and what follows from it.                                *)

LEMMA InitOK == ASSUME Init PROVE LedgerInv
<1>1. \A s \in Symbols : log[s] = <<>> /\ DOMAIN log[s] = {}
  BY DEF Init
<1>2. TypeOK
  <2>1. ledger \in [Ids -> Row \cup {None}] /\ log \in [Symbols -> Seq(Decision)]
    BY DEF Init
  <2>2. session \in [Sessions -> Session]
    BY Idling DEF Init
  <2>. QED BY <2>1, <2>2, TimesAssumption, ScopesAssumption DEF Init, TypeOK
<1>3. \A p \in Sessions : SessionOK(p, session[p])
  BY Idling DEF Init
<1>4. NotesOK /\ DismissalsLast /\ DecidesOnce /\ DismissalsHold
  BY <1>1 DEF NotesOK, DismissalsLast, DecidesOnce, DismissalsHold
<1>5. OneRulePerSession
  BY DEF Init, OneRulePerSession, In
<1>. QED BY <1>2, <1>3, <1>4, <1>5 DEF LedgerInv

\* Time alone, or nothing, goes by.
LEMMA StillOK ==
    ASSUME LedgerInv, now' \in 0..MaxNow, UNCHANGED <<config, ledger, log, session, left>>
    PROVE  LedgerInv'
<1>1. TypeOK'
  BY DEF LedgerInv, TypeOK
<1>2. ASSUME NEW q \in Sessions PROVE SessionOK(q, session[q])'
  <2>1. SessionOK(q, session'[q])
    BY DEF LedgerInv
  <2>. QED BY <2>1 DEF SessionOK, DecidedBy, Allowed, Overruled, Conflicts, Created, In
<1>3. NotesOK' /\ DecidesOnce' /\ DismissalsHold'
  BY DEF LedgerInv, NotesOK, DecidesOnce, DismissalsHold
<1>4. DismissalsLast'
  BY DEF LedgerInv, DismissalsLast, Overruled
<1>5. OneRulePerSession'
  BY DEF LedgerInv, OneRulePerSession, Created, In
<1>. QED BY <1>1, <1>2, <1>3, <1>4, <1>5 DEF LedgerInv

LEMMA TickOK == ASSUME LedgerInv, Tick PROVE LedgerInv'
<1>1. now \in 0..MaxNow /\ left.time \in 0..MaxNow
  BY DEF LedgerInv, TypeOK, Scope
<1>2. now' \in 0..MaxNow
  BY <1>1, TimesAssumption DEF Tick
<1>. QED BY <1>2, StillOK DEF Tick

LEMMA OpenOK == ASSUME LedgerInv, NEW p \in Sessions, Open(p) PROVE LedgerInv'
<1>1. PICK k \in Session : k.pc = "opened" /\ session' = [session EXCEPT ![p] = k]
  <2>1. config \subseteq Symbols
    BY DEF LedgerInv, TypeOK
  <2>2. LET k == [Idle EXCEPT !.pc = "opened", !.config = config] IN k \in Session /\ k.pc = "opened"
    BY <2>1, Idling DEF Session
  <2>. QED BY <2>2 DEF Open
<1>2. SessionOK(p, k)
  BY <1>1 DEF SessionOK, Handled, Proposing
<1>3. UNCHANGED <<now, config, ledger, log, left>> /\ now \in 0..MaxNow /\ config \subseteq Symbols
      /\ left \in Scope
  BY DEF Open, LedgerInv, TypeOK
<1>. QED BY <1>1, <1>2, <1>3, QuietOK

LEMMA CutOK == ASSUME LedgerInv, NEW p \in Sessions, Cut(p) PROVE LedgerInv'
<1>1. left' \in Scope
  <2>1. left \in Scope /\ left.cuts - 1 \in Nat /\ left' = [left EXCEPT !.cuts = @ - 1]
    BY DEF Cut, LedgerInv, TypeOK, Scope
  <2>. QED BY <2>1 DEF Scope
<1>2. UNCHANGED <<now, config, ledger, log>> /\ now \in 0..MaxNow /\ config \subseteq Symbols
  BY DEF Cut, LedgerInv, TypeOK
<1>. QED BY <1>1, <1>2, Idling, QuietOK DEF Cut

\* The sessions' steps, each whole, leave the ledger as the invariant says.
LEMMA LedgerInvariance == Spec => []LedgerInv
<1>1. Init => LedgerInv
  BY InitOK
<1>2. LedgerInv /\ [Next]_vars => LedgerInv'
  <2>. SUFFICES ASSUME LedgerInv, [Next]_vars PROVE LedgerInv'
    OBVIOUS
  <2>1. CASE Tick
    BY <2>1, TickOK
  <2>2. ASSUME NEW p \in Sessions, Open(p) \/ Recompute(p) \/ Cut(p) PROVE LedgerInv'
    BY <2>2, OpenOK, RecomputeOK, CutOK
  <2>3. ASSUME NEW p \in Sessions, Step(p) PROVE LedgerInv'
    <3>1. CASE ReadConflicts(p)
      BY <3>1, ReadConflictsOK
    <3>2. CASE Insert(p)
      BY <3>2, InsertOK
    <3>3. CASE SweepRead(p)
      BY <3>3, SweepReadOK
    <3>4. CASE SweepWrite(p)
      BY <3>4, SweepWriteOK
    <3>5. CASE List(p)
      BY <3>5, ListOK
    <3>6. CASE Choose(p)
      BY <3>6, ChooseOK
    <3>7. CASE Save(p)
      BY <3>7, SaveOK
    <3>8. ASSUME NEW i \in session[p].todo, Check(p, i) PROVE LedgerInv'
      BY <3>8, CheckOK
    <3>9. ASSUME NEW i \in session[p].todo, MarkRead(p, i) PROVE LedgerInv'
      BY <3>9, MarkReadOK
    <3>10. ASSUME NEW i \in session[p].todo, MarkWrite(p, i) PROVE LedgerInv'
      BY <3>10, MarkWriteOK
    <3>11. ASSUME NEW i \in session[p].todo, MarkExpired(p, i) PROVE LedgerInv'
      BY <3>11, MarkExpiredOK
    <3>. QED BY <2>3, <3>1, <3>2, <3>3, <3>4, <3>5, <3>6, <3>7, <3>8, <3>9, <3>10, <3>11 DEF Step
  <2>4. CASE UNCHANGED vars
    <3>1. now' \in 0..MaxNow
      BY <2>4 DEF vars, LedgerInv, TypeOK
    <3>. QED BY <2>4, <3>1, StillOK DEF vars
  <2>. QED BY <2>1, <2>2, <2>3, <2>4 DEF Next
<1>. QED BY <1>1, <1>2, PTL DEF Spec

\* However many sessions recompute, sweep, apply and dismiss at once, and wherever
\* their calls are cut off: the rows, the notes and the reruns of the inbox stay
\* what strategy_proposals, strategy_proposal_decisions and the page hold.
THEOREM LedgerTypeCorrect == Spec => []TypeOK
<1>1. LedgerInv => TypeOK
  BY DEF LedgerInv
<1>. QED BY <1>1, LedgerInvariance, PTL

\* A session never notes two decisions about one proposal, however old the list
\* it chose from is: mark_applied and mark_dismissed write without looking again,
\* and sweep_expired and _supersede_conflicting note rows that others decided in
\* the meantime, but no decided row is ever pending again.
THEOREM EachDecidesOnce == Spec => []DecidesOnce
<1>1. LedgerInv => DecidesOnce
  BY DEF LedgerInv
<1>. QED BY <1>1, LedgerInvariance, PTL

\* What a session has dismissed it does not propose again while the dismissal
\* lasts, although _is_suppressed looks before the transaction begins, unless
\* another session decided otherwise: a late mark_applied or sweep of a stale row
\* is all that takes dismissed_until away.
THEOREM DismissedStaysAway == Spec => []DismissalsHold
<1>1. LedgerInv => DismissalsHold
  BY DEF LedgerInv
<1>. QED BY <1>1, LedgerInvariance, PTL

\* Of the rule updates a session has proposed for a symbol those that wait agree:
\* _supersede_conflicting leaves none of its own behind, although the first of
\* them is looked for before the transaction that inserts the new one.
THEOREM NewerRuleReplaces == Spec => []OneRulePerSession
<1>1. LedgerInv => OneRulePerSession
  BY DEF LedgerInv
<1>. QED BY <1>1, LedgerInvariance, PTL

=============================================================================

----------------------------- MODULE MCStorage ------------------------------
(* What is stored: the runtime state's file, the tables with their archive     *)
(* files, and the rows that are compared with the exchange.  The three share   *)
(* no variable: a behavior is one of RuntimeState, Storage or Reconciliation.  *)
(*                                                                             *)
(* Day 1 is the only one before a window of a day when day 3 comes, and with   *)
(* day 4 there are two.  Two processes on one day meet in every way; restores  *)
(* are made with both stopped, so that one process is enough to meet them: of  *)
(* one backup four days on, of one of two on the third day.                    *)
(*                                                                             *)
(* Reconciliation compares symbol by symbol: with two symbols one can be read  *)
(* and the other fail; the orders of one symbol can hide each other.  A buy    *)
(* and a sell order together do without half fills.                            *)
EXTENDS RuntimeState, Storage, Reconciliation

VARIABLE part

StorageScopes ==
    {[keepers |-> Keepers, days |-> 3, windows |-> {1}, rows |-> 2,
      cuts |-> 1, backups |-> 0, restores |-> 0],
     [keepers |-> {Engine}, days |-> 4, windows |-> {1, 2}, rows |-> 2,
      cuts |-> 1, backups |-> 0, restores |-> 0],
     [keepers |-> {Engine}, days |-> 4, windows |-> {1}, rows |-> 2,
      cuts |-> 0, backups |-> 1, restores |-> 1],
     [keepers |-> {Engine}, days |-> 3, windows |-> {1}, rows |-> 2,
      cuts |-> 0, backups |-> 2, restores |-> 1]}

OneSymbol == [o \in Orders |-> 1]

ReconciliationExtents ==
    {[orders |-> {1}, halves |-> TRUE, symbols |-> {1}, dry |-> TRUE],
     [orders |-> {2}, halves |-> FALSE, symbols |-> {1, 2}, dry |-> TRUE],
     [orders |-> {1, 2}, halves |-> FALSE, symbols |-> {1}, dry |-> FALSE]}

\* The parts that a behavior leaves alone have one state.
MCInit ==
    /\ part \in {"state", "tables", "recon"} /\ Init /\ StorageInit /\ ReconInit
    /\ part # "tables" => left = CHOOSE scope \in StorageScopes : TRUE
    /\ part # "recon" =>
         /\ extent = CHOOSE e \in ReconciliationExtents : e.orders = {1}
         /\ free = {} /\ rules = {1} /\ client

\* Everything there is.
all == <<part, vars, storage, recon>>

OfState(A) == part = "state" /\ A /\ UNCHANGED <<part, storage, recon>>
OfTables(A) == part = "tables" /\ A /\ UNCHANGED <<part, vars, recon>>
OfRecon(A) == part = "recon" /\ A /\ UNCHANGED <<part, vars, storage>>

\* The last save may be over: nothing is left to do.
SavesOver == pc = "idle" /\ begun = MaxSaves /\ UNCHANGED vars

MCNext == OfState(Next) \/ OfState(SavesOver) \/ OfTables(StorageNext) \/ OfRecon(ReconNext)

\* The symbols that have orders; the calls for the others need not succeed.
Ordered == {OneSymbol[o] : o \in Orders}

\* A behavior has one part, so that one of the alternatives is fair: each part's
\* own steps, as its fair specification has them.
MCSpec ==
    /\ MCInit /\ [][MCNext]_all
    /\ WF_all(OfState(Saving) \/ OfTables(BeginDue) \/ OfRecon(StartUp))
    /\ WF_all(OfTables(Keep(Engine)) \/ OfRecon(Run))
    /\ \A s \in Ordered : SF_all(OfRecon(ReadSymbol(s)))
    /\ <>[][part = "recon" => ReconStep]_all
=============================================================================

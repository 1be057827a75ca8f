----------------------------- MODULE MCClients ------------------------------
(* The clients of Bitkub and of Telegram share no variable: a behavior is one  *)
(* of ApiClient or one of Telegram.                                            *)
(*                                                                             *)
(* Three messages are the least with which a command can be replaced before    *)
(* it is confirmed, or confirmed twice; with two rows in the outbox one can    *)
(* be repeated or be left for the next flush.  A message and a notice together *)
(* show the reply to a reload that is not told a second time.                  *)
EXTENDS Telegram, ApiClient

VARIABLE part

\* A unit is two minutes: 60 seconds are less, 180 seconds are not.
MinuteCooldown == [reload |-> 0, error |-> 1]

TelegramBudgets ==
    {[updates |-> 3, chats |-> {"a"}, texts |-> Texts, notices |-> 0],
     [updates |-> 2, chats |-> {"a", "b"}, texts |-> {"ask", "confirm"}, notices |-> 0],
     [updates |-> 1, chats |-> {"guest"}, texts |-> Texts, notices |-> 0],
     [updates |-> 2, chats |-> {"a"}, texts |-> {"ask", "confirm"}, notices |-> 1],
     [updates |-> 0, chats |-> {}, texts |-> {}, notices |-> 2]}

\* The part that a behavior leaves alone has one state; a call of the API client
\* is over in it.  Where no notice comes, no flush asks whether Telegram is on.
MCInit ==
    /\ part \in {"api", "bot"}
    /\ Init
    /\ part = "api" \/ budget.notices = 0 => ready
    /\ part = "api" => CallInit /\ budget = CHOOSE b \in TelegramBudgets : b.updates = 0
    /\ part = "bot" => op = "time" /\ at = Start /\ last = "noid" /\ result = "noid" /\ made = 0
                       /\ tries = NoneTried

OfClient(A) == part = "api" /\ A /\ UNCHANGED <<part, vars>>
OfBot(A) == part = "bot" /\ A /\ UNCHANGED <<part, call>>

MCNext == OfClient(CallNext) \/ OfBot(Next)

MCSpec ==
    /\ MCInit /\ [][MCNext]_<<part, vars, call>>
    /\ WF_<<part, vars, call>>(OfClient(AnyRequest))
    /\ WF_<<part, vars, call>>(OfBot(Loop))
    /\ SF_<<part, vars, call>>(OfBot(Poll))
=============================================================================

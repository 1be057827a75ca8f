----------------------------- MODULE ApiClient ------------------------------
(***************************************************************************)
(* One caller of the HTTP clients: BitkubPrivateClient._request with the   *)
(* loops around it that try a list of spellings of the symbol or of HTTP   *)
(* methods, and bitkub_client._get_json, which is the same loop over one   *)
(* path.  One step is one HTTP request with its answer, the classification *)
(* of the answer and the decision what to send next.                       *)
(***************************************************************************)
EXTENDS ApiResults, Sequences

VARIABLES
    op,        \* the call in progress, or the last one
    at,        \* the request to be sent next: variant, path and attempt
    last,      \* last_error, or the result: the answer to the last request
    result,    \* what the call gave its caller
    made,      \* how many orders a create call has left on the exchange
    tries      \* how often a write has sent each of its requests

call == <<op, at, last, result, made, tries>>

-----------------------------------------------------------------------------
(* The calls.                                                              *)

Writes == {"create", "cancel"}

\* create: place_bid, place_ask.  status: get_open_orders, get_order_info,
\* get_order_history.  account: get_wallet, get_balances.  time:
\* get_server_time.  market: the public reads of bitkub_client.
Ops == Writes \cup {"status", "account", "time", "market"}

\* A fault for the checks: the orders are placed under two spellings, too.
FormsForAll(o) == IF o = "cancel" THEN <<"thb_btc", "btc_thb", "btc_thb">>
                  ELSE <<"btc_thb", "BTC_THB">>

\* What the loops around _request go through, for the symbol THB_BTC.  cancel:
\* _cancel_symbol_variants, whose last two entries are spelled alike.  status:
\* the two spellings of the reads, in either order.  account: POST, then GET.
Forms(o) == CASE o = "cancel" -> <<"thb_btc", "btc_thb", "btc_thb">>
              [] o = "status" -> <<"btc_thb", "BTC_THB">>
              [] o = "account" -> <<"POST", "GET">>
              [] OTHER -> <<"btc_thb">>

Variants(o) == Len(Forms(o))

AllForms == {"thb_btc", "btc_thb", "BTC_THB", "POST", "GET"}

PathsOf(o) == IF o = "market" THEN 1 ELSE Paths

\* RETRY_POLICIES[...].max_attempts
MaxAttempts(o) == CASE o \in {"market", "time"} -> 3
                    [] o \in {"status", "account"} -> 2
                    [] OTHER -> 1

-----------------------------------------------------------------------------
(* The answers, as classify_retry_error tells them apart.                  *)

\* id, noid   a result, with or without an order id
\* lost       no answer or no JSON: timeout, network error, invalid JSON
\* server     HTTP 5xx; limited: HTTP 429
\* missing    HTTP 404; refused: any other 4xx
\* rejected   HTTP 200 with an error number; _get_json takes it for a result
Results == {"id", "noid"}
Failures == {"lost", "server", "limited", "missing", "refused", "rejected"}

Answers(o) == IF o = "create" THEN Results \cup Failures
              ELSE IF o = "market" THEN {"noid"} \cup (Failures \ {"rejected"})
              ELSE {"noid"} \cup Failures

Ambiguous == {"lost", "server", "limited"}

\* What the classification can say of "retryable", which is also what it says
\* of "ambiguous".  The text of the answer goes before its HTTP status: a
\* refusal that mentions a network or a timeout counts as one.
Retryable(answer) == IF answer \in Ambiguous THEN {TRUE} ELSE BOOLEAN

\* Whether the exchange may have carried out a request it answered like this.
Carried(answer) == IF answer \in Results THEN {TRUE}
                   ELSE IF answer \in {"lost", "server"} THEN BOOLEAN ELSE {FALSE}

\* A fault: every call retries like a read.
ShouldRetryLikeReads(o, retryable, attempt) == attempt < 2 /\ retryable

\* should_retry: never for a write, else while attempts are left.
ShouldRetry(o, retryable, attempt) ==
    /\ attempt < MaxAttempts(o)
    /\ o \notin Writes
    /\ retryable

\* _submit_order_with_safety_check and cancel_live_order classify the error
\* they catch again, from its text alone: a lost answer is known by its text,
\* "Endpoint not found for path ..." is never ambiguous, and every other text
\* depends on what the exchange wrote.
TakenAsAmbiguous(answer) == CASE answer = "lost" -> {"ambiguous"}
                              [] answer = "missing" -> {"error"}
                              [] OTHER -> {"ambiguous", "error"}

-----------------------------------------------------------------------------

Start == [variant |-> 1, path |-> 1, attempt |-> 1]

\* What a request is to the exchange: a form on a path.  The entry of the list
\* it was taken from, and the number of the attempt, are not in it.
Requests == AllForms \X (1..Paths)
Sending == <<Forms(op)[at.variant], at.path>>

NoneTried == [r \in Requests |-> 0]

CallInit ==
    /\ op \in Ops
    /\ at = Start
    /\ last = "none"
    /\ result = "none"
    /\ made = 0
    /\ tries = NoneTried

\* A new call after the last one ended.
Call(o) ==
    /\ result # "none"
    /\ op' = o
    /\ at' = Start
    /\ last' = "none"
    /\ result' = "none"
    /\ made' = 0
    /\ tries' = NoneTried

Return(r) == result' = r /\ UNCHANGED at
GoOn(request) == at' = request /\ UNCHANGED result

\* The error leaves _request: the next form of the list is tried, after the
\* last one it is raised.
Raise(answer) ==
    IF at.variant < Variants(op)
    THEN GoOn([Start EXCEPT !.variant = at.variant + 1])
    ELSE \E r \in TakenAsAmbiguous(answer) : Return(r)

\* A fault: the loop over the paths starts again.
GiveUpPathOnReads(answer) ==
    IF op \in Writes /\ at.path = PathsOf(op)
    THEN Raise(answer)
    ELSE GoOn([at EXCEPT !.path = IF at.path < PathsOf(op) THEN @ + 1 ELSE 1, !.attempt = 1])

\* The path is given up: the next one is tried, after the last one the error
\* leaves _request.
GiveUpPath(answer) ==
    IF at.path < PathsOf(op)
    THEN GoOn([at EXCEPT !.path = @ + 1, !.attempt = 1])
    ELSE Raise(answer)

\* Between two attempts _request waits retry_delay_seconds.
TryAgain == GoOn([at EXCEPT !.attempt = @ + 1])

\* An error number ends _request at once.  A 404 is a reason to try the next
\* path; bitkub_client, which has one path, classifies it like any failure.
AfterFailure(answer) ==
    \/ answer = "rejected" /\ Raise(answer)
    \/ answer = "missing" /\ op # "market" /\ GiveUpPath(answer)
    \/ /\ answer \notin {"rejected"} \cup (IF op = "market" THEN {} ELSE {"missing"})
       /\ \E retryable \in Retryable(answer) :
            IF ShouldRetry(op, retryable, at.attempt) THEN TryAgain ELSE GiveUpPath(answer)

Request(answer) ==
    /\ result = "none"
    /\ answer \in Answers(op)
    /\ \E carried \in Carried(answer) : made' = IF carried /\ op = "create" THEN made + 1 ELSE made
    /\ IF answer \in Results THEN Return(answer) ELSE AfterFailure(answer)
    /\ last' = answer
    /\ tries' = IF op \in Writes THEN [tries EXCEPT ![Sending] = @ + 1] ELSE tries
    /\ UNCHANGED op

AnyRequest == \E answer \in Results \cup Failures : Request(answer)

CallNext == (\E o \in Ops : Call(o)) \/ AnyRequest

CallSpec == CallInit /\ [][CallNext]_call

\* session.request has a timeout: each request is answered or given up.
Returning == CallSpec /\ WF_call(AnyRequest)

-----------------------------------------------------------------------------

\* The loops stay within the lists of forms, paths and attempts.
CallTypeOK ==
    /\ op \in Ops
    /\ at \in [variant : 1..Variants(op), path : 1..PathsOf(op), attempt : 1..MaxAttempts(op)]
    /\ last \in Results \cup Failures \cup {"none"}
    /\ result \in Results \cup {"none", "ambiguous", "error"}
    /\ made \in Nat
    /\ tries \in [Requests -> Nat]

\* Whatever the two paths answer to a place request, its caller learns one of
\* the results the handlers of LiveOrders are checked with.
CreateStaysInResults ==
    op = "create" /\ result # "none" => [made |-> made, reply |-> result] \in CreateResults

\* However its requests fail, a create call sends its order once to each path
\* at most, and a cancel call sends the same request a second time only because
\* the list has one spelling twice: should_retry lets no write be repeated.
WritesNotRepeated ==
    \A p \in 1..Paths :
        /\ op = "create" => \A f \in AllForms : tries[<<f, p>>] <= (IF f = "btc_thb" THEN 1 ELSE 0)
        /\ op = "cancel" => tries[<<"thb_btc", p>>] <= 1 /\ tries[<<"btc_thb", p>>] <= 2

\* Every call comes back to its caller, through all retries and fallbacks.
CallsReturn == result = "none" ~> result # "none"

\* docs/api_retry_handling.md and README.md: no blind retry of a create-order
\* whose outcome is ambiguous.  The legacy path is tried all the same.
NoBlindRetry ==
    [][AnyRequest /\ op = "create" /\ last' \in Ambiguous => result' # "none"]_call
=============================================================================

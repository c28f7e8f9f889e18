------------------------------ MODULE QuotesApi -----------------------------
(***************************************************************************)
(* Which status a request for a pair gets: the handlers of                 *)
(* internal/transport/http/v1/quotes, the validation of                    *)
(* internal/service/quotes and the CHECK of quote_updates.currency_pair.   *)
(* A pair parameter of seven characters is its two codes, what stands      *)
(* between them, and whether it was sent in lower case or with spaces      *)
(* around it; any other length is rejected at once.  Requests carry no     *)
(* idempotency key here: RefreshTx has those.                              *)
(***************************************************************************)
CONSTANTS
  OtherCodes,  \* three letters that are not a supported currency
  Separators   \* what may stand between the codes, "/" or not

VARIABLES
  active,  \* pairs of active rows of quote_updates
  saved,   \* pairs with a SUCCESS row
  reply    \* the last request and its status

vars == <<active, saved, reply>>

Supported == {"USD", "EUR", "MXN"}

Codes == Supported \cup OtherCodes

Param == [from : Codes, sep : Separators, to : Codes, raw : BOOLEAN]

normalizePair(pair) == [pair EXCEPT !.raw = FALSE]

(* pair[:3] and pair[4:] of a seven-character text: pair[3] is not read.   *)
isSupported(pair) == {pair.from, pair.to} \subseteq Supported

(* CHECK (currency_pair ~ '^[A-Z]{3}/[A-Z]{3}$')                           *)
WellFormed(pair) == pair.sep = "/" /\ ~pair.raw

NoReply == [request |-> "none"]

(* The table outlives the service: any pair may have a saved rate.         *)
Init ==
  /\ active = {}
  /\ saved \in SUBSET {pair \in Param : isSupported(pair) /\ WellFormed(pair)}
  /\ reply = NoReply

Answer(request, param, status) ==
  reply' = [request |-> request, param |-> param, status |-> status]

(* A statement that violates the CHECK is an error the handler does not    *)
(* know, which StrictErrorMiddleware turns into 500.                       *)
RefreshQuote(param) ==
  LET pair == normalizePair(param) IN
  /\ \/ ~isSupported(pair) /\ Answer("refresh", param, 400) /\ UNCHANGED active
     \/ /\ isSupported(pair) /\ WellFormed(pair)
        /\ Answer("refresh", param, 202)
        /\ active' = active \cup {pair}
     \/ /\ isSupported(pair) /\ ~WellFormed(pair)
        /\ Answer("refresh", param, 500)
        /\ UNCHANGED active
  /\ UNCHANGED saved

GetLatestQuote(param) ==
  LET pair == normalizePair(param) IN
  /\ Answer("latest", param, IF ~isSupported(pair) THEN 400
                             ELSE IF pair \in saved THEN 200 ELSE 404)
  /\ UNCHANGED <<active, saved>>

(* A worker ends the active update of a pair.                              *)
Finish(pair, succeeded) ==
  /\ pair \in active
  /\ active' = active \ {pair}
  /\ saved' = IF succeeded THEN saved \cup {pair} ELSE saved
  /\ UNCHANGED reply

Next ==
  \/ \E param \in Param : RefreshQuote(param) \/ GetLatestQuote(param)
  \/ \E pair \in active, succeeded \in BOOLEAN : Finish(pair, succeeded)

Spec == Init /\ [][Next]_vars

(* "Invalid request format or unsupported currency pair" is answered with  *)
(* 400, by both endpoints.                                                 *)
InvalidPairIs400 ==
  reply # NoReply =>
    LET pair == normalizePair(reply.param)
    IN  (reply.status = 400) <=> ~(isSupported(pair) /\ WellFormed(pair))
=============================================================================

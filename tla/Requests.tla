------------------------------- MODULE Requests -------------------------------
(***************************************************************************)
(* How the three providers' answers are read: which are retried and for    *)
(* how long, which are errors, and which errors say that the credential is *)
(* gone.  An answer is [status, reason, after]: its HTTP status, what its  *)
(* body gives as the reason, and its Retry-After; 0 is "none", and no      *)
(* status no answer.  A refusal of a token endpoint is [code, expired,     *)
(* reached], its code the body's or the one that its text names.           *)
(*                                                                         *)
(* A request is retried on two levels: by the session it is sent on, which *)
(* is dlt's, and then by what the client makes of the answer.  What was    *)
(* spent on a request is [sent, attempt, waited]: how often the session    *)
(* has sent it in this attempt, and the client's attempts and waiting.     *)
(***************************************************************************)
EXTENDS Naturals

\* runs.py takes the Connection out of service for these two, however deep
\* in the chain of causes they are (errors.find_cause).
CredentialErrors == {"CredentialsRevoked", "CredentialsExpired"}

Least(a, b) == IF a < b THEN a ELSE b

-----------------------------------------------------------------------------
(* dlt's session *)

CONSTANT DLT_MAX_ATTEMPTS \* how often dlt is configured to send a request
ASSUME RequestsAssumption == DLT_MAX_ATTEMPTS \in Nat \ {0}

\* What a session retries unless it is told otherwise.
DLT_STATUS_CODES == {429} \cup 500 .. 599

\* Google's client keeps the throttles for itself, and Graph's every status.
RETRYABLE_STATUS_CODES == {500, 502, 503, 504}
SessionStatuses(provider) ==
    CASE provider = "google" -> RETRYABLE_STATUS_CODES
      [] provider = "microsoft" -> {}
      [] OTHER -> DLT_STATUS_CODES
SessionAttempts(provider) ==
    IF provider = "microsoft" THEN 3 ELSE DLT_MAX_ATTEMPTS

FirstTry == [sent |-> 1, attempt |-> 1, waited |-> 0]

\* A request that got no answer is sent again, whoever it is for.
Resends(provider, a, spent) ==
    /\ a.status \in {0} \cup SessionStatuses(provider)
    /\ spent.sent < SessionAttempts(provider)
SentAgain(spent) == [spent EXCEPT !.sent = @ + 1]

-----------------------------------------------------------------------------
(* Google *)

MAX_THROTTLE_ATTEMPTS == 5

\* RATE_LIMIT_REASONS are "quota" here.
GoogleThrottled(a) ==
    a.status = 429 \/ (a.status = 403 /\ a.reason = "quota")
\* Mutant: the attempts are not counted.
GoogleRetriesForever(a, spent) == GoogleThrottled(a)

GoogleRetries(a, spent) ==
    GoogleThrottled(a) /\ spent.attempt < MAX_THROTTLE_ATTEMPTS

\* Mutant: a refusal is a revocation, whatever is refused.
GoogleErrorCoarse(a) ==
    CASE GoogleThrottled(a) -> "SourceError"
      [] a.status \in {401, 403} /\ ~ GoogleThrottled(a) ->
            "CredentialsRevoked"
      [] OTHER -> "SourceError"

GoogleError(a) ==
    CASE a.status = 401 -> "CredentialsRevoked"
      [] GoogleThrottled(a) -> "SourceError"
      [] a.status = 403 /\ ~ GoogleThrottled(a) -> "AuthError"
      [] OTHER -> "SourceError"

\* A refresh that Google refuses, or that does not reach it.
REVOKED_OAUTH_ERRORS == {"invalid_grant", "invalid_client", "invalid_rapt",
                         "unauthorized_client", "access_denied"}
GoogleRefreshError(e) ==
    CASE e.code \in REVOKED_OAUTH_ERRORS -> "CredentialsRevoked"
      [] e.code \notin REVOKED_OAUTH_ERRORS /\ e.expired ->
            "CredentialsExpired"
      [] OTHER -> "AuthError"

-----------------------------------------------------------------------------
(* Microsoft Graph *)

RETRYABLE_STATUS == {429, 503, 504}
DEFAULT_MAX_ATTEMPTS == 5
MAX_RETRY_AFTER_SECONDS == 120
MAX_RETRY_BUDGET_SECONDS == 300

GraphDelay(a, attempt) ==
    Least(IF a.after > 0 THEN a.after ELSE 2 ^ (attempt - 1),
          MAX_RETRY_AFTER_SECONDS)
GraphRetries(a, spent) ==
    /\ a.status \in RETRYABLE_STATUS
    /\ spent.attempt < DEFAULT_MAX_ATTEMPTS
    /\ spent.waited + GraphDelay(a, spent.attempt) <= MAX_RETRY_BUDGET_SECONDS

GraphError(a) ==
    CASE a.status = 401 -> "CredentialsRevoked"
      [] a.status = 403 -> "AuthError"
      [] OTHER -> "SourceError"

\* The first AADSTS code that a table lists decides, then the OAuth error.
EntraError(e) ==
    CASE e.code \in {"AADSTS7000222", "AADSTS700024", "invalid_grant"} ->
            "CredentialsExpired"
      [] e.code \in {"AADSTS7000215", "invalid_client"} -> "CredentialsRevoked"
      [] e.code = "AADSTS90002" -> "ConfigurationError"
      [] OTHER -> "AuthError"

-----------------------------------------------------------------------------
(* Salesforce: the session's retries are all there are *)

\* "none" if it is not for the credential.
CredentialError(a) ==
    CASE a.status \notin {401, 403} -> "none"
      [] a.status \in {401, 403} /\ a.reason = "INVALID_SESSION_ID" ->
            "CredentialsRevoked"
      [] a.status \in {401, 403} /\ a.reason = "REQUEST_LIMIT_EXCEEDED" ->
            "none"
      [] OTHER -> "AuthError"

SalesforceError(a) ==
    IF (a.status = 403 /\ a.reason = "REQUEST_LIMIT_EXCEEDED")
       \/ CredentialError(a) = "none"
    THEN "SourceError" ELSE CredentialError(a)

SalesforceOauthError(e) ==
    CASE ~ e.reached -> "AuthError"
      [] e.reached /\ e.expired -> "CredentialsExpired"
      [] e.reached /\ ~ e.expired /\ e.code = "invalid_grant" ->
            "CredentialsRevoked"
      [] e.reached /\ ~ e.expired /\ e.code = "invalid_client" ->
            "ConfigurationError"
      [] OTHER -> "AuthError"

-----------------------------------------------------------------------------
(* By provider *)

\* The client asks again once its session has given up.
AsksAgain(provider, a, spent) ==
    CASE provider = "google" -> GoogleRetries(a, spent)
      [] provider = "microsoft" -> GraphRetries(a, spent)
      [] OTHER -> FALSE
\* Only Graph's requests count what they have waited.  (Attempts are counted
\* modulo their bound, which they never pass.)
AskedAgain(provider, a, spent) ==
    [sent |-> 1,
     attempt |-> (spent.attempt % MAX_THROTTLE_ATTEMPTS) + 1,
     waited |-> IF provider = "microsoft"
                THEN spent.waited + GraphDelay(a, spent.attempt) ELSE 0]

Retries(provider, a, spent) ==
    Resends(provider, a, spent) \/ AsksAgain(provider, a, spent)
Retried(provider, a, spent) ==
    IF Resends(provider, a, spent) THEN SentAgain(spent)
    ELSE AskedAgain(provider, a, spent)

\* A request that gets no answer raises; only Graph's client lets that by.
RequestError(provider, a) ==
    CASE a.status = 0 -> IF provider = "microsoft" THEN "ConnectionError"
                         ELSE "SourceError"
      [] a.status # 0 /\ provider = "google" -> GoogleError(a)
      [] a.status # 0 /\ provider = "microsoft" -> GraphError(a)
      [] OTHER -> SalesforceError(a)

TokenError(provider, e) ==
    CASE provider = "google" -> GoogleRefreshError(e)
      [] provider = "microsoft" -> EntraError(e)
      [] OTHER -> SalesforceOauthError(e)

==============================================================================

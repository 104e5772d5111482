------------------------------ MODULE Transport ------------------------------
(***************************************************************************)
(* One call of the client: metadata (HEAD), read (GET), or the request of  *)
(* subscribe (GET without a deadline), from stream.rs, with                *)
(* execute_with_retry (transport.rs) and its retry policy (retry.rs), and  *)
(* the server and the clock they race against.                             *)
(*                                                                         *)
(* Time is discrete.  A request built by bounded_request has a deadline    *)
(* that covers the body of its response; one built by request, as          *)
(* subscribe's is, has none.  A sleep ends at its deadline.  The client is *)
(* fast: time does not pass while it could act, nor beyond a deadline.     *)
(***************************************************************************)
EXTENDS Integers, FiniteSetsExt

CONSTANTS
  Methods,          \* the methods of the calls
  Bounded,          \* the requests have a timeout
  MaxAttempts,      \* RetryPolicy.max_attempts
  InitialBackoff,   \* RetryPolicy.initial_backoff
  MaxBackoff,       \* RetryPolicy.max_backoff
  RequestTimeout,   \* ClientConfig.request_timeout
  RetryAfters,      \* the Retry-After headers a server sends
  MaxRetryAfter,    \* the longest of them
  MaxClock          \* bound: the time that is looked at

ASSUME TransportAssumption ==
  /\ Bounded \in BOOLEAN
  /\ MaxAttempts \in Nat
  /\ InitialBackoff \in Nat /\ MaxBackoff \in Nat
  /\ RequestTimeout \in Nat \ {0}
  /\ MaxRetryAfter \in Nat /\ RetryAfters \subseteq 0..MaxRetryAfter
  /\ MaxClock \in Nat

VARIABLES
  pc,         \* "build"; awaiting "head", "body" or "sleep", of an attempt
              \* that failed, or "bytes", of one that did not; or returned
  method,     \* the method of the call
  attempt,    \* the number of the attempt
  status,     \* the status of the response that is read, 0 before one
  header,     \* its Retry-After, or None
  clock,      \* the time since the call began
  deadline,   \* of the request, or of the sleep; Never if there is none
  requests,   \* history: how many requests the server was sent
  fatal,      \* history: an attempt had an outcome that is not to be retried
  earliest    \* history: when the server asked to be tried again

vars == <<pc, method, attempt, status, header, clock, deadline, requests, fatal, earliest>>

None == -1
Never == -1

Statuses == {200, 204, 400, 403, 404, 409, 413, 429, 500, 502, 503}

TypeOK ==
  /\ pc \in {"build", "head", "body", "sleep", "bytes", "ok", "error"}
  /\ method \in Methods
  /\ attempt \in Nat /\ requests \in Nat
  /\ status \in Statuses \cup {0}
  /\ header \in RetryAfters \cup {None}
  /\ clock \in Nat /\ earliest \in Nat
  /\ deadline \in Nat \cup {Never}
  /\ fatal \in BOOLEAN

Init ==
  /\ pc = "build" /\ method \in Methods
  /\ attempt = 1
  /\ status = 0 /\ header = None
  /\ clock = 0 /\ deadline = Never
  /\ requests = 0 /\ fatal = FALSE /\ earliest = 0

-----------------------------------------------------------------------------
(* http_error and is_retryable: 429, 503 and 500 have kinds of their own   *)
(* that are, and no other status has.                                      *)
IsRetryable(s) == s \in {429, 500, 503}

(* jittered_backoff_for_attempt, before the jitter: the first backoff      *)
(* doubled for each attempt, up to the cap.  The saturating u32 and        *)
(* Duration arithmetic of the code differs only beyond the cap.            *)
Capped(k) == Min({InitialBackoff * 2^(k - 1), MaxBackoff})

(* A factor between one half and one is drawn.                             *)
Backoffs(k) == {b \in 0..Capped(k) : 2 * b >= Capped(k)}

(* Mutant: one attempt more.                                               *)
MayRetryOnce == method \in {"GET", "HEAD"} /\ attempt <= MaxAttempts

MayRetry == method \in {"GET", "HEAD"} /\ attempt < MaxAttempts

Sleep(b) ==
  /\ pc' = "sleep"
  /\ deadline' = clock + b
  /\ attempt' = attempt + 1

Return(result) ==
  /\ pc' = result
  /\ deadline' = Never
  /\ UNCHANGED attempt

-----------------------------------------------------------------------------
(* Mutant: only the first request is given a timeout.                      *)
SendUnbounded ==
  /\ pc = "build"
  /\ pc' = "head"
  /\ requests' = requests + 1
  /\ deadline' = IF Bounded /\ attempt = 1 THEN clock + RequestTimeout ELSE Never
  /\ status' = 0 /\ header' = None
  /\ UNCHANGED <<method, attempt, clock, fatal, earliest>>

(* A new request is built and sent.                                        *)
Send ==
  /\ pc = "build"
  /\ pc' = "head"
  /\ requests' = requests + 1
  /\ deadline' = IF Bounded THEN clock + RequestTimeout ELSE Never
  /\ status' = 0 /\ header' = None
  /\ UNCHANGED <<method, attempt, clock, fatal, earliest>>

(* The path does not join to the base URL, which shows at once.            *)
BuildFails ==
  /\ pc = "build" /\ attempt = 1
  /\ Return("error")
  /\ fatal' = TRUE
  /\ UNCHANGED <<method, status, header, clock, requests, earliest>>

(* The head of an error response arrives, and its body is read first.     *)
Head(code, retryAfter) ==
  /\ pc = "head" /\ code \notin {200, 204}
  /\ status' = code /\ header' = retryAfter
  /\ pc' = "body"
  /\ UNCHANGED <<method, attempt, deadline, clock, requests, fatal, earliest>>

(* What the call makes of a success: an error if the response lacks the    *)
(* header Stream-Next-Offset or if its body cannot be read.  Neither is    *)
(* retried, the retries are all in execute_with_retry.                     *)
Result(ok) ==
  /\ Return(IF ok THEN "ok" ELSE "error")
  /\ fatal' = ~ok
  /\ UNCHANGED <<method, clock, requests, earliest>>

(* The head of a success.  metadata has all it needs then and read goes on *)
(* with the body; subscribe looks at no header it needs.                   *)
Success(code, retryAfter, ok) ==
  /\ pc = "head" /\ code \in {200, 204}
  /\ status' = code /\ header' = retryAfter
  /\ IF method = "GET" /\ Bounded
       THEN /\ pc' = "bytes"
            /\ UNCHANGED <<method, attempt, deadline, clock, requests, fatal, earliest>>
       ELSE Result(ok \/ ~Bounded)

Bytes(ok) ==
  /\ pc = "bytes"
  /\ Result(ok)
  /\ UNCHANGED <<status, header>>

(* Mutant: a Retry-After that is not there is read as a number.            *)
BodyTrustsHeader ==
  /\ pc = "body"
  /\ IF IsRetryable(status) /\ MayRetry THEN Sleep(header) ELSE Return("error")
  /\ fatal' = (fatal \/ ~IsRetryable(status))
  /\ earliest' = clock + header
  /\ UNCHANGED <<method, status, header, clock, requests>>

(* Mutant: the cap of the backoff is applied to Retry-After as well.       *)
BodyCapsRetryAfter ==
  /\ pc = "body"
  /\ IF IsRetryable(status) /\ MayRetry
       THEN \E b \in IF header # None THEN {Min({header, MaxBackoff})} ELSE Backoffs(attempt) : Sleep(b)
       ELSE Return("error")
  /\ fatal' = (fatal \/ ~IsRetryable(status))
  /\ earliest' = IF header # None THEN clock + header ELSE earliest
  /\ UNCHANGED <<method, status, header, clock, requests>>

(* The body has been read: retry, after what Retry-After says if it is     *)
(* there, or return the error.                                             *)
Body ==
  /\ pc = "body"
  /\ IF IsRetryable(status) /\ MayRetry
       THEN \E b \in IF header # None THEN {header} ELSE Backoffs(attempt) : Sleep(b)
       ELSE Return("error")
  /\ fatal' = (fatal \/ ~IsRetryable(status))
  /\ earliest' = IF header # None THEN clock + header ELSE earliest
  /\ UNCHANGED <<method, status, header, clock, requests>>

(* ... or it cannot be read, or not in time.  That is not retried, not     *)
(* even for a status that is.                                              *)
BodyFails ==
  /\ pc = "body"
  /\ Return("error")
  /\ fatal' = TRUE
  /\ UNCHANGED <<method, status, header, clock, requests, earliest>>

(* send fails without a response: with a timeout, a connect or a request   *)
(* error, which are retried after a backoff, or with another one.          *)
SendFails(transient) ==
  /\ pc = "head"
  /\ IF transient /\ MayRetry
       THEN \E b \in Backoffs(attempt) : Sleep(b)
       ELSE Return("error")
  /\ fatal' = (fatal \/ ~transient)
  /\ UNCHANGED <<method, status, header, clock, requests, earliest>>

Due == deadline # Never /\ clock >= deadline

(* The deadline of a request wins over an answer that is not there.        *)
Timeout ==
  /\ Due
  /\ SendFails(TRUE) \/ BodyFails \/ Bytes(FALSE)

Wake ==
  /\ pc = "sleep" /\ Due
  /\ pc' = "build"
  /\ deadline' = Never
  /\ UNCHANGED <<method, attempt, status, header, clock, requests, fatal, earliest>>

Tick ==
  /\ pc \in {"head", "body", "bytes", "sleep"} /\ ~Due
  /\ clock < MaxClock
  /\ clock' = clock + 1
  /\ UNCHANGED <<pc, method, attempt, status, header, deadline, requests, fatal, earliest>>

Server ==
  \/ \E s \in Statuses, h \in RetryAfters \cup {None} :
       Head(s, h) \/ \E ok \in BOOLEAN : Success(s, h, ok)
  \/ \E ok \in BOOLEAN : Bytes(ok)
  \/ Body \/ BodyFails
  \/ \E transient \in BOOLEAN : SendFails(transient)

Next == Send \/ BuildFails \/ Server \/ Timeout \/ Wake \/ Tick

Spec == Init /\ [][Next]_vars

(* Time passes and timers fire.  Nothing is assumed of the server.         *)
FairSpec ==
  Spec /\ WF_vars(Send) /\ WF_vars(Timeout) /\ WF_vars(Wake) /\ WF_vars(Tick)

-----------------------------------------------------------------------------
Attempts == Max({1, MaxAttempts})

(* A call is not given up while a retry may help, and a server is not      *)
(* asked more often than the policy allows, nor again after an answer that *)
(* will not change: whatever mix of answers, timeouts and errors comes.    *)
RetriesAreSpent ==
  /\ requests <= Attempts
  /\ fatal => pc = "error"
  /\ pc = "error" /\ ~fatal /\ method \in {"GET", "HEAD"} => requests = Attempts

(* A server that asks for time with Retry-After gets it.                   *)
RetryAfterHonoured == [][requests' # requests => clock >= earliest]_vars

(* A bounded call takes no longer than its attempts, each up to its        *)
(* timeout, and the longest waits between them.                            *)
LongestWait == Max({MaxBackoff, MaxRetryAfter})

CallTime == Attempts * RequestTimeout + (Attempts - 1) * LongestWait

TimeIsBounded == Bounded => clock <= CallTime

(* A bounded call returns, even if the server never answers.               *)
CallReturns == <>(pc \in {"ok", "error"})

-----------------------------------------------------------------------------
(* The inductive invariant behind the first three.                         *)
Returned == pc \in {"ok", "error"}

(* Requests are counted as attempts are, and stop where attempts do.       *)
CountInv ==
  /\ 1 <= attempt /\ attempt <= Attempts
  /\ pc \in {"build", "sleep"} => requests = attempt - 1
  /\ pc \in {"head", "body", "bytes"} => requests = attempt
  /\ requests <= attempt
  /\ fatal => pc = "error"
  /\ pc = "error" /\ ~fatal => requests = attempt /\ ~MayRetry

(* Nothing is sent before the time the server has asked for.               *)
EarliestInv ==
  /\ pc = "sleep" => deadline # Never /\ earliest <= deadline
  /\ pc \in {"build", "head", "body", "bytes"} => earliest <= clock

(* The time used by so many attempts and the waits after them.             *)
Used(k) == k * (RequestTimeout + LongestWait)

TimeInv ==
  /\ pc = "build" => clock <= Used(attempt - 1)
  /\ pc \in {"head", "body", "bytes"} =>
       deadline # Never /\ clock <= deadline /\ deadline <= Used(attempt - 1) + RequestTimeout
  /\ pc = "sleep" => clock <= deadline /\ deadline <= Used(attempt - 1)
  /\ Returned => clock <= CallTime

IInv ==
  /\ TypeOK /\ CountInv /\ EarliestInv
  /\ Bounded => TimeInv
=============================================================================

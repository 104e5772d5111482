--------------------------- MODULE TransportProofs ---------------------------
(***************************************************************************)
(* Proofs about Transport, for any retry policy, timeout and server.  The  *)
(* bounds of time are for calls with a timeout.                            *)
(***************************************************************************)
EXTENDS Transport, TLAPS

-----------------------------------------------------------------------------
(* The greater of two numbers.                                             *)
LEMMA MaxOfTwo ==
  ASSUME NEW a \in Int, NEW b \in Int
  PROVE  Max({a, b}) = IF a >= b THEN a ELSE b
BY DEF Max

(* ... and the lesser of two.                                              *)
LEMMA MinOfTwo ==
  ASSUME NEW a \in Int, NEW b \in Int
  PROVE  Min({a, b}) = IF a <= b THEN a ELSE b
BY DEF Min

(* One attempt at least, also for max_attempts 0.                          *)
LEMMA AttemptsIsMax ==
  /\ Attempts \in Nat /\ Attempts >= 1 /\ Attempts >= MaxAttempts
  /\ MaxAttempts >= 1 => Attempts = MaxAttempts
  /\ MaxAttempts < 1 => Attempts = 1
BY MaxOfTwo, TransportAssumption DEF Attempts

(* No wait between two attempts is longer.                                 *)
LEMMA LongestWaitIsMax ==
  /\ LongestWait \in Nat
  /\ MaxBackoff <= LongestWait
  /\ \A h \in RetryAfters : h \in Nat /\ h <= LongestWait
<1>1. LongestWait = IF MaxBackoff >= MaxRetryAfter THEN MaxBackoff ELSE MaxRetryAfter
  BY MaxOfTwo, TransportAssumption DEF LongestWait
<1> QED
  BY <1>1, TransportAssumption

(* No backoff is longer than the cap, however late the attempt.            *)
LEMMA BackoffIsCapped ==
  ASSUME NEW k \in Nat \ {0}, NEW b \in Backoffs(k)
  PROVE  b \in Nat /\ b <= MaxBackoff
<1>1. 2^(k - 1) \in Int
  <2>1. k - 1 \in Nat
    OBVIOUS
  <2> QED
    BY <2>1
<1>2. InitialBackoff * 2^(k - 1) \in Int
  BY <1>1, TransportAssumption
<1>3. Capped(k) \in Int /\ Capped(k) <= MaxBackoff
  BY <1>2, MinOfTwo, TransportAssumption DEF Capped
<1> QED
  BY <1>3, TransportAssumption DEF Backoffs

(* One attempt and one wait more, and never more than the whole call.      *)
LEMMA UsedGrows ==
  ASSUME NEW k \in Nat
  PROVE  /\ Used(k) \in Nat
         /\ Used(k + 1) = Used(k) + RequestTimeout + LongestWait
         /\ k < Attempts => Used(k) + RequestTimeout <= CallTime
<1> DEFINE w == RequestTimeout + LongestWait
<1>1. w \in Nat /\ RequestTimeout \in Nat
  BY LongestWaitIsMax, TransportAssumption
<1>2. Used(k) = k * w /\ Used(k + 1) = (k + 1) * w
  BY DEF Used
<1>3. CallTime = (Attempts - 1) * w + RequestTimeout
  <2>1. Attempts * RequestTimeout = (Attempts - 1) * RequestTimeout + RequestTimeout
    BY <1>1, AttemptsIsMax
  <2>2. (Attempts - 1) * w = (Attempts - 1) * RequestTimeout + (Attempts - 1) * LongestWait
    BY <1>1, AttemptsIsMax, LongestWaitIsMax
  <2>3. /\ (Attempts - 1) * RequestTimeout \in Int
        /\ (Attempts - 1) * LongestWait \in Int
    BY <1>1, AttemptsIsMax, LongestWaitIsMax
  <2> HIDE DEF w
  <2> QED
    BY <1>1, <2>1, <2>2, <2>3 DEF CallTime
<1> HIDE DEF w
<1>4. k * w \in Nat /\ (k + 1) * w = k * w + w
  BY <1>1
<1>5. k < Attempts => k * w <= (Attempts - 1) * w /\ (Attempts - 1) * w \in Nat
  BY <1>1, AttemptsIsMax
<1>6. Used(k + 1) = Used(k) + RequestTimeout + LongestWait
  BY <1>2, <1>4, LongestWaitIsMax, TransportAssumption DEF w
<1> QED
  BY <1>1, <1>2, <1>3, <1>4, <1>5, <1>6

-----------------------------------------------------------------------------
(* A call begins with its first attempt and no time used.                  *)
LEMMA InitIInv == Init => IInv
<1> SUFFICES ASSUME Init PROVE IInv
  OBVIOUS
<1> USE DEF Init
<1>1. TypeOK
  BY DEF TypeOK
<1>2. CountInv /\ EarliestInv
  BY AttemptsIsMax DEF CountInv, EarliestInv
<1>3. TimeInv
  <2>1. attempt - 1 = 0 /\ Used(0) \in Nat
    BY UsedGrows
  <2> QED
    BY <2>1 DEF TimeInv, Returned
<1> QED
  BY <1>1, <1>2, <1>3 DEF IInv

(* A retry is an attempt more and a wait that is not too long.             *)
LEMMA SleepKeeps ==
  ASSUME IInv, TypeOK', pc \in {"head", "body"}, ~fatal', MayRetry,
         NEW b \in Nat, b <= LongestWait, Sleep(b),
         earliest' <= clock + b,
         UNCHANGED <<method, clock, requests>>
  PROVE  IInv'
<1> USE DEF IInv, TypeOK, Sleep
<1>1. CountInv'
  <2>1. attempt < Attempts
    BY AttemptsIsMax, TransportAssumption DEF MayRetry
  <2> QED
    BY <2>1, AttemptsIsMax DEF CountInv
<1>2. EarliestInv'
  BY DEF EarliestInv, Never
<1>3. ASSUME Bounded PROVE TimeInv'
  <2>1. attempt - 1 \in Nat /\ attempt' - 1 = (attempt - 1) + 1
    BY DEF CountInv
  <2>2. /\ Used(attempt - 1) \in Nat
        /\ Used(attempt' - 1) = Used(attempt - 1) + RequestTimeout + LongestWait
    BY <2>1, UsedGrows
  <2>3. clock <= Used(attempt - 1) + RequestTimeout
    BY <1>3, <2>2, TransportAssumption DEF TimeInv, Never
  <2>4. clock' <= deadline' /\ deadline' <= Used(attempt' - 1)
    BY <2>2, <2>3, LongestWaitIsMax, TransportAssumption
  <2> QED
    BY <2>4 DEF TimeInv, Returned
<1> QED
  BY <1>1, <1>2, <1>3

(* A call that returns has spent its retries, or need not.                 *)
LEMMA ReturnKeeps ==
  ASSUME IInv, TypeOK', pc \in {"build", "head", "body", "bytes"},
         NEW result \in {"ok", "error"}, Return(result),
         fatal' => result = "error",
         result = "error" /\ ~fatal' => pc # "build" /\ ~MayRetry,
         UNCHANGED <<method, clock, requests>>
  PROVE  IInv'
<1> USE DEF IInv, TypeOK, Return
<1>1. CountInv'
  BY DEF CountInv, MayRetry
<1>2. EarliestInv'
  BY DEF EarliestInv
<1>3. ASSUME Bounded PROVE TimeInv'
  <2>1. attempt - 1 \in Nat /\ attempt - 1 < Attempts
    BY AttemptsIsMax DEF CountInv
  <2>2. /\ Used(attempt - 1) \in Nat
        /\ Used(attempt - 1) + RequestTimeout <= CallTime
    BY <2>1, UsedGrows
  <2>3. CallTime \in Int
    BY AttemptsIsMax, LongestWaitIsMax, TransportAssumption DEF CallTime
  <2>4. clock <= Used(attempt - 1) + RequestTimeout
    BY <1>3, <2>2, TransportAssumption DEF TimeInv, Never
  <2>5. clock' <= CallTime
    BY <2>2, <2>3, <2>4, TransportAssumption
  <2> QED
    BY <2>5 DEF TimeInv, Returned
<1> QED
  BY <1>1, <1>2, <1>3

(* Every step keeps the types: what sleeps has a deadline to wake at.      *)
LEMMA NextTypeOK == IInv /\ Next => TypeOK'
<1> SUFFICES ASSUME IInv, Next PROVE TypeOK'
  OBVIOUS
<1> USE TransportAssumption DEF IInv, TypeOK
<1>1. CASE Send
  BY <1>1 DEF Send
<1>2. CASE BuildFails
  BY <1>2 DEF BuildFails, Return
<1>3. ASSUME NEW s \in Statuses, NEW h \in RetryAfters \cup {None}, Head(s, h)
      PROVE  TypeOK'
  BY <1>3 DEF Head
<1>3a. ASSUME NEW s \in Statuses, NEW h \in RetryAfters \cup {None}, NEW ok \in BOOLEAN,
              Success(s, h, ok)
       PROVE  TypeOK'
  BY <1>3a DEF Success, Result, Return
<1>3b. ASSUME NEW ok \in BOOLEAN, Bytes(ok)
       PROVE  TypeOK'
  BY <1>3b DEF Bytes, Result, Return
<1>4. attempt \in Nat \ {0}
  BY DEF CountInv
<1>5. CASE Body
  <2>1. pc' \in {"sleep", "error"} /\ attempt' \in Nat /\ deadline' \in Nat \cup {Never}
    <3>1. ASSUME NEW b \in IF header # None THEN {header} ELSE Backoffs(attempt)
          PROVE  b \in Nat
      BY <1>4, BackoffIsCapped
    <3> QED
      BY <1>5, <3>1 DEF Body, Sleep, Return
  <2>2. earliest' \in Nat
    BY <1>5 DEF Body
  <2>3. UNCHANGED <<method, status, header, clock, requests>> /\ fatal' \in BOOLEAN
    BY <1>5 DEF Body
  <2> QED
    BY <2>1, <2>2, <2>3
<1>6. CASE BodyFails
  BY <1>6 DEF BodyFails, Return
<1>7. ASSUME NEW transient \in BOOLEAN, SendFails(transient)
      PROVE  TypeOK'
  <2>1. pc' \in {"sleep", "error"} /\ attempt' \in Nat /\ deadline' \in Nat \cup {Never}
    <3>1. ASSUME NEW b \in Backoffs(attempt) PROVE b \in Nat
      BY <1>4, BackoffIsCapped
    <3> QED
      BY <1>7, <3>1 DEF SendFails, Sleep, Return
  <2> QED
    BY <1>7, <2>1 DEF SendFails
<1>8. CASE Wake
  BY <1>8 DEF Wake
<1>9. CASE Tick
  BY <1>9 DEF Tick
<1> QED
  BY <1>1, <1>2, <1>3, <1>3a, <1>3b, <1>5, <1>6, <1>7, <1>8, <1>9 DEF Next, Server, Timeout

LEMMA NextIInv == IInv /\ [Next]_vars => IInv'
<1> SUFFICES ASSUME IInv, [Next]_vars PROVE IInv'
  OBVIOUS
<1>0. CASE UNCHANGED vars
  BY <1>0
  DEF vars, IInv, TypeOK, CountInv, EarliestInv, TimeInv, Returned, MayRetry
<1> SUFFICES ASSUME Next PROVE IInv'
  BY <1>0
<1>t. TypeOK'
  BY NextTypeOK
<1>a. attempt \in Nat \ {0} /\ attempt - 1 \in Nat
  BY DEF IInv, TypeOK, CountInv
<1>u. Used(attempt - 1) \in Nat
  BY <1>a, UsedGrows
<1>1. CASE Send
  <2>1. CountInv' /\ EarliestInv'
    BY <1>1 DEF Send, IInv, TypeOK, CountInv, EarliestInv
  <2>2. ASSUME Bounded PROVE TimeInv'
    BY <1>1, <1>u, <2>2, TransportAssumption
    DEF Send, IInv, TypeOK, TimeInv, Returned, Never
  <2> QED
    BY <1>t, <2>1, <2>2 DEF IInv
<1>2. CASE BuildFails
  BY <1>2, <1>t, ReturnKeeps DEF BuildFails
<1>3. ASSUME NEW s \in Statuses, NEW h \in RetryAfters \cup {None}, Head(s, h)
      PROVE  IInv'
  <2>1. CountInv' /\ EarliestInv'
    BY <1>3 DEF Head, IInv, CountInv, EarliestInv
  <2>2. ASSUME Bounded PROVE TimeInv'
    BY <1>3, <2>2 DEF Head, IInv, TimeInv, Returned
  <2> QED
    BY <1>t, <2>1, <2>2 DEF IInv
<1>r. ASSUME NEW ok \in BOOLEAN, Result(ok), pc \in {"head", "bytes"}
      PROVE  IInv'
  <2> DEFINE result == IF ok THEN "ok" ELSE "error"
  <2>1. result \in {"ok", "error"} /\ Return(result) /\ (fatal' <=> result = "error")
    BY <1>r DEF Result
  <2>2. UNCHANGED <<method, clock, requests>>
    BY <1>r DEF Result
  <2> HIDE DEF result
  <2> QED
    BY <1>t, <1>r, <2>1, <2>2, ReturnKeeps
<1>3a. ASSUME NEW s \in Statuses, NEW h \in RetryAfters \cup {None}, NEW ok \in BOOLEAN,
              Success(s, h, ok)
       PROVE  IInv'
  <2>1. CASE method = "GET" /\ Bounded
    <3>1. CountInv' /\ EarliestInv'
      BY <1>3a, <2>1 DEF Success, IInv, CountInv, EarliestInv
    <3>2. TimeInv'
      BY <1>3a, <2>1 DEF Success, IInv, TimeInv, Returned
    <3> QED
      BY <1>t, <3>1, <3>2 DEF IInv
  <2>2. CASE ~(method = "GET" /\ Bounded)
    <3>1. Result(TRUE) \/ Result(FALSE)
      BY <1>3a, <2>2 DEF Success
    <3> QED
      BY <1>3a, <1>r, <3>1 DEF Success
  <2> QED
    BY <2>1, <2>2
<1>3b. ASSUME NEW ok \in BOOLEAN, Bytes(ok)
       PROVE  IInv'
  BY <1>3b, <1>r DEF Bytes
<1>5. CASE Body
  <2>0. pc = "body" /\ ~fatal /\ earliest <= clock
    BY <1>5 DEF Body, IInv, CountInv, EarliestInv
  <2>1. CASE IsRetryable(status) /\ MayRetry
    <3>1. PICK b \in IF header # None THEN {header} ELSE Backoffs(attempt) : Sleep(b)
      BY <1>5, <2>1 DEF Body
    <3>2. b \in Nat /\ b <= LongestWait
      <4>1. CASE header # None
        BY <3>1, <4>1, LongestWaitIsMax DEF IInv, TypeOK
      <4>2. CASE header = None
        BY <1>a, <3>1, <4>2, BackoffIsCapped, LongestWaitIsMax, TransportAssumption
      <4> QED
        BY <4>1, <4>2
    <3>3. ~fatal' /\ UNCHANGED <<method, clock, requests>>
      BY <1>5, <2>0, <2>1 DEF Body
    <3>4. earliest' <= clock + b
      BY <1>5, <2>0, <3>1, <3>2 DEF Body, IInv, TypeOK
    <3> QED
      BY <1>t, <2>0, <2>1, <3>1, <3>2, <3>3, <3>4, SleepKeeps
  <2>2. CASE ~(IsRetryable(status) /\ MayRetry)
    <3>1. Return("error") /\ UNCHANGED <<method, clock, requests>>
      BY <1>5, <2>2 DEF Body
    <3>2. ~fatal' => ~MayRetry
      BY <1>5, <2>0, <2>2 DEF Body
    <3> QED
      BY <1>t, <2>0, <3>1, <3>2, ReturnKeeps
  <2> QED
    BY <2>1, <2>2
<1>6. CASE BodyFails
  BY <1>6, <1>t, ReturnKeeps DEF BodyFails
<1>7. ASSUME NEW transient \in BOOLEAN, SendFails(transient)
      PROVE  IInv'
  <2>0. pc = "head" /\ ~fatal /\ earliest <= clock /\ earliest' = earliest
    BY <1>7 DEF SendFails, IInv, CountInv, EarliestInv
  <2>1. CASE transient /\ MayRetry
    <3>1. PICK b \in Backoffs(attempt) : Sleep(b)
      BY <1>7, <2>1 DEF SendFails
    <3>2. b \in Nat /\ b <= LongestWait
      BY <1>a, <3>1, BackoffIsCapped, LongestWaitIsMax, TransportAssumption
    <3>3. ~fatal' /\ UNCHANGED <<method, clock, requests>>
      BY <1>7, <2>0, <2>1 DEF SendFails
    <3>4. earliest' <= clock + b
      BY <2>0, <3>2 DEF IInv, TypeOK
    <3> QED
      BY <1>t, <2>0, <2>1, <3>1, <3>2, <3>3, <3>4, SleepKeeps
  <2>2. CASE ~(transient /\ MayRetry)
    <3>1. Return("error") /\ UNCHANGED <<method, clock, requests>>
      BY <1>7, <2>2 DEF SendFails
    <3>2. ~fatal' => ~MayRetry
      BY <1>7, <2>0, <2>2 DEF SendFails
    <3> QED
      BY <1>t, <2>0, <3>1, <3>2, ReturnKeeps
  <2> QED
    BY <2>1, <2>2
<1>8. CASE Wake
  <2>1. CountInv'
    BY <1>8 DEF Wake, IInv, CountInv
  <2>2. EarliestInv'
    BY <1>8 DEF Wake, Due, IInv, TypeOK, EarliestInv, Never
  <2>3. ASSUME Bounded PROVE TimeInv'
    BY <1>8, <1>u, <2>3 DEF Wake, IInv, TypeOK, EarliestInv, TimeInv, Returned, Never
  <2> QED
    BY <1>t, <2>1, <2>2, <2>3 DEF IInv
<1>9. CASE Tick
  <2>1. CountInv'
    BY <1>9 DEF Tick, IInv, CountInv, MayRetry
  <2>2. EarliestInv'
    BY <1>9 DEF Tick, IInv, TypeOK, EarliestInv
  <2>3. ASSUME Bounded PROVE TimeInv'
    BY <1>9, <2>3 DEF Tick, Due, IInv, TypeOK, EarliestInv, TimeInv, Returned, Never
  <2> QED
    BY <1>t, <2>1, <2>2, <2>3 DEF IInv
<1> QED
  BY <1>1, <1>2, <1>3, <1>3a, <1>3b, <1>5, <1>6, <1>7, <1>8, <1>9 DEF Next, Server, Timeout

-----------------------------------------------------------------------------
(* IInv holds throughout every call, with any policy and any server.       *)
THEOREM Invariance == Spec => []IInv
  BY InitIInv, NextIInv, PTL DEF Spec

(* Retries are spent on outcomes they may help with, all of them if need   *)
(* be and no more, for every max_attempts, 0 included.                     *)
THEOREM RetriesSpent == Spec => []RetriesAreSpent
<1>1. IInv => RetriesAreSpent
  <2> SUFFICES ASSUME IInv PROVE RetriesAreSpent
    OBVIOUS
  <2>1. requests <= Attempts /\ (fatal => pc = "error")
    BY AttemptsIsMax DEF IInv, TypeOK, CountInv
  <2>2. ASSUME pc = "error", ~fatal, method \in {"GET", "HEAD"}
        PROVE  requests = Attempts
    BY <2>2, AttemptsIsMax, TransportAssumption DEF IInv, TypeOK, CountInv, MayRetry
  <2> QED
    BY <2>1, <2>2 DEF RetriesAreSpent
<1> QED
  BY <1>1, Invariance, PTL

(* A call with a timeout is over after the time its policy allows, with    *)
(* any backoff and any Retry-After the server may send.                    *)
THEOREM CallTimeBounded == Spec => []TimeIsBounded
<1>1. IInv => TimeIsBounded
  <2> SUFFICES ASSUME IInv, Bounded PROVE clock <= CallTime
    BY DEF TimeIsBounded
  <2>1. attempt - 1 \in Nat /\ attempt - 1 < Attempts
    BY AttemptsIsMax DEF IInv, TypeOK, CountInv
  <2>2. /\ Used(attempt - 1) \in Nat
        /\ Used(attempt - 1) + RequestTimeout <= CallTime
    BY <2>1, UsedGrows
  <2>3. CallTime \in Int
    BY AttemptsIsMax, LongestWaitIsMax, TransportAssumption DEF CallTime
  <2> QED
    BY <2>2, <2>3, TransportAssumption
    DEF IInv, TypeOK, EarliestInv, TimeInv, Returned, Never
<1> QED
  BY <1>1, Invariance, PTL

(* No request is sent before the time the last Retry-After asked for.      *)
THEOREM RetryAfterIsHonoured == Spec => RetryAfterHonoured
<1>1. IInv /\ [Next]_vars => [requests' # requests => clock >= earliest]_vars
  <2> SUFFICES ASSUME IInv, Next, requests' # requests PROVE clock >= earliest
    OBVIOUS
  <2>1. Send
    BY DEF Next, BuildFails, Server, Head, Success, Bytes, Result, Body, BodyFails,
           SendFails, Timeout, Wake, Tick
  <2> QED
    BY <2>1 DEF Send, IInv, TypeOK, EarliestInv
<1> QED
  BY <1>1, Invariance, PTL DEF Spec, RetryAfterHonoured
=============================================================================

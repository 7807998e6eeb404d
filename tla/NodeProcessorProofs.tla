------------------------- MODULE NodeProcessorProofs -------------------------
(***************************************************************************)
(* Proofs about NodeProcessor, for any number of calls, any inputs and any *)
(* configuration: how many attempts and how much time a call may take, the *)
(* metrics it leaves behind, and what the built-in classes return.         *)
(***************************************************************************)
EXTENDS NodeProcessor, SequenceTheorems, FiniteSetTheorems, TLAPS

Phases == {"idle", "pre", "process", "sleep", "post", "returned", "raised", "cancelled"}
Attending == {"pre", "process"}
Fields == {"phase", "input", "attempt", "elapsed", "failures", "retries", "output", "error"}

\* The time of n attempts that failed and the delays after them.
Spent(n) == n * Timeout + n * MaxDelay

\* The numbers of a call.
Counts(c) ==
    /\ DOMAIN calls[c] = Fields
    /\ calls[c].phase \in Phases
    /\ calls[c].attempt \in Nat /\ calls[c].elapsed \in Nat
    /\ calls[c].failures \in Nat /\ calls[c].retries \in Nat

\* A call under way or over stays within the configuration; while process() runs, and
\* before, only the attempts that failed count, and each of them is known to have failed.
OnTime(c) ==
    LET k == calls[c] IN
    /\ k.phase = "idle" => k.attempt = 0 /\ k.failures = 0 /\ k.retries = 0
                           /\ k.elapsed = 0
    /\ k.phase \in Attending \cup {"post"} => k.failures = k.attempt
    /\ k.phase = "sleep" => k.failures = k.attempt + 1
    /\ k.failures \in k.attempt .. k.attempt + 1
    /\ k.phase # "idle" =>
          /\ processor # <<>>
          /\ k.attempt <= Config.max_retries
          /\ ~Config.retry_enabled => k.attempt = 0
    /\ k.phase \in Attending => k.elapsed <= Spent(k.attempt)
    /\ k.phase \notin Attending \cup {"idle"} => k.elapsed <= Spent(k.attempt) + Timeout
    /\ k.phase = "pre" => k.attempt = 0
    /\ k.phase = "sleep" => Config.retry_enabled /\ k.attempt < Config.max_retries
    /\ k.retries # 0 => k.phase = "raised"
    /\ k.phase # "idle" => (k.retries # 0 <=> Config.retry_enabled
                                             /\ k.failures = Config.max_retries + 1)

NInv ==
    /\ DOMAIN calls = Call
    /\ processor = <<>> \/ (processor # <<>> /\ Config \in Configs)
    /\ \A c \in Call : Counts(c) /\ OnTime(c)

------------------------------------------------------------------------------
LEMMA SpentGrows ==
    ASSUME NEW n \in Nat
    PROVE  /\ Spent(n) \in Nat /\ Spent(0) = 0
           /\ Spent(n + 1) = Spent(n) + Timeout + MaxDelay
<1>1. n * Timeout \in Nat /\ n * MaxDelay \in Nat
  BY BudgetAssumption
<1>2. (n + 1) * Timeout = n * Timeout + Timeout /\ (n + 1) * MaxDelay = n * MaxDelay + MaxDelay
  BY BudgetAssumption
<1>3. 0 * Timeout = 0 /\ 0 * MaxDelay = 0
  BY BudgetAssumption
<1> QED
  BY <1>1, <1>2, <1>3, BudgetAssumption DEF Spent

\* The delay before an attempt is capped.
LEMMA DelayCapped ==
    ASSUME NEW limit \in RetryLimits, NEW n \in 0 .. limit
    PROVE  Delay(n) \in Nat /\ Delay(n) <= MaxDelay
<1> DEFINE backoff == InitialDelay * Multiplier^n
<1>1. backoff \in Nat
  BY BudgetAssumption, PowerAssumption
<1>2. Delay(n) = IF backoff < MaxDelay THEN backoff ELSE MaxDelay
  BY DEF Delay
<1> HIDE DEF backoff
<1> QED
  BY <1>1, <1>2, BudgetAssumption

LEMMA InitNInv == Init => NInv
<1> SUFFICES ASSUME Init PROVE NInv
  OBVIOUS
<1>1. \A c \in Call : calls[c] = Idle
  BY DEF Init
<1>2. \A c \in Call : Counts(c) /\ OnTime(c)
  BY <1>1 DEF Idle, Counts, OnTime, Fields, Phases, Attending
<1> QED
  BY <1>2 DEF Init, NInv

\* A step that gives one call a record within the budget keeps the invariant.
LEMMA OneCall ==
    ASSUME NInv, NEW c \in Call, NEW k, calls' = [calls EXCEPT ![c] = k],
           UNCHANGED processor, Counts(c)', OnTime(c)'
    PROVE  NInv'
<1>1. DOMAIN calls' = Call
  BY DEF NInv
<1>2. ASSUME NEW d \in Call, d # c PROVE Counts(d)' /\ OnTime(d)'
  <2>1. calls'[d] = calls[d] /\ Counts(d) /\ OnTime(d)
    BY <1>2 DEF NInv
  <2> QED
    BY <2>1 DEF Counts, OnTime, Config
<1> QED
  BY <1>1, <1>2 DEF NInv, Config

\* Leaving execute() with an error or a cancellation.
LEMMA Leaves ==
    ASSUME NInv, NEW c \in Call, NEW k, NEW total, Finish(c, k, total),
           DOMAIN k = Fields, k.phase \in {"returned", "raised", "cancelled"},
           calls[c].phase # "idle",
           k.attempt = calls[c].attempt, k.elapsed \in Nat,
           k.elapsed <= Spent(calls[c].attempt) + Timeout,
           k.failures \in k.attempt .. k.attempt + 1, k.retries \in Nat,
           k.retries # 0 => k.phase = "raised",
           k.retries # 0 <=> Config.retry_enabled /\ k.failures = Config.max_retries + 1
    PROVE  NInv'
<1>1. calls' = [calls EXCEPT ![c] = k] /\ calls'[c] = k /\ UNCHANGED processor
  BY DEF Finish, NInv
<1>2. Counts(c) /\ OnTime(c) /\ processor # <<>> /\ Config \in Configs
  BY DEF NInv, OnTime
<1>3. Config.max_retries \in Nat
  BY <1>2, BudgetAssumption DEF Configs
<1>4. Counts(c)'
  BY <1>1, <1>2, <1>3 DEF Counts, Phases
<1>5. OnTime(c)'
  BY <1>1, <1>2 DEF OnTime, Config, Attending
<1> QED
  BY <1>1, <1>4, <1>5, OneCall

\* Moving on within execute().
LEMMA MovesOn ==
    ASSUME NInv, NEW c \in Call, NEW from, NEW to \in Phases, NEW elapsed \in Nat,
           Moves(c, from, to, elapsed),
           OnTime(c)'
    PROVE  NInv'
<1>1. /\ calls' = [calls EXCEPT ![c] = [calls[c] EXCEPT !.phase = to, !.elapsed = elapsed]]
      /\ UNCHANGED processor
  BY DEF Moves
<1>2. Counts(c)
  BY DEF NInv
<1>3. calls'[c] = [calls[c] EXCEPT !.phase = to, !.elapsed = elapsed]
  BY <1>1 DEF NInv
<1>4. Counts(c)'
  BY <1>2, <1>3 DEF Counts, Fields
<1> QED
  BY <1>1, <1>4, OneCall

------------------------------------------------------------------------------
(* The steps *)

\* What the invariant says of one call.
LEMMA CallNumbers ==
    ASSUME NInv, NEW c \in Call
    PROVE  /\ Counts(c) /\ OnTime(c)
           /\ Spent(calls[c].attempt) \in Nat
           /\ calls[c].phase # "idle" =>
                 /\ Config.max_retries \in RetryLimits /\ Config.max_retries \in Nat
                 /\ Config.retry_enabled \in BOOLEAN
<1>1. Counts(c) /\ OnTime(c)
  BY DEF NInv
<1>2. Spent(calls[c].attempt) \in Nat
  BY <1>1, SpentGrows DEF Counts
<1>3. calls[c].phase # "idle" => Config \in Configs
  BY <1>1 DEF NInv, OnTime
<1> QED
  BY <1>1, <1>2, <1>3, BudgetAssumption DEF Configs

LEMMA BuiltinStep ==
    ASSUME NInv, NEW c \in Call, NEW input, ExecuteBuiltin(c, input)
    PROVE  NInv'
<1> DEFINE call == [calls[c] EXCEPT !.input = input]
           outcome == Process(processor[1].type, input)
           Good == [call EXCEPT !.phase = "returned", !.output = outcome.value]
           Bad(error) == [call EXCEPT !.phase = "raised", !.error = error]
           k == CASE ~Valid(processor[1].type, input) -> Bad("ProcessorValidationError")
                  [] Valid(processor[1].type, input) /\ outcome.ok -> Good
                  [] OTHER -> Bad("ProcessorExecutionError")
<1>1. /\ processor # <<>> /\ calls[c].phase = "idle" /\ Finish(c, k, 0)
      /\ Counts(c) /\ OnTime(c)
  BY Zenon DEF ExecuteBuiltin, Of, NInv
<1>2. /\ calls[c].attempt = 0 /\ calls[c].failures = 0 /\ calls[c].retries = 0
      /\ calls[c].elapsed = 0
      /\ Config \in Configs /\ Config.max_retries \in Nat
  BY <1>1, BudgetAssumption DEF OnTime, NInv, Configs
<1>3. k \in {Good, Bad("ProcessorValidationError"), Bad("ProcessorExecutionError")}
  OBVIOUS
<1>4. ASSUME NEW x \in {Good, Bad("ProcessorValidationError"), Bad("ProcessorExecutionError")}
      PROVE  /\ DOMAIN x = Fields /\ x.phase \in {"returned", "raised"}
             /\ x.attempt = 0 /\ x.failures = 0 /\ x.retries = 0 /\ x.elapsed = 0
  BY <1>1, <1>2 DEF Counts, Fields
<1>5. /\ DOMAIN k = Fields /\ k.phase \in {"returned", "raised"}
      /\ k.attempt = 0 /\ k.failures = 0 /\ k.retries = 0 /\ k.elapsed = 0
  BY <1>3, <1>4
<1> HIDE DEF k
<1>6. calls' = [calls EXCEPT ![c] = k] /\ calls'[c] = k /\ UNCHANGED processor
  BY <1>1 DEF Finish, NInv
<1>7. Counts(c)'
  BY <1>5, <1>6 DEF Counts, Phases
<1>8. 0 <= Spent(k.attempt) + Timeout
  BY <1>5, SpentGrows, BudgetAssumption
<1>9. processor' # <<>> /\ Config' = Config
  BY <1>1, <1>6 DEF Config
<1>10. /\ k.attempt <= Config.max_retries
       /\ k.elapsed <= Spent(k.attempt) + Timeout
       /\ k.failures # Config.max_retries + 1
  BY <1>2, <1>5, <1>8
<1>11. OnTime(c)'
  BY <1>5, <1>6, <1>9, <1>10 DEF OnTime, Attending
<1> QED
  BY <1>6, <1>7, <1>11, OneCall

LEMMA ExecuteStep ==
    ASSUME NInv, NEW c \in Call, Execute(c)
    PROVE  NInv'
<1>1. Moves(c, "idle", "pre", 0)
  BY DEF Execute
<1>2. Counts(c) /\ OnTime(c) /\ NInv
  BY CallNumbers
<1>3. /\ calls[c].phase = "idle" /\ processor # <<>> /\ UNCHANGED processor
      /\ calls'[c] = [calls[c] EXCEPT !.phase = "pre", !.elapsed = 0]
  BY <1>1 DEF Moves, Of, NInv
<1>4. Config.max_retries \in Nat /\ Config' = Config
  BY <1>3, BudgetAssumption DEF NInv, Configs, Config
<1>5. OnTime(c)'
  BY <1>2, <1>3, <1>4, SpentGrows DEF OnTime, Counts, Fields, Attending
<1> QED
  BY <1>1, <1>5, MovesOn DEF Phases

LEMMA PreProcessStep ==
    ASSUME NInv, NEW c \in Call, PreProcess(c)
    PROVE  NInv'
<1>1. /\ Counts(c) /\ OnTime(c) /\ Spent(calls[c].attempt) \in Nat
  BY CallNumbers
<1>2. CASE Moves(c, "pre", "process", 0)
  <2>1. /\ calls[c].phase = "pre" /\ UNCHANGED processor
        /\ calls'[c] = [calls[c] EXCEPT !.phase = "process", !.elapsed = 0]
    BY <1>2 DEF Moves, NInv
  <2>2. OnTime(c)'
    BY <1>1, <2>1 DEF OnTime, Counts, Fields, Attending, Config
  <2> QED
    BY <1>2, <2>2, MovesOn DEF Phases
<1>3. CASE /\ calls[c].phase = "pre"
           /\ Finish(c, Raises(c, "ProcessorValidationError", 0, 0), 0)
  <2> DEFINE k == Raises(c, "ProcessorValidationError", 0, 0)
  <2>1. /\ DOMAIN k = Fields /\ k.phase = "raised" /\ k.attempt = calls[c].attempt
        /\ k.elapsed = 0 /\ k.retries = 0 /\ k.failures = k.attempt
    BY <1>1, <1>3 DEF Raises, Counts, OnTime, Attending, Fields
  <2>3. k.attempt \in Nat /\ k.attempt <= Config.max_retries /\ Config.max_retries \in Nat
    BY <1>1, <1>3, <2>1, CallNumbers DEF Counts, OnTime
  <2> HIDE DEF k
  <2>2. 0 <= Spent(calls[c].attempt) + Timeout
    BY <1>1, BudgetAssumption
  <2> QED
    BY <1>3, <2>1, <2>2, <2>3, Leaves DEF k
<1> QED
  BY <1>2, <1>3 DEF PreProcess

\* process() ends with an error after d units.
LEMMA RaisesStep ==
    ASSUME NInv, NEW c \in Call, NEW d \in 0 .. Timeout, NEW error,
           calls[c].phase = "process",
           Finish(c, Raises(c, error, 0, calls[c].elapsed + d), 0)
    PROVE  NInv'
<1> DEFINE k == Raises(c, error, 0, calls[c].elapsed + d)
<1>1. /\ Counts(c) /\ OnTime(c) /\ Spent(calls[c].attempt) \in Nat
  BY CallNumbers
<1>2. /\ DOMAIN k = Fields /\ k.phase = "raised" /\ k.attempt = calls[c].attempt
      /\ k.elapsed = calls[c].elapsed + d /\ k.retries = 0 /\ k.failures = k.attempt
  BY <1>1 DEF Raises, Counts, OnTime, Attending, Fields
<1>3. /\ calls[c].elapsed + d \in Nat
      /\ calls[c].elapsed + d <= Spent(calls[c].attempt) + Timeout
  BY <1>1, BudgetAssumption DEF OnTime, Counts, Attending
<1>4. k.attempt \in Nat /\ k.attempt <= Config.max_retries /\ Config.max_retries \in Nat
  BY <1>1, <1>2, CallNumbers DEF Counts, OnTime
<1> HIDE DEF k
<1> QED
  BY <1>2, <1>3, <1>4, Leaves DEF k

\* process() raises a retryable exception after d units.
LEMMA FailsRetryableStep ==
    ASSUME NInv, NEW c \in Call, NEW d \in 0 .. Timeout, FailsRetryable(c, d)
    PROVE  NInv'
<1> DEFINE n == calls[c].attempt
           failed == [calls[c] EXCEPT !.elapsed = @ + d, !.failures = @ + 1]
           Error(retries) == [failed EXCEPT !.phase = "raised", !.retries = retries,
                                            !.error = "ProcessorExecutionError"]
           asleep == [failed EXCEPT !.phase = "sleep"]
<1>1. /\ Counts(c) /\ OnTime(c) /\ Spent(n) \in Nat
      /\ calls[c].phase = "process" /\ processor # <<>>
      /\ Config.max_retries \in Nat /\ Config.retry_enabled \in BOOLEAN
  BY CallNumbers DEF FailsRetryable, OnTime
<1>2. /\ n \in Nat /\ n <= Config.max_retries /\ calls[c].failures = n
      /\ calls[c].retries = 0
      /\ calls[c].elapsed + d \in Nat /\ calls[c].elapsed + d <= Spent(n) + Timeout
  BY <1>1, BudgetAssumption DEF Counts, OnTime, Attending
<1>3. ASSUME NEW retries \in Nat
      PROVE  /\ DOMAIN Error(retries) = Fields /\ Error(retries).phase = "raised"
             /\ Error(retries).attempt = n /\ Error(retries).failures = n + 1
             /\ Error(retries).elapsed = calls[c].elapsed + d
             /\ Error(retries).retries = retries
  BY <1>1, <1>2 DEF Counts, Fields
<1>4. /\ DOMAIN asleep = Fields /\ asleep.phase = "sleep" /\ asleep.attempt = n
      /\ asleep.failures = n + 1 /\ asleep.elapsed = calls[c].elapsed + d
      /\ asleep.retries = 0
  BY <1>1, <1>2 DEF Counts, Fields
<1>5. \/ ~Config.retry_enabled /\ Finish(c, Error(0), 0)
      \/ /\ Config.retry_enabled /\ n < Config.max_retries
         /\ calls' = [calls EXCEPT ![c] = asleep] /\ UNCHANGED processor
      \/ Config.retry_enabled /\ n = Config.max_retries /\ Finish(c, Error(n + 1), 0)
  BY DEF FailsRetryable
<1> HIDE DEF Error, asleep, n
<1>6. CASE ~Config.retry_enabled /\ Finish(c, Error(0), 0)
  <2> DEFINE k == Error(0)
  <2>1. /\ DOMAIN k = Fields /\ k.phase = "raised" /\ k.attempt = n
        /\ k.failures = n + 1 /\ k.elapsed = calls[c].elapsed + d /\ k.retries = 0
    BY <1>3
  <2>2. Finish(c, k, 0)
    BY <1>6
  <2> HIDE DEF k
  <2> QED
    BY <1>1, <1>2, <1>6, <2>1, <2>2, Leaves DEF n
<1>7. CASE Config.retry_enabled /\ n = Config.max_retries /\ Finish(c, Error(n + 1), 0)
  <2> DEFINE k == Error(n + 1)
  <2>1. /\ DOMAIN k = Fields /\ k.phase = "raised" /\ k.attempt = n
        /\ k.failures = n + 1 /\ k.elapsed = calls[c].elapsed + d /\ k.retries = n + 1
    BY <1>2, <1>3
  <2>2. Finish(c, k, 0)
    BY <1>7
  <2> HIDE DEF k
  <2> QED
    BY <1>1, <1>2, <1>7, <2>1, <2>2, Leaves DEF n
<1>8. CASE /\ Config.retry_enabled /\ n < Config.max_retries
           /\ calls' = [calls EXCEPT ![c] = asleep] /\ UNCHANGED processor
  <2>1. calls'[c] = asleep /\ Config' = Config
    BY <1>8 DEF NInv, Config
  <2>2. Counts(c)'
    BY <1>2, <1>4, <2>1 DEF Counts, Phases
  <2>3. OnTime(c)'
    BY <1>1, <1>2, <1>4, <1>8, <2>1 DEF OnTime, Attending
  <2> QED
    BY <1>8, <2>2, <2>3, OneCall
<1> QED
  BY <1>5, <1>6, <1>7, <1>8

LEMMA ReturnsStep ==
    ASSUME NInv, NEW c \in Call, NEW d \in 0 .. Timeout, ProcessReturns(c, d)
    PROVE  NInv'
<1> DEFINE spent == calls[c].elapsed + d
<1>1. /\ Counts(c) /\ OnTime(c) /\ Spent(calls[c].attempt) \in Nat
  BY CallNumbers
<1>2. Moves(c, "process", "post", spent) /\ calls[c].phase = "process"
  BY DEF ProcessReturns, Moves
<1>3. spent \in Nat /\ spent <= Spent(calls[c].attempt) + Timeout
  BY <1>1, <1>2, BudgetAssumption DEF OnTime, Counts, Attending
<1> HIDE DEF spent
<1>4. /\ UNCHANGED processor
      /\ calls'[c] = [calls[c] EXCEPT !.phase = "post", !.elapsed = spent]
  BY <1>2 DEF Moves, NInv
<1>5. OnTime(c)'
  BY <1>1, <1>2, <1>3, <1>4 DEF OnTime, Counts, Fields, Attending, Config
<1> QED
  BY <1>2, <1>3, <1>5, MovesOn DEF Phases

LEMMA WakesUpStep ==
    ASSUME NInv, NEW c \in Call, WakesUp(c)
    PROVE  NInv'
<1> DEFINE n == calls[c].attempt
           spent == calls[c].elapsed + Delay(n)
           k == [calls[c] EXCEPT !.phase = "process", !.attempt = n + 1, !.elapsed = spent]
<1>1. /\ Counts(c) /\ OnTime(c) /\ calls[c].phase = "sleep"
      /\ Config.max_retries \in RetryLimits /\ Config.max_retries \in Nat
  BY CallNumbers DEF WakesUp
<1>2. n \in 0 .. Config.max_retries /\ n < Config.max_retries /\ Config.retry_enabled
  BY <1>1 DEF OnTime, Counts
<1>3. Delay(n) \in Nat /\ Delay(n) <= MaxDelay
  BY <1>1, <1>2, DelayCapped
<1>4. /\ calls[c].elapsed \in Nat /\ n \in Nat
      /\ calls[c].elapsed <= Spent(n) + Timeout
      /\ Spent(n) \in Nat /\ Spent(n + 1) = Spent(n) + Timeout + MaxDelay
  BY <1>1, SpentGrows DEF OnTime, Counts, Attending
<1>5. spent \in Nat /\ spent <= Spent(n + 1)
  BY <1>3, <1>4, BudgetAssumption
<1>6. calls' = [calls EXCEPT ![c] = k] /\ calls'[c] = k /\ UNCHANGED processor
  BY DEF WakesUp, NInv
<1> HIDE DEF spent
<1>7. /\ DOMAIN k = Fields /\ k.phase = "process" /\ k.attempt = n + 1 /\ k.elapsed = spent
      /\ k.retries = calls[c].retries /\ k.failures = calls[c].failures
  BY <1>1 DEF Counts, Fields
<1>8. calls[c].retries = 0 /\ calls[c].failures = n + 1 /\ processor # <<>>
  BY <1>1 DEF OnTime
<1> HIDE DEF k, n
<1>9. Counts(c)'
  BY <1>4, <1>5, <1>6, <1>7, <1>8 DEF Counts, Phases
<1>10. OnTime(c)'
  BY <1>1, <1>2, <1>4, <1>5, <1>6, <1>7, <1>8 DEF OnTime, Attending, Config
<1> QED
  BY <1>6, <1>9, <1>10, OneCall

\* post_process, and a cancellation anywhere: no time passes.
LEMMA LastStep ==
    ASSUME NInv, NEW c \in Call, PostProcess(c) \/ Cancel(c)
    PROVE  NInv'
<1>1. /\ Counts(c) /\ OnTime(c) /\ Spent(calls[c].attempt) \in Nat
  BY CallNumbers
<1>2. calls[c].phase \in {"pre", "process", "sleep", "post"}
  BY DEF PostProcess, Cancel
<1>3. /\ calls[c].retries = 0 /\ calls[c].elapsed \in Nat
      /\ calls[c].elapsed <= Spent(calls[c].attempt) + Timeout
  BY <1>1, <1>2, BudgetAssumption DEF OnTime, Counts, Attending
<1>6. /\ Config.max_retries \in Nat /\ calls[c].attempt \in Nat
      /\ calls[c].failures \in calls[c].attempt .. calls[c].attempt + 1
      /\ calls[c].failures <= Config.max_retries
  BY <1>1, <1>2, CallNumbers DEF OnTime, Counts, Attending
<1>4. ASSUME NEW phase \in {"returned", "cancelled"}, NEW total,
             Finish(c, [calls[c] EXCEPT !.phase = phase], total)
      PROVE  NInv'
  <2> DEFINE k == [calls[c] EXCEPT !.phase = phase]
  <2>1. /\ DOMAIN k = Fields /\ k.phase = phase /\ k.attempt = calls[c].attempt
        /\ k.elapsed = calls[c].elapsed /\ k.retries = 0
        /\ k.failures = calls[c].failures
    BY <1>1, <1>3 DEF Counts, Fields
  <2>2. Finish(c, k, total)
    BY <1>4
  <2> HIDE DEF k
  <2>3. /\ k.phase \in {"returned", "raised", "cancelled"} /\ calls[c].phase # "idle"
        /\ ~(k.failures = Config.max_retries + 1)
    BY <1>2, <1>4, <1>6, <2>1
  <2> QED
    BY <1>3, <1>6, <2>1, <2>2, <2>3, Leaves
<1>5. ASSUME NEW error, NEW total,
             Finish(c, Raises(c, error, 0, calls[c].elapsed), total)
      PROVE  NInv'
  <2> DEFINE k == Raises(c, error, 0, calls[c].elapsed)
  <2>1. /\ DOMAIN k = Fields /\ k.phase = "raised" /\ k.attempt = calls[c].attempt
        /\ k.elapsed = calls[c].elapsed /\ k.retries = 0
        /\ k.failures = calls[c].failures
    BY <1>1 DEF Raises, Counts, Fields
  <2> HIDE DEF k
  <2> QED
    BY <1>2, <1>3, <1>5, <1>6, <2>1, Leaves DEF k
<1> QED
  BY <1>4, <1>5 DEF PostProcess, Cancel

\* The registry, the processor and its metrics.
LEMMA OtherSteps ==
    ASSUME NInv,
           \/ \E t \in Extra : Register(t)
           \/ \E t \in BuiltinTypes \cup Extra, config \in Configs : Create(t, config)
           \/ ClearMetrics \/ UNCHANGED vars
    PROVE  NInv'
<1>1. CASE UNCHANGED <<processor, calls>>
  BY <1>1 DEF NInv, Counts, OnTime, Config
<1>2. ASSUME NEW t, NEW config \in Configs, Create(t, config)
      PROVE  NInv'
  <2>1. processor = <<>> /\ Config' = config /\ processor' # <<>> /\ UNCHANGED calls
    BY <1>2 DEF Create, Config
  <2>2. \A c \in Call : Counts(c) /\ calls[c].phase = "idle" /\ OnTime(c)
    BY <2>1 DEF NInv, OnTime
  <2>3. \A c \in Call : Counts(c)' /\ OnTime(c)'
    BY <2>1, <2>2 DEF OnTime, Counts, Attending
  <2> QED
    BY <2>1, <2>3 DEF NInv
<1> QED
  BY <1>1, <1>2 DEF Register, ClearMetrics, vars

LEMMA NextNInv == NInv /\ [Next]_vars => NInv'
<1> SUFFICES ASSUME NInv, [Next]_vars PROVE NInv'
  OBVIOUS
<1>1. ASSUME NEW c \in Call, NEW d \in 0 .. Timeout,
             \/ TimesOut(c, d) \/ FailsRetryable(c, d) \/ FailsOtherwise(c, d)
             \/ ProcessReturns(c, d)
      PROVE  NInv'
  BY <1>1, RaisesStep, FailsRetryableStep, ReturnsStep DEF TimesOut, FailsOtherwise
<1>2. ASSUME NEW c \in Call,
             Execute(c) \/ PreProcess(c) \/ WakesUp(c) \/ PostProcess(c) \/ Cancel(c)
      PROVE  NInv'
  BY <1>2, ExecuteStep, PreProcessStep, WakesUpStep, LastStep
<1> QED
  BY <1>1, <1>2, BuiltinStep, OtherSteps DEF Next

(***************************************************************************)
(* No call takes more attempts or more time than its configuration allows, *)
(* each further attempt follows one that failed with a retryable           *)
(* exception, and its error reports retries if and only if every attempt   *)
(* the configuration allows was made and failed so.                        *)
(***************************************************************************)
THEOREM CallsStayWithinBudget == Spec => []WithinBudget
<1>1. NInv => WithinBudget
  <2> SUFFICES ASSUME NInv, NEW c \in Call, Ended(c)
               PROVE  /\ calls[c].elapsed <= (calls[c].attempt + 1) * Timeout
                                             + calls[c].attempt * MaxDelay
                      /\ calls[c].attempt <= Config.max_retries
                      /\ ~Config.retry_enabled => calls[c].attempt = 0
                      /\ calls[c].failures \in calls[c].attempt .. calls[c].attempt + 1
                      /\ (calls[c].retries # 0)
                            = (Config.retry_enabled
                               /\ calls[c].failures = Config.max_retries + 1)
    BY DEF WithinBudget
  <2> DEFINE n == calls[c].attempt
  <2>1. Counts(c) /\ OnTime(c) /\ calls[c].phase \in {"returned", "raised", "cancelled"}
    BY DEF NInv, Ended
  <2>2. calls[c].elapsed <= Spent(n) + Timeout /\ n \in Nat /\ calls[c].elapsed \in Nat
    BY <2>1 DEF OnTime, Counts, Attending
  <2>3. (n + 1) * Timeout = n * Timeout + Timeout
        /\ n * Timeout \in Nat /\ n * MaxDelay \in Nat
    BY <2>2, BudgetAssumption
  <2>4. calls[c].elapsed <= (n + 1) * Timeout + n * MaxDelay
    BY <2>2, <2>3, BudgetAssumption DEF Spent
  <2> QED
    BY <2>1, <2>4 DEF OnTime
<1> QED
  BY <1>1, InitNInv, NextNInv, PTL DEF Spec

------------------------------------------------------------------------------
(* The metrics *)

Final == {"returned", "raised", "cancelled"}

ErrorNames == {"none", "ProcessorValidationError", "ProcessorExecutionError",
               "ProcessorTimeoutError", "raised by the hook"}

MetricRecord == [call : Call, success : BOOLEAN, error : ErrorNames, total_duration : Nat]

\* What a metric says of its call.
Tells(m, k) ==
    /\ k.phase \in Final
    /\ m.success <=> k.phase = "returned"
    /\ m.error = k.error
    /\ m.total_duration <= k.elapsed

\* A call fails with an error, and only a call that fails has one.
ErrorsOfRaised ==
    \A c \in Call : calls[c].error \in ErrorNames
                    /\ (calls[c].error # "none" <=> calls[c].phase = "raised")

\* No call has two metrics; a call that is cleared has ended; and while metrics are
\* collected each call that has ended, and is not cleared, has its metric.
MInv ==
    /\ metrics \in Seq(MetricRecord)
    /\ \A c \in cleared : c \in Call /\ Ended(c)
    /\ \A i, j \in DOMAIN metrics : metrics[i].call = metrics[j].call => i = j
    /\ \A i \in DOMAIN metrics : /\ Tells(metrics[i], calls[metrics[i].call])
                                 /\ metrics[i].call \notin cleared
    /\ metrics # <<>> => processor # <<>> /\ Config.collect_metrics
    /\ processor # <<>> /\ Config.collect_metrics =>
          \A c \in Kept : \E i \in DOMAIN metrics : metrics[i].call = c
    /\ ErrorsOfRaised

LEMMA InitMInv == Init => MInv
<1> SUFFICES ASSUME Init PROVE MInv
  OBVIOUS
<1>1. metrics = <<>> /\ cleared = {} /\ processor = <<>>
  BY DEF Init
<1>2. \A c \in Call : calls[c].error = "none" /\ calls[c].phase = "idle"
  BY DEF Init, Idle
<1>3. ErrorsOfRaised
  BY <1>2 DEF ErrorsOfRaised, ErrorNames
<1>4. metrics \in Seq(MetricRecord) /\ DOMAIN metrics = {}
  BY <1>1
<1> QED
  BY <1>1, <1>3, <1>4 DEF MInv

\* A call that goes on has no metric, and gets none.
LEMMA GoesOn ==
    ASSUME NInv, MInv, NEW c \in Call, NEW k, calls' = [calls EXCEPT ![c] = k],
           UNCHANGED <<processor, metrics, cleared>>,
           calls[c].phase \notin Final, k.phase \notin Final, k.error = calls[c].error
    PROVE  MInv'
<1>1. calls'[c] = k /\ \A d \in Call : d # c => calls'[d] = calls[d]
  BY DEF NInv
<1>2. \A d \in Call : Ended(d)' <=> Ended(d)
  BY <1>1 DEF Ended, Final
<1>3. \A i \in DOMAIN metrics : metrics[i] \in MetricRecord
  BY ElementOfSeq DEF MInv
<1>4. \A i \in DOMAIN metrics : metrics[i].call # c /\ metrics[i].call \in Call
  BY <1>3 DEF MInv, Tells, MetricRecord
<1>5. ErrorsOfRaised'
  BY <1>1 DEF MInv, ErrorsOfRaised, Final
<1>6. Kept' = Kept /\ Config' = Config
  BY <1>2 DEF Kept, Config
<1>7. \A i \in DOMAIN metrics : Tells(metrics[i], calls'[metrics[i].call])
  BY <1>1, <1>4 DEF MInv
<1> QED
  BY <1>2, <1>5, <1>6, <1>7 DEF MInv

\* A call that leaves execute() leaves its metric.
LEMMA LeavesMetric ==
    ASSUME NInv, MInv, NEW c \in Call, NEW k, NEW total \in Nat, Finish(c, k, total),
           processor # <<>>, calls[c].phase \notin Final, k.phase \in Final,
           k.error \in ErrorNames, k.error # "none" <=> k.phase = "raised",
           total <= k.elapsed
    PROVE  MInv'
<1>1. /\ calls' = [calls EXCEPT ![c] = k] /\ UNCHANGED <<processor, cleared>>
      /\ metrics' = IF Config.collect_metrics
                    THEN Append(metrics, Metric(c, k, total)) ELSE metrics
  BY DEF Finish
<1>2. calls'[c] = k /\ \A d \in Call : d # c => calls'[d] = calls[d]
  BY <1>1 DEF NInv
<1>3. \A d \in Call : Ended(d)' <=> Ended(d) \/ d = c
  BY <1>2 DEF Ended, Final
<1>4. \A i \in DOMAIN metrics : metrics[i] \in MetricRecord
  BY ElementOfSeq DEF MInv
<1>5. \A i \in DOMAIN metrics : metrics[i].call # c /\ metrics[i].call \in Call
  BY <1>4 DEF MInv, Tells, MetricRecord
<1>6. ErrorsOfRaised'
  BY <1>2 DEF MInv, ErrorsOfRaised, Final
<1>7. c \notin cleared /\ Config' = Config /\ Kept' = Kept \cup {c}
  BY <1>1, <1>3 DEF MInv, Ended, Final, Kept, Config
<1>8. \A d \in cleared : d \in Call /\ Ended(d)'
  BY <1>3 DEF MInv
<1>9. \A i \in DOMAIN metrics : Tells(metrics[i], calls'[metrics[i].call])
  BY <1>2, <1>5 DEF MInv
<1>10. CASE ~Config.collect_metrics
  BY <1>1, <1>6, <1>7, <1>8, <1>9, <1>10 DEF MInv
<1>11. CASE Config.collect_metrics
  <2> DEFINE m == Metric(c, k, total)
             n == Len(metrics)
  <2>1. /\ m \in MetricRecord /\ m.call = c /\ Tells(m, k)
    BY DEF Metric, MetricRecord, Tells
  <2> HIDE DEF m
  <2>2. metrics \in Seq(MetricRecord) /\ metrics' = Append(metrics, m)
    BY <1>1, <1>11 DEF MInv, m
  <2>3. n \in Nat /\ DOMAIN metrics = 1 .. n
    BY <2>2, LenProperties
  <2>4. /\ metrics' \in Seq(MetricRecord) /\ DOMAIN metrics' = 1 .. n + 1
        /\ metrics'[n + 1] = m /\ \A i \in 1 .. n : metrics'[i] = metrics[i]
    BY <2>1, <2>2, AppendProperties, LenProperties
  <2> HIDE DEF n
  <2>5. \A i \in 1 .. n + 1 : i \in 1 .. n \/ i = n + 1
    BY <2>3
  <2>6. \A i, j \in DOMAIN metrics' : metrics'[i].call = metrics'[j].call => i = j
    BY <1>5, <2>1, <2>3, <2>4, <2>5 DEF MInv
  <2>7. \A i \in DOMAIN metrics' : /\ Tells(metrics'[i], calls'[metrics'[i].call])
                                   /\ metrics'[i].call \notin cleared
    BY <1>2, <1>7, <1>9, <2>1, <2>3, <2>4, <2>5 DEF MInv
  <2>8. \A d \in Kept' : \E i \in DOMAIN metrics' : metrics'[i].call = d
    <3>1. n + 1 \in DOMAIN metrics' /\ \A i \in DOMAIN metrics : i \in DOMAIN metrics'
      BY <2>3, <2>4
    <3>2. \A d \in Kept : \E i \in DOMAIN metrics : metrics[i].call = d
      BY <1>11 DEF MInv
    <3> QED
      BY <1>7, <2>1, <2>3, <2>4, <3>1, <3>2
  <2> QED
    BY <1>1, <1>6, <1>7, <1>8, <1>11, <2>4, <2>6, <2>7, <2>8 DEF MInv
<1> QED
  BY <1>10, <1>11

\* The numbers and the error of a call under way.
LEMMA UnderWay ==
    ASSUME NInv, MInv, NEW c \in Call, calls[c].phase \notin Final
    PROVE  /\ DOMAIN calls[c] = Fields /\ calls[c].elapsed \in Nat /\ calls[c].error = "none"
           /\ calls[c].phase # "idle" => processor # <<>>
BY DEF NInv, Counts, OnTime, MInv, ErrorsOfRaised, Final

LEMMA MovesMInv ==
    ASSUME NInv, MInv, NEW c \in Call, NEW from, NEW to, NEW elapsed,
           Moves(c, from, to, elapsed), from \notin Final, to \notin Final
    PROVE  MInv'
<1> DEFINE k == [calls[c] EXCEPT !.phase = to, !.elapsed = elapsed]
<1>1. /\ calls' = [calls EXCEPT ![c] = k] /\ calls[c].phase = from
      /\ UNCHANGED <<processor, metrics, cleared>>
  BY DEF Moves
<1>2. k.phase = to /\ k.error = calls[c].error
  BY <1>1, UnderWay DEF Fields
<1> HIDE DEF k
<1> QED
  BY <1>1, <1>2, GoesOn

\* An exception that leaves execute().
LEMMA RaisesMInv ==
    ASSUME NInv, MInv, NEW c \in Call, NEW error \in ErrorNames \ {"none"}, NEW retries,
           NEW elapsed \in Nat, NEW total \in 0 .. elapsed,
           Finish(c, Raises(c, error, retries, elapsed), total),
           calls[c].phase \notin Final \cup {"idle"}
    PROVE  MInv'
<1> DEFINE k == Raises(c, error, retries, elapsed)
<1>1. k.phase = "raised" /\ k.error = error /\ k.elapsed = elapsed
  BY UnderWay DEF Raises, Fields
<1>2. processor # <<>> /\ total \in Nat /\ total <= elapsed
  BY UnderWay
<1> HIDE DEF k
<1> QED
  BY <1>1, <1>2, LeavesMetric DEF k, Final

LEMMA BuiltinMInv ==
    ASSUME NInv, MInv, NEW c \in Call, NEW input, ExecuteBuiltin(c, input)
    PROVE  MInv'
<1> DEFINE call == [calls[c] EXCEPT !.input = input]
           outcome == Process(processor[1].type, input)
           Good == [call EXCEPT !.phase = "returned", !.output = outcome.value]
           Bad(error) == [call EXCEPT !.phase = "raised", !.error = error]
           k == CASE ~Valid(processor[1].type, input) -> Bad("ProcessorValidationError")
                  [] Valid(processor[1].type, input) /\ outcome.ok -> Good
                  [] OTHER -> Bad("ProcessorExecutionError")
<1>1. processor # <<>> /\ calls[c].phase = "idle" /\ Finish(c, k, 0)
  BY Zenon DEF ExecuteBuiltin, Of
<1>2. DOMAIN calls[c] = Fields /\ calls[c].elapsed \in Nat /\ calls[c].error = "none"
  BY <1>1, UnderWay DEF Final
<1>3. k \in {Good, Bad("ProcessorValidationError"), Bad("ProcessorExecutionError")}
  OBVIOUS
<1>4. ASSUME NEW x \in {Good, Bad("ProcessorValidationError"), Bad("ProcessorExecutionError")}
      PROVE  /\ x.phase \in Final /\ x.error \in ErrorNames /\ x.elapsed = calls[c].elapsed
             /\ x.error # "none" <=> x.phase = "raised"
  BY <1>2 DEF Fields, Final, ErrorNames
<1>5. /\ k.phase \in Final /\ k.error \in ErrorNames /\ k.elapsed = calls[c].elapsed
      /\ k.error # "none" <=> k.phase = "raised"
  BY <1>3, <1>4
<1> HIDE DEF k
<1> QED
  BY <1>1, <1>2, <1>5, LeavesMetric DEF Final

\* The steps of a call of the application's class.
LEMMA CallMInv ==
    ASSUME NInv, MInv, NEW c \in Call,
           Execute(c) \/ PreProcess(c) \/ WakesUp(c) \/ PostProcess(c) \/ Cancel(c)
    PROVE  MInv'
<1>1. CASE Execute(c)
  BY <1>1, MovesMInv DEF Execute, Final
<1>2. CASE PreProcess(c)
  <2>1. Moves(c, "pre", "process", 0) => MInv'
    BY MovesMInv DEF Final
  <2>2. CASE /\ calls[c].phase = "pre"
             /\ Finish(c, Raises(c, "ProcessorValidationError", 0, 0), 0)
    <3>1. 0 \in Nat /\ 0 \in 0 .. 0
      OBVIOUS
    <3> QED
      BY <2>2, <3>1, RaisesMInv DEF Final, ErrorNames
  <2> QED
    BY <1>2, <2>1, <2>2 DEF PreProcess
<1>3. CASE WakesUp(c)
  <2> DEFINE k == [calls[c] EXCEPT !.phase = "process", !.attempt = calls[c].attempt + 1,
                                   !.elapsed = calls[c].elapsed + Delay(calls[c].attempt)]
  <2>1. /\ calls' = [calls EXCEPT ![c] = k] /\ calls[c].phase = "sleep"
        /\ UNCHANGED <<processor, metrics, cleared>>
    BY <1>3 DEF WakesUp
  <2>2. k.phase = "process" /\ k.error = calls[c].error
    BY <2>1, UnderWay DEF Fields, Final
  <2> HIDE DEF k
  <2> QED
    BY <2>1, <2>2, GoesOn DEF Final
<1>4. ASSUME calls[c].phase \in {"pre", "process", "sleep", "post"},
             NEW phase \in {"returned", "cancelled"}, NEW total \in {0, calls[c].elapsed},
             Finish(c, [calls[c] EXCEPT !.phase = phase], total)
      PROVE  MInv'
  <2> DEFINE k == [calls[c] EXCEPT !.phase = phase]
  <2>1. /\ DOMAIN calls[c] = Fields /\ calls[c].elapsed \in Nat /\ calls[c].error = "none"
        /\ processor # <<>>
    BY <1>4, UnderWay DEF Final
  <2>2. k.phase = phase /\ k.error = "none" /\ k.elapsed = calls[c].elapsed
    BY <2>1 DEF Fields
  <2>3. total \in Nat /\ total <= k.elapsed
    BY <2>1, <2>2
  <2> HIDE DEF k
  <2> QED
    BY <1>4, <2>1, <2>2, <2>3, LeavesMetric DEF k, Final, ErrorNames
<1>5. CASE PostProcess(c)
  <2>1. calls[c].phase = "post" /\ calls[c].elapsed \in Nat
    BY <1>5, UnderWay DEF PostProcess, Final
  <2>2. calls[c].elapsed \in 0 .. calls[c].elapsed
    BY <2>1
  <2>3. CASE Finish(c, [calls[c] EXCEPT !.phase = "returned"], calls[c].elapsed)
    BY <1>4, <2>1, <2>3
  <2>4. CASE Finish(c, Raises(c, "raised by the hook", 0, calls[c].elapsed), calls[c].elapsed)
    BY <2>1, <2>2, <2>4, RaisesMInv DEF Final, ErrorNames
  <2> QED
    BY <1>5, <2>3, <2>4 DEF PostProcess
<1>6. CASE Cancel(c)
  BY <1>4, <1>6 DEF Cancel
<1> QED
  BY <1>1, <1>2, <1>3, <1>5, <1>6

LEMMA AttemptMInv ==
    ASSUME NInv, MInv, NEW c \in Call, NEW d \in 0 .. Timeout,
           \/ TimesOut(c, d) \/ FailsRetryable(c, d) \/ FailsOtherwise(c, d)
           \/ ProcessReturns(c, d)
    PROVE  MInv'
<1>1. calls[c].phase = "process"
  BY DEF TimesOut, FailsRetryable, FailsOtherwise, ProcessReturns, Moves
<1>2. calls[c].elapsed + d \in Nat /\ 0 \in 0 .. calls[c].elapsed + d
  BY <1>1, UnderWay, BudgetAssumption DEF Final
<1>3. CASE TimesOut(c, d)
  BY <1>1, <1>2, <1>3, RaisesMInv DEF TimesOut, Final, ErrorNames
<1>4. CASE FailsOtherwise(c, d)
  BY <1>1, <1>2, <1>4, RaisesMInv DEF FailsOtherwise, Final, ErrorNames
<1>5. CASE ProcessReturns(c, d)
  BY <1>5, MovesMInv DEF ProcessReturns, Final
<1>7. CASE FailsRetryable(c, d)
  <2> DEFINE failed == [calls[c] EXCEPT !.elapsed = @ + d, !.failures = @ + 1]
             Error(retries) == [failed EXCEPT !.phase = "raised", !.retries = retries,
                                              !.error = "ProcessorExecutionError"]
             asleep == [failed EXCEPT !.phase = "sleep"]
  <2>1. /\ DOMAIN calls[c] = Fields /\ calls[c].error = "none" /\ processor # <<>>
    BY <1>1, UnderWay DEF Final
  <2>2. /\ asleep.phase = "sleep" /\ asleep.error = "none"
        /\ \A r : /\ Error(r).phase = "raised" /\ Error(r).elapsed = calls[c].elapsed + d
                 /\ Error(r).error = "ProcessorExecutionError"
    BY <2>1 DEF Fields
  <2>3. \/ \E r : Finish(c, Error(r), 0)
        \/ /\ calls' = [calls EXCEPT ![c] = asleep]
           /\ UNCHANGED <<processor, metrics, cleared>>
    BY <1>7 DEF FailsRetryable
  <2> HIDE DEF Error, asleep
  <2>4. ASSUME NEW r, Finish(c, Error(r), 0) PROVE MInv'
    <3> DEFINE k == Error(r)
    <3>1. k.phase = "raised" /\ k.elapsed = calls[c].elapsed + d
          /\ k.error = "ProcessorExecutionError" /\ Finish(c, k, 0) /\ 0 \in Nat
      BY <2>2, <2>4
    <3> HIDE DEF k
    <3>2. 0 <= k.elapsed
      BY <1>2, <3>1
    <3> QED
      BY <1>1, <2>1, <3>1, <3>2, LeavesMetric DEF Final, ErrorNames
  <2>5. CASE /\ calls' = [calls EXCEPT ![c] = asleep]
             /\ UNCHANGED <<processor, metrics, cleared>>
    BY <1>1, <2>1, <2>2, <2>5, GoesOn DEF Final
  <2> QED
    BY <2>3, <2>4, <2>5
<1> QED
  BY <1>3, <1>4, <1>5, <1>7

\* The registry, the processor, and clear().
LEMMA OtherMInv ==
    ASSUME NInv, MInv,
           \/ \E t \in Extra : Register(t)
           \/ \E t \in BuiltinTypes \cup Extra, config \in Configs : Create(t, config)
           \/ ClearMetrics \/ UNCHANGED vars
    PROVE  MInv'
<1>1. CASE UNCHANGED <<processor, calls, metrics, cleared>>
  BY <1>1 DEF MInv, ErrorsOfRaised, Ended, Kept, Config
<1>2. ASSUME NEW t, NEW config, Create(t, config) PROVE MInv'
  <2>1. processor = <<>> /\ UNCHANGED <<calls, metrics, cleared>>
    BY <1>2 DEF Create
  <2>2. \A c \in Call : calls[c].phase = "idle"
    BY <2>1 DEF NInv, OnTime
  <2>3. metrics = <<>> /\ cleared = {} /\ Kept' = {}
    BY <2>1, <2>2 DEF MInv, Ended, Kept
  <2>4. ErrorsOfRaised'
    BY <2>1 DEF MInv, ErrorsOfRaised
  <2>5. DOMAIN metrics' = {} /\ metrics' \in Seq(MetricRecord)
    BY <2>1, <2>3
  <2> QED
    BY <2>1, <2>3, <2>4, <2>5 DEF MInv
<1>3. CASE ClearMetrics
  <2>1. /\ cleared' = cleared \cup {metrics[i].call : i \in DOMAIN metrics}
        /\ metrics' = <<>> /\ UNCHANGED <<processor, calls>>
    BY <1>3 DEF ClearMetrics
  <2>2. \A i \in DOMAIN metrics : metrics[i] \in MetricRecord
    BY ElementOfSeq DEF MInv
  <2>3. \A i \in DOMAIN metrics : metrics[i].call \in Call /\ Ended(metrics[i].call)
    BY <2>2 DEF MInv, Tells, MetricRecord, Ended, Final
  <2>4. \A c \in cleared' : c \in Call /\ Ended(c)'
    BY <2>1, <2>3 DEF MInv, Ended
  <2>5. DOMAIN metrics' = {} /\ metrics' \in Seq(MetricRecord) /\ Config' = Config
    BY <2>1 DEF Config
  <2>6. processor # <<>> /\ Config.collect_metrics => Kept' = {}
    BY <2>1 DEF MInv, Kept, Ended
  <2>7. ErrorsOfRaised'
    BY <2>1 DEF MInv, ErrorsOfRaised
  <2> QED
    BY <2>1, <2>4, <2>5, <2>6, <2>7 DEF MInv
<1> QED
  BY <1>1, <1>2, <1>3 DEF Register, vars

LEMMA NextMInv == NInv /\ MInv /\ [Next]_vars => MInv'
<1> SUFFICES ASSUME NInv, MInv, [Next]_vars PROVE MInv'
  OBVIOUS
<1> QED
  BY AttemptMInv, CallMInv, BuiltinMInv, OtherMInv DEF Next

\* The metrics that are kept and the calls they are of are as many, and so are those of the
\* calls that returned.
LEMMA MetricsCount ==
    ASSUME MInv, processor # <<>>, Config.collect_metrics
    PROVE  /\ Len(metrics) = Cardinality(Kept)
           /\ Cardinality({i \in DOMAIN metrics : metrics[i].success})
                = Cardinality({c \in Kept : calls[c].phase = "returned"})
<1> DEFINE D == DOMAIN metrics
           of == [i \in D |-> metrics[i].call]
           good == {i \in D : metrics[i].success}
           returned == {c \in Kept : calls[c].phase = "returned"}
           ofGood == [i \in good |-> metrics[i].call]
<1>1. /\ D = 1 .. Len(metrics) /\ Len(metrics) \in Nat
      /\ \A i \in D : metrics[i] \in MetricRecord
  BY LenProperties, ElementOfSeq DEF MInv
<1>2. IsFiniteSet(D) /\ Cardinality(D) = Len(metrics)
  <2>1. PICK n \in Nat : n = Len(metrics)
    BY <1>1
  <2>2. IsFiniteSet(1 .. n) /\ Cardinality(1 .. n) = n
    BY FS_Interval
  <2> QED
    BY <1>1, <2>1, <2>2
<1>3. \A i \in D : metrics[i].call \in Kept
  BY <1>1 DEF MInv, Tells, MetricRecord, Kept, Ended, Final
<1>4. \A c \in Kept : \E i \in D : metrics[i].call = c
  BY DEF MInv
<1>5. \A i, j \in D : metrics[i].call = metrics[j].call => i = j
  BY DEF MInv
<1>6. \A i \in D : metrics[i].success <=> calls[metrics[i].call].phase = "returned"
  BY DEF MInv, Tells
<1> HIDE DEF D
<1>7. of \in Bijection(D, Kept)
  BY <1>3, <1>4, <1>5 DEF Bijection, Injection, Surjection, IsInjective
<1>8. ofGood \in Bijection(good, returned)
  BY <1>3, <1>4, <1>5, <1>6 DEF Bijection, Injection, Surjection, IsInjective
<1>9. IsFiniteSet(good)
  BY <1>2, FS_Subset
<1> HIDE DEF of, ofGood, good, returned
<1>10. Cardinality(Kept) = Cardinality(D)
  BY <1>2, <1>7, FS_Bijection DEF ExistsBijection
<1>11. Cardinality(returned) = Cardinality(good)
  BY <1>8, <1>9, FS_Bijection DEF ExistsBijection
<1> QED
  BY <1>2, <1>10, <1>11 DEF good, returned, D

(***************************************************************************)
(* Every call that has left execute() has exactly one metric until it is   *)
(* cleared, the summary counts them and the successes among them, and a    *)
(* metric has an error exactly when its call raised one.                   *)
(***************************************************************************)
THEOREM MetricsTellTheOutcomes == Spec => []MetricsTellOutcomes
<1>1. NInv /\ MInv => MetricsTellOutcomes
  <2> SUFFICES ASSUME MInv, processor # <<>>, Config.collect_metrics
               PROVE  /\ {metrics[i].call : i \in DOMAIN metrics} = Kept
                      /\ Summary.total_processors = Cardinality(Kept)
                      /\ Summary.success_count
                           = Cardinality({c \in Kept : calls[c].phase = "returned"})
                      /\ \A i \in DOMAIN metrics :
                            /\ (metrics[i].error # "none")
                                 = (calls[metrics[i].call].phase = "raised")
                            /\ metrics[i].total_duration <= calls[metrics[i].call].elapsed
    BY DEF MetricsTellOutcomes
  <2>1. \A i \in DOMAIN metrics : metrics[i] \in MetricRecord
    BY ElementOfSeq DEF MInv
  <2>2. \A i \in DOMAIN metrics : metrics[i].call \in Kept
    BY <2>1 DEF MInv, Tells, MetricRecord, Kept, Ended, Final
  <2>3. {metrics[i].call : i \in DOMAIN metrics} = Kept
    BY <2>2 DEF MInv
  <2>4. /\ Summary.total_processors = Len(metrics)
        /\ Summary.success_count = Count(LAMBDA m : m.success)
    BY DEF Summary
  <2>5. Count(LAMBDA m : m.success) = Cardinality({i \in DOMAIN metrics : metrics[i].success})
    BY DEF Count
  <2>6. \A i \in DOMAIN metrics :
           /\ (metrics[i].error # "none") = (calls[metrics[i].call].phase = "raised")
           /\ metrics[i].total_duration <= calls[metrics[i].call].elapsed
    BY <2>1, <2>2 DEF MInv, Tells, ErrorsOfRaised, Kept
  <2> QED
    BY <2>3, <2>4, <2>5, <2>6, MetricsCount
<1>2. NInv /\ MInv /\ [Next]_vars => (NInv /\ MInv)'
  BY NextNInv, NextMInv
<1> QED
  BY <1>1, <1>2, InitNInv, InitMInv, PTL DEF Spec

------------------------------------------------------------------------------
(* Folds *)

\* A nonempty set of numbers has a least one.
LEMMA LeastNumber ==
    ASSUME NEW T \in SUBSET Nat, T # {}
    PROVE  \E m \in T : \A k \in T : m <= k
<1> DEFINE R == OpToRel(<, Nat)
<1>1. \E m \in T : \A k \in T : ~(<<k, m>> \in R)
  BY NatLessThanWellFounded, WFMin
<1>2. \A k, m \in Nat : <<k, m>> \in R <=> k < m
  BY DEF OpToRel
<1> HIDE DEF R
<1>3. PICK m \in T : \A k \in T : ~(<<k, m>> \in R)
  BY <1>1
<1>4. \A k \in T : ~(k < m)
  BY <1>2, <1>3
<1> QED
  BY <1>4

\* Counting up from zero: the numbers of S reach n.
LEMMA Counted ==
    ASSUME NEW n \in Nat, NEW S, 0 \in S, \A k \in 1 .. n : k - 1 \in S => k \in S
    PROVE  \A k \in 0 .. n : k \in S
<1> SUFFICES ASSUME NEW q \in 0 .. n, q \notin S PROVE FALSE
  OBVIOUS
<1> DEFINE T == {k \in 0 .. n : k \notin S}
<1>1. T \in SUBSET Nat /\ q \in T
  OBVIOUS
<1>2. PICK m \in T : \A k \in T : m <= k
  <2> HIDE DEF T
  <2> QED BY <1>1, LeastNumber
<1>3. m # 0 /\ m - 1 \in 0 .. n /\ m \in 1 .. n /\ m \notin S
  OBVIOUS
<1>4. m - 1 \notin T
  BY <1>2, <1>3
<1> QED
  BY <1>3, <1>4

\* The greatest element of a nonempty set of numbers.
LEMMA MaxIsIn ==
    ASSUME NEW n \in Nat, NEW s \in SUBSET (1 .. n), s # {}
    PROVE  Max(s) \in s /\ \A x \in s : x <= Max(s)
<1> DEFINE S == {k \in 0 .. n : \A t \in SUBSET (1 .. k) :
                    t # {} => \E m \in t : \A x \in t : m >= x}
<1>1. ASSUME NEW k, k = 0 PROVE k \in S
  <2>1. \A t \in SUBSET (1 .. k) : t = {}
    BY <1>1
  <2>2. k \in 0 .. n
    BY <1>1
  <2> QED BY <2>1, <2>2
<1>2. ASSUME NEW k \in 1 .. n, k - 1 \in S PROVE k \in S
  <2>1. ASSUME NEW t \in SUBSET (1 .. k), t # {}
        PROVE  \E m \in t : \A x \in t : m >= x
    <3>1. CASE k \in t
      BY <3>1
    <3>2. CASE k \notin t
      <4>1. t \in SUBSET (1 .. (k - 1))
        BY <3>2
      <4> QED BY <1>2, <2>1, <4>1
    <3> QED BY <3>1, <3>2
  <2> QED BY <2>1
<1> HIDE DEF S
<1>3. n \in S
  BY <1>1, <1>2, Counted
<1>4. \E m \in s : \A x \in s : m >= x
  BY <1>3 DEF S
<1>5. Max(s) \in s /\ \A x \in s : Max(s) >= x
  BY <1>4 DEF Max
<1> QED
  BY <1>5

LEMMA MaxOfInterval ==
    ASSUME NEW n \in Nat, NEW k \in 1 .. n
    PROVE  /\ Max(1 .. k) = k /\ 1 .. k # {} /\ (1 .. k) \ {k} = 1 .. (k - 1)
           /\ 1 .. k \in SUBSET (1 .. n)
<1>1. Max(1 .. k) \in 1 .. k /\ \A x \in 1 .. k : x <= Max(1 .. k)
  <2>1. 1 .. k \in SUBSET (1 .. k) /\ k \in Nat /\ 1 .. k # {}
    OBVIOUS
  <2> QED BY <2>1, MaxIsIn
<1>2. Max(1 .. k) = k
  BY <1>1
<1> QED
  BY <1>2

\* g folds step, over the elements of every set of indices from the least to the greatest.
FoldsSets(g, n, V, base, step) ==
    /\ g \in [SUBSET (1 .. n) -> V]
    /\ \A s \in SUBSET (1 .. n) :
          g[s] = IF s = {} THEN base ELSE step[<<g[s \ {Max(s)}], Max(s)>>]

\* The function by which a fold is defined exists.
LEMMA FoldExists ==
    ASSUME NEW n \in Nat, NEW V, NEW base \in V, NEW step \in [V \X (1 .. n) -> V]
    PROVE  \E g : FoldsSets(g, n, V, base, step)
<1> DEFINE Good(g, k) == \A s \in SUBSET (1 .. k) :
              g[s] = IF s = {} THEN base ELSE step[<<g[s \ {Max(s)}], Max(s)>>]
           S == {k \in 0 .. n : \E g \in [SUBSET (1 .. k) -> V] : Good(g, k)}
<1>1. ASSUME NEW k, k = 0 PROVE k \in S
  <2> DEFINE g == [s \in SUBSET (1 .. k) |-> base]
  <2>1. g \in [SUBSET (1 .. k) -> V]
    OBVIOUS
  <2>2. \A s \in SUBSET (1 .. k) : s = {}
    BY <1>1
  <2>3. Good(g, k)
    BY <2>2
  <2> HIDE DEF g, Good
  <2>4. k \in 0 .. n
    BY <1>1
  <2> QED BY <2>1, <2>3, <2>4
<1>2. ASSUME NEW k \in 1 .. n, k - 1 \in S PROVE k \in S
  <2>1. PICK g \in [SUBSET (1 .. (k - 1)) -> V] : Good(g, k - 1)
    BY <1>2
  <2> DEFINE h == [s \in SUBSET (1 .. k) |->
                     IF k \in s THEN step[<<g[s \ {k}], k>>] ELSE g[s]]
  <2>2. ASSUME NEW s \in SUBSET (1 .. k), k \in s
        PROVE  /\ s \ {k} \in SUBSET (1 .. (k - 1)) /\ Max(s) = k
               /\ h[s] = step[<<g[s \ {k}], k>>] /\ h[s] \in V /\ h[s \ {k}] = g[s \ {k}]
    <3>1. s \ {k} \in SUBSET (1 .. (k - 1))
      BY <2>2
    <3>2. Max(s) \in s /\ k <= Max(s)
      <4>1. k \in Nat /\ s # {}
        BY <2>2
      <4> QED BY <2>2, <4>1, MaxIsIn
    <3>3. <<g[s \ {k}], k>> \in V \X (1 .. n)
      BY <3>1
    <3>4. Max(s) = k
      <4>1. Max(s) \in 1 .. k
        BY <3>2
      <4> QED BY <3>2, <4>1
    <3>5. h[s] = step[<<g[s \ {k}], k>>]
      BY <2>2
    <3>6. s \ {k} \in SUBSET (1 .. k) /\ k \notin s \ {k}
      OBVIOUS
    <3>7. h[s \ {k}] = g[s \ {k}]
      BY <3>6
    <3> HIDE DEF h
    <3>8. h[s] \in V
      BY <3>3, <3>5
    <3> QED BY <3>1, <3>4, <3>5, <3>7, <3>8
  <2>3. ASSUME NEW s \in SUBSET (1 .. k), k \notin s
        PROVE  /\ s \in SUBSET (1 .. (k - 1)) /\ h[s] = g[s] /\ h[s] \in V
               /\ s # {} => s \ {Max(s)} \in SUBSET (1 .. (k - 1))
                            /\ h[s \ {Max(s)}] = g[s \ {Max(s)}]
    <3>1. s \in SUBSET (1 .. (k - 1)) /\ \A t \in SUBSET s : t \in SUBSET (1 .. (k - 1))
      BY <2>3
    <3>2. \A t \in SUBSET s : h[t] = g[t] /\ h[t] \in V
      BY <2>3, <3>1
    <3> QED BY <3>1, <3>2
  <2>4. h \in [SUBSET (1 .. k) -> V]
    BY <2>2, <2>3
  <2> HIDE DEF h
  <2>5. Good(h, k)
    <3> SUFFICES ASSUME NEW s \in SUBSET (1 .. k)
                 PROVE  h[s] = IF s = {} THEN base ELSE step[<<h[s \ {Max(s)}], Max(s)>>]
      OBVIOUS
    <3>1. CASE k \in s
      BY <2>2, <3>1
    <3>2. CASE k \notin s
      BY <2>1, <2>3, <3>2
    <3> QED BY <3>1, <3>2
  <2> HIDE DEF Good
  <2> QED BY <2>4, <2>5
<1> HIDE DEF S
<1>3. n \in S
  BY <1>1, <1>2, Counted
<1> QED
  BY <1>3 DEF S, FoldsSets

------------------------------------------------------------------------------
(* Keys: merged sources and mapped fields *)

\* g merges, in the order of the indices, the functions that the indices in G give.
MergesSets(g, n, G, give) ==
    g = [s \in SUBSET (1 .. n) |->
            IF s = {} THEN NoFields
            ELSE IF Max(s) \in G THEN Updated(g[s \ {Max(s)}], give[Max(s)])
                 ELSE g[s \ {Max(s)}]]

\* There is such a g, whatever is given.
LEMMA MergesExist ==
    ASSUME NEW n \in Nat, NEW G, NEW give
    PROVE  \E g : MergesSets(g, n, G, give)
<1> DEFINE Op(acc, i) == IF i \in G THEN Updated(acc, give[i]) ELSE acc
           K == UNION {DOMAIN give[i] : i \in 1 .. n}
           W == UNION {{give[i][k] : k \in DOMAIN give[i]} : i \in 1 .. n}
           V == UNION {[D -> W] : D \in SUBSET K}
           step == [p \in V \X (1 .. n) |-> Op(p[1], p[2])]
<1>1. NoFields \in V
  <2>1. NoFields \in [{} -> W]
    BY DEF NoFields
  <2> QED BY <2>1
<1>2. ASSUME NEW acc \in V, NEW i \in 1 .. n PROVE Op(acc, i) \in V
  <2>1. PICK D \in SUBSET K : acc \in [D -> W]
    OBVIOUS
  <2>2. D \cup DOMAIN give[i] \in SUBSET K
    OBVIOUS
  <2>3. \A k \in DOMAIN give[i] : give[i][k] \in W
    OBVIOUS
  <2>4. DOMAIN acc = D /\ \A k \in D : acc[k] \in W
    BY <2>1
  <2> HIDE DEF W, K
  <2>5. Updated(acc, give[i]) \in [D \cup DOMAIN give[i] -> W]
    BY <2>3, <2>4 DEF Updated
  <2> QED BY <2>2, <2>5
<1> HIDE DEF V
<1>3. step \in [V \X (1 .. n) -> V]
  BY <1>2
<1>4. PICK g : FoldsSets(g, n, V, NoFields, step)
  <2> HIDE DEF step
  <2> QED BY <1>1, <1>3, FoldExists
<1>5. ASSUME NEW s \in SUBSET (1 .. n), s # {}
      PROVE  g[s] = Op(g[s \ {Max(s)}], Max(s))
  <2>1. Max(s) \in 1 .. n
    BY <1>5, MaxIsIn
  <2>2. <<g[s \ {Max(s)}], Max(s)>> \in V \X (1 .. n)
    BY <1>4, <2>1 DEF FoldsSets
  <2> QED BY <1>4, <1>5, <2>2 DEF FoldsSets
<1> HIDE DEF step
<1> QED
  BY <1>4, <1>5 DEF FoldsSets, MergesSets

\* The last index that gives a key decides its value, and no key is lost.
LEMMA LastGiverWins ==
    ASSUME NEW n \in Nat, NEW G, NEW give, NEW g, MergesSets(g, n, G, give)
    PROVE  /\ DOMAIN g[1 .. n] = UNION {DOMAIN give[i] : i \in G \cap (1 .. n)}
           /\ \A k \in DOMAIN g[1 .. n] :
                 g[1 .. n][k] = give[LastOf({i \in G \cap (1 .. n) : k \in DOMAIN give[i]})][k]
<1> DEFINE Gives(i, k) == i \in G /\ k \in DOMAIN give[i]
           Right(i, h) == \A k :
              /\ k \in DOMAIN h <=> \E j \in 1 .. i : Gives(j, k)
              /\ \A j \in 1 .. i : Gives(j, k) /\ (\A l \in 1 .. i : Gives(l, k) => l <= j)
                                   => h[k] = give[j][k]
           S == {i \in 0 .. n : Right(i, g[1 .. i])}
<1>1. ASSUME NEW z, z = 0 PROVE z \in S
  <2>1. 1 .. z = {} /\ z \in 0 .. n /\ {} \in SUBSET (1 .. n)
    BY <1>1
  <2>2. g[1 .. z] = NoFields
    BY <2>1 DEF MergesSets
  <2>3. DOMAIN NoFields = {}
    BY DEF NoFields
  <2>4. Right(z, g[1 .. z])
    BY <2>1, <2>2, <2>3
  <2> HIDE DEF Right
  <2> QED BY <2>1, <2>4
<1>2. ASSUME NEW i \in 1 .. n, i - 1 \in S PROVE i \in S
  <2> DEFINE h == g[1 .. (i - 1)]
  <2>1. /\ Max(1 .. i) = i /\ 1 .. i # {} /\ (1 .. i) \ {i} = 1 .. (i - 1)
        /\ 1 .. i \in SUBSET (1 .. n)
    BY MaxOfInterval
  <2>2. g[1 .. i] = IF i \in G THEN Updated(h, give[i]) ELSE h
    BY <2>1 DEF MergesSets
  <2>3. Right(i - 1, h)
    BY <1>2
  <2> HIDE DEF h
  <2>4. CASE i \notin G
    BY <2>2, <2>3, <2>4
  <2>5. CASE i \in G
    <3>1. /\ DOMAIN g[1 .. i] = DOMAIN h \cup DOMAIN give[i]
          /\ \A k \in DOMAIN g[1 .. i] :
                g[1 .. i][k] = IF k \in DOMAIN give[i] THEN give[i][k] ELSE h[k]
      BY <2>2, <2>5 DEF Updated
    <3>2. \A j \in 1 .. i : j = i \/ j \in 1 .. (i - 1)
      OBVIOUS
    <3> SUFFICES ASSUME NEW k
                 PROVE  /\ k \in DOMAIN g[1 .. i] <=> \E j \in 1 .. i : Gives(j, k)
                        /\ \A j \in 1 .. i :
                              Gives(j, k) /\ (\A l \in 1 .. i : Gives(l, k) => l <= j)
                              => g[1 .. i][k] = give[j][k]
      OBVIOUS
    <3>3. k \in DOMAIN h <=> \E j \in 1 .. (i - 1) : Gives(j, k)
      BY <2>3
    <3>4. k \in DOMAIN g[1 .. i] <=> \E j \in 1 .. i : Gives(j, k)
      BY <2>5, <3>1, <3>2, <3>3
    <3>5. ASSUME NEW j \in 1 .. i, Gives(j, k), \A l \in 1 .. i : Gives(l, k) => l <= j
          PROVE  g[1 .. i][k] = give[j][k]
      <4>1. CASE k \in DOMAIN give[i]
        <5>1. j = i
          BY <2>5, <3>5, <4>1
        <5> QED BY <3>1, <4>1, <5>1
      <4>2. CASE k \notin DOMAIN give[i]
        <5>1. j \in 1 .. (i - 1)
          BY <3>2, <3>5, <4>2
        <5>2. k \in DOMAIN h /\ h[k] = give[j][k]
          BY <2>3, <3>5, <5>1
        <5> QED BY <3>1, <4>2, <5>2
      <4> QED BY <4>1, <4>2
    <3> HIDE DEF Gives
    <3> QED BY <3>4, <3>5
  <2> HIDE DEF Right
  <2> QED BY <2>4, <2>5
<1> HIDE DEF S
<1>3. Right(n, g[1 .. n])
  <2>1. n \in S
    BY <1>1, <1>2, Counted
  <2> HIDE DEF Right
  <2> QED BY <2>1 DEF S
<1>4. DOMAIN g[1 .. n] = UNION {DOMAIN give[i] : i \in G \cap (1 .. n)}
  <2>1. \A k : k \in DOMAIN g[1 .. n] <=> \E j \in G \cap (1 .. n) : k \in DOMAIN give[j]
    BY <1>3
  <2> QED BY <2>1
<1>5. ASSUME NEW k \in DOMAIN g[1 .. n]
      PROVE  g[1 .. n][k] = give[LastOf({i \in G \cap (1 .. n) : k \in DOMAIN give[i]})][k]
  <2> DEFINE T == {i \in G \cap (1 .. n) : k \in DOMAIN give[i]}
  <2>1. T # {} /\ T \in SUBSET (1 .. n)
    BY <1>3
  <2>2. \A i : i \in T <=> i \in 1 .. n /\ Gives(i, k)
    OBVIOUS
  <2> HIDE DEF T, Gives
  <2>3. \E i \in T : \A j \in T : j <= i
    BY <2>1, MaxIsIn
  <2>4. LastOf(T) \in T /\ \A j \in T : j <= LastOf(T)
    BY <2>3 DEF LastOf
  <2>5. g[1 .. n][k] = give[LastOf(T)][k]
    BY <1>3, <2>2, <2>4
  <2> QED BY <2>5 DEF T
<1> QED
  BY <1>4, <1>5

\* dict.update over the sources: the last source with a key decides it.
LEMMA MergeIsRight ==
    ASSUME NEW sources, NEW n \in Nat, DOMAIN sources = 1 .. n
    PROVE  RightMerge(sources, Merge(sources))
<1> DEFINE G == {i \in 1 .. n : IsDict(sources[i])}
           give == [i \in 1 .. n |-> sources[i].fields]
           Rec(g) == g = [s \in SUBSET DOMAIN sources |->
                            IF s = {} THEN NoFields
                            ELSE IF IsDict(sources[Max(s)])
                                 THEN Updated(g[s \ {Max(s)}], sources[Max(s)].fields)
                                 ELSE g[s \ {Max(s)}]]
           It == CHOOSE g : Rec(g)
           fields == Merge(sources)
<1>1. fields = It[1 .. n]
  BY DEF Merge, FoldLeft, MapThenFoldSet
<1>2. ASSUME NEW g PROVE MergesSets(g, n, G, give) <=> Rec(g)
  <2>1. \A s \in SUBSET (1 .. n) : s # {} => Max(s) \in 1 .. n
    BY MaxIsIn
  <2> QED BY <2>1 DEF MergesSets
<1>3. \E g : Rec(g)
  <2> HIDE DEF Rec, G, give
  <2> QED BY <1>2, MergesExist
<1>4. MergesSets(It, n, G, give)
  <2> HIDE DEF Rec, G, give
  <2> QED BY <1>2, <1>3
<1> HIDE DEF It, Rec
<1>5. /\ DOMAIN fields = UNION {DOMAIN give[i] : i \in G \cap (1 .. n)}
      /\ \A k \in DOMAIN fields :
            fields[k] = give[LastOf({i \in G \cap (1 .. n) : k \in DOMAIN give[i]})][k]
  <2> HIDE DEF G, give, fields
  <2> QED BY <1>1, <1>4, LastGiverWins
<1>6. ASSUME NEW k
      PROVE  {i \in G \cap (1 .. n) : k \in DOMAIN give[i]}
               = {i \in DOMAIN sources : IsDict(sources[i]) /\ k \in DOMAIN sources[i].fields}
  OBVIOUS
<1>7. UNION {DOMAIN give[i] : i \in G \cap (1 .. n)}
        = UNION {DOMAIN sources[i].fields : i \in {j \in DOMAIN sources : IsDict(sources[j])}}
  OBVIOUS
<1>8. ASSUME NEW k \in DOMAIN fields
      PROVE  fields[k] = sources[LastOf({i \in DOMAIN sources :
                            IsDict(sources[i]) /\ k \in DOMAIN sources[i].fields})].fields[k]
  <2> DEFINE T == {i \in DOMAIN sources : IsDict(sources[i]) /\ k \in DOMAIN sources[i].fields}
  <2>1. T # {} /\ T \in SUBSET (1 .. n)
    BY <1>5
  <2>2. fields[k] = give[LastOf(T)][k]
    BY <1>5, <1>6
  <2> HIDE DEF T, fields
  <2>3. \E i \in T : \A j \in T : j <= i
    BY <2>1, MaxIsIn
  <2>4. LastOf(T) \in T
    BY <2>3 DEF LastOf
  <2>5. give[LastOf(T)] = sources[LastOf(T)].fields
    BY <2>1, <2>4
  <2> QED BY <2>2, <2>5 DEF T
<1> HIDE DEF fields, G, give
<1>9. RightMerge(sources, fields)
  BY <1>5, <1>7, <1>8 DEF RightMerge
<1> QED BY <1>9 DEF fields

\* The items of the mapping, each of which gives one field when it is there.
LEMMA MappingIsRight ==
    ASSUME NEW mapping, NEW n \in Nat, DOMAIN mapping = 1 .. n, NEW before
    PROVE  RightMapping(mapping, before, MapFields(mapping, before))
<1> DEFINE G == {i \in 1 .. n : mapping[i][1] \in DOMAIN before}
           give == [i \in 1 .. n |-> [k \in {mapping[i][2]} |-> before[mapping[i][1]]]]
           Rec(g) == g = [s \in SUBSET DOMAIN mapping |->
                            IF s = {} THEN NoFields
                            ELSE IF mapping[Max(s)][1] \in DOMAIN before
                                 THEN Updated(g[s \ {Max(s)}],
                                              [k \in {mapping[Max(s)][2]} |->
                                                 before[mapping[Max(s)][1]]])
                                 ELSE g[s \ {Max(s)}]]
           It == CHOOSE g : Rec(g)
           after == MapFields(mapping, before)
<1>1. after = It[1 .. n]
  BY DEF MapFields, FoldLeft, MapThenFoldSet
<1>2. ASSUME NEW g PROVE MergesSets(g, n, G, give) <=> Rec(g)
  <2>1. \A s \in SUBSET (1 .. n) : s # {} => Max(s) \in 1 .. n
    BY MaxIsIn
  <2> QED BY <2>1 DEF MergesSets
<1>3. \E g : Rec(g)
  <2> HIDE DEF Rec, G, give
  <2> QED BY <1>2, MergesExist
<1>4. MergesSets(It, n, G, give)
  <2> HIDE DEF Rec, G, give
  <2> QED BY <1>2, <1>3
<1> HIDE DEF It, Rec
<1>5. /\ DOMAIN after = UNION {DOMAIN give[i] : i \in G \cap (1 .. n)}
      /\ \A k \in DOMAIN after :
            after[k] = give[LastOf({i \in G \cap (1 .. n) : k \in DOMAIN give[i]})][k]
  <2> HIDE DEF G, give, after
  <2> QED BY <1>1, <1>4, LastGiverWins
<1>6. \A i \in 1 .. n : DOMAIN give[i] = {mapping[i][2]}
  OBVIOUS
<1>7. DOMAIN after = {mapping[i][2] : i \in {j \in DOMAIN mapping :
                                               mapping[j][1] \in DOMAIN before}}
  <2> HIDE DEF give, after
  <2> QED BY <1>5, <1>6
<1>8. ASSUME NEW k \in DOMAIN after
      PROVE  after[k] = before[mapping[LastOf({i \in DOMAIN mapping :
                           mapping[i][1] \in DOMAIN before /\ mapping[i][2] = k})][1]]
  <2> DEFINE T == {i \in DOMAIN mapping : mapping[i][1] \in DOMAIN before /\ mapping[i][2] = k}
  <2>1. {i \in G \cap (1 .. n) : k \in DOMAIN give[i]} = T
    <3> HIDE DEF give
    <3> QED BY <1>6
  <2>2. T # {} /\ T \in SUBSET (1 .. n)
    <3> HIDE DEF after
    <3> QED BY <1>7
  <2>3. after[k] = give[LastOf(T)][k]
    <3> HIDE DEF after, give, T, G
    <3> QED BY <1>5, <2>1
  <2> HIDE DEF after
  <2>4. \E i \in T : \A j \in T : j <= i
    <3> HIDE DEF T
    <3> QED BY <2>2, MaxIsIn
  <2>5. LastOf(T) \in T
    <3> HIDE DEF T
    <3> QED BY <2>4 DEF LastOf
  <2> DEFINE last == LastOf(T)
  <2>6. last \in 1 .. n /\ mapping[last][2] = k
    BY <2>5
  <2> HIDE DEF last
  <2>7. give[last][k] = before[mapping[last][1]]
    BY <2>6
  <2> QED BY <2>3, <2>7 DEF last
<1> HIDE DEF after, G, give
<1>9. RightMapping(mapping, before, after)
  BY <1>7, <1>8 DEF RightMapping
<1> QED BY <1>9 DEF after

------------------------------------------------------------------------------
(* Items: the list of an aggregator *)

\* g concatenates the pieces in the order of their indices.
ConcatsSets(g, n, piece) ==
    g = [s \in SUBSET (1 .. n) |->
            IF s = {} THEN <<>> ELSE g[s \ {Max(s)}] \o piece[Max(s)]]

\* There is such a g, whose values are sequences.
LEMMA ConcatsExist ==
    ASSUME NEW n \in Nat, NEW W, NEW piece \in [1 .. n -> Seq(W)]
    PROVE  \E g : ConcatsSets(g, n, piece) /\ g \in [SUBSET (1 .. n) -> Seq(W)]
<1> DEFINE step == [p \in Seq(W) \X (1 .. n) |-> p[1] \o piece[p[2]]]
<1>1. <<>> \in Seq(W)
  OBVIOUS
<1>2. \A acc \in Seq(W), i \in 1 .. n : acc \o piece[i] \in Seq(W)
  OBVIOUS
<1>3. step \in [Seq(W) \X (1 .. n) -> Seq(W)]
  BY <1>2
<1>4. PICK g : FoldsSets(g, n, Seq(W), <<>>, step)
  <2> HIDE DEF step
  <2> QED BY <1>1, <1>3, FoldExists
<1>5. ASSUME NEW s \in SUBSET (1 .. n), s # {}
      PROVE  g[s] = g[s \ {Max(s)}] \o piece[Max(s)]
  <2>1. Max(s) \in 1 .. n
    BY <1>5, MaxIsIn
  <2>2. <<g[s \ {Max(s)}], Max(s)>> \in Seq(W) \X (1 .. n)
    BY <1>4, <2>1 DEF FoldsSets
  <2> QED BY <1>4, <1>5, <2>2 DEF FoldsSets
<1> HIDE DEF step
<1> QED
  BY <1>4, <1>5 DEF FoldsSets, ConcatsSets

\* One piece more at every index.
LEMMA ConcatsStages ==
    ASSUME NEW n \in Nat, NEW piece, NEW g, ConcatsSets(g, n, piece)
    PROVE  g[{}] = <<>> /\ \A i \in 1 .. n : g[1 .. i] = g[1 .. (i - 1)] \o piece[i]
<1>1. g[{}] = <<>>
  BY DEF ConcatsSets
<1>2. ASSUME NEW i \in 1 .. n PROVE g[1 .. i] = g[1 .. (i - 1)] \o piece[i]
  <2>1. /\ Max(1 .. i) = i /\ 1 .. i # {} /\ (1 .. i) \ {i} = 1 .. (i - 1)
        /\ 1 .. i \in SUBSET (1 .. n)
    BY MaxOfInterval
  <2> QED BY <2>1 DEF ConcatsSets
<1> QED BY <1>1, <1>2

\* What is concatenated up to an index is a sequence.
LEMMA ConcatsAreSequences ==
    ASSUME NEW n \in Nat, NEW W, NEW piece \in [1 .. n -> Seq(W)],
           NEW g, ConcatsSets(g, n, piece)
    PROVE  \A i \in 0 .. n : g[1 .. i] \in Seq(W)
<1> DEFINE S == {i \in 0 .. n : g[1 .. i] \in Seq(W)}
<1>1. g[{}] = <<>> /\ \A i \in 1 .. n : g[1 .. i] = g[1 .. (i - 1)] \o piece[i]
  BY ConcatsStages
<1>2. ASSUME NEW z, z = 0 PROVE z \in S
  <2>1. 1 .. z = {} /\ z \in 0 .. n
    BY <1>2
  <2>2. g[1 .. z] = <<>>
    BY <1>1, <2>1
  <2>3. <<>> \in Seq(W)
    OBVIOUS
  <2> QED BY <2>1, <2>2, <2>3
<1>3. ASSUME NEW i \in 1 .. n, i - 1 \in S PROVE i \in S
  <2>1. g[1 .. (i - 1)] \in Seq(W) /\ piece[i] \in Seq(W)
    BY <1>3
  <2>2. g[1 .. i] = g[1 .. (i - 1)] \o piece[i]
    BY <1>1
  <2>3. \A a, b \in Seq(W) : a \o b \in Seq(W)
    OBVIOUS
  <2>4. g[1 .. i] \in Seq(W)
    BY <2>1, <2>2, <2>3
  <2> QED BY <2>4
<1> HIDE DEF S
<1>4. \A i \in 0 .. n : i \in S
  BY <1>2, <1>3, Counted
<1> QED BY <1>4 DEF S

\* FlattenSeq concatenates the pieces.
LEMMA FlattenIsConcat ==
    ASSUME NEW n \in Nat, NEW W, NEW piece \in [1 .. n -> Seq(W)],
           NEW g, ConcatsSets(g, n, piece)
    PROVE  FlattenSeq(piece) = g[1 .. n]
<1> DEFINE Rec(h) == h = [i \in 1 .. Len(piece) |->
                            IF i = 1 THEN piece[i] ELSE h[i - 1] \o piece[i]]
           It == CHOOSE h : Rec(h)
           h == [i \in 1 .. n |-> g[1 .. i]]
<1>1. Len(piece) = n /\ DOMAIN piece = 1 .. n
  OBVIOUS
<1>2. g[{}] = <<>> /\ \A i \in 1 .. n : g[1 .. i] = g[1 .. (i - 1)] \o piece[i]
  BY ConcatsStages
<1>3. CASE n = 0
  <2>1. piece = <<>> /\ 1 .. n = {}
    BY <1>3
  <2>2. FlattenSeq(piece) = piece
    BY <1>1, <1>3 DEF FlattenSeq
  <2> QED BY <1>2, <2>1, <2>2
<1>4. CASE n # 0
  <2>1. FlattenSeq(piece) = It[n]
    BY <1>1, <1>4 DEF FlattenSeq
  <2>2. ASSUME NEW i \in 1 .. n
        PROVE  h[i] = IF i = 1 THEN piece[i] ELSE h[i - 1] \o piece[i]
    <3>1. CASE i = 1
      <4>1. 1 .. (i - 1) = {} /\ piece[i] \in Seq(W)
        BY <3>1
      <4>2. g[1 .. i] = <<>> \o piece[i]
        BY <1>2, <4>1
      <4>3. <<>> \o piece[i] = piece[i]
        BY <4>1
      <4> QED BY <3>1, <4>2, <4>3
    <3>2. CASE i # 1
      <4>1. i - 1 \in 1 .. n
        BY <3>2
      <4> QED BY <1>2, <3>2, <4>1
    <3> QED BY <3>1, <3>2
  <2>3. Rec(h)
    <3> SUFFICES h = [i \in 1 .. n |-> IF i = 1 THEN piece[i] ELSE h[i - 1] \o piece[i]]
      BY <1>1
    <3>1. h = [i \in 1 .. n |-> h[i]]
      OBVIOUS
    <3> HIDE DEF h
    <3> QED BY <2>2, <3>1
  <2>4. Rec(It)
    <3> HIDE DEF Rec, h
    <3> QED BY <2>3
  <2> DEFINE S == {i \in 0 .. n : i # 0 => It[i] = g[1 .. i]}
  <2> HIDE DEF It, h
  <2>5. ASSUME NEW i \in 1 .. n, i - 1 \in S PROVE i \in S
    <3>1. It[i] = IF i = 1 THEN piece[i] ELSE It[i - 1] \o piece[i]
      BY <1>1, <2>4
    <3>2. h[i] = IF i = 1 THEN piece[i] ELSE h[i - 1] \o piece[i]
      BY <2>2
    <3>3. h[i] = g[1 .. i] /\ (i # 1 => h[i - 1] = g[1 .. (i - 1)])
      BY DEF h
    <3>4. i # 1 => It[i - 1] = g[1 .. (i - 1)]
      BY <2>5
    <3>5. It[i] = g[1 .. i]
      BY <3>1, <3>2, <3>3, <3>4
    <3> QED BY <3>5
  <2>6. 0 \in S
    OBVIOUS
  <2>7. \A i \in 0 .. n : i \in S
    <3> HIDE DEF S
    <3> QED BY <2>5, <2>6, Counted
  <2> QED BY <1>4, <2>1, <2>7
<1> QED BY <1>3, <1>4

\* A list keeps every item in order.
LEMMA CollectIsRight ==
    ASSUME NEW sources, IsList(sources), \A i \in DOMAIN sources : IsValue(sources[i])
    PROVE  Collect(sources) = FlattenSeq([i \in DOMAIN sources |->
                                 IF sources[i].kind = "list" THEN sources[i].items
                                 ELSE <<sources[i]>>])
<1> DEFINE piece == [i \in DOMAIN sources |->
                       IF sources[i].kind = "list" THEN sources[i].items ELSE <<sources[i]>>]
           W == {sources[i] : i \in DOMAIN sources}
                \cup UNION {{sources[i].items[k] : k \in DOMAIN sources[i].items}
                            : i \in DOMAIN sources}
           Rec(g) == g = [s \in SUBSET DOMAIN sources |->
                            IF s = {} THEN <<>>
                            ELSE IF sources[Max(s)].kind = "list"
                                 THEN g[s \ {Max(s)}] \o sources[Max(s)].items
                                 ELSE Append(g[s \ {Max(s)}], sources[Max(s)])]
           It == CHOOSE g : Rec(g)
<1>1. PICK n \in Nat : n = Len(sources) /\ DOMAIN sources = 1 .. n
  BY DEF IsList
<1>2. Collect(sources) = It[1 .. n]
  BY <1>1 DEF Collect, FoldLeft, MapThenFoldSet
<1>3. piece \in [1 .. n -> Seq(W)]
  <2> SUFFICES ASSUME NEW i \in 1 .. n PROVE piece[i] \in Seq(W)
    BY <1>1
  <2>1. CASE sources[i].kind = "list"
    <3> DEFINE items == sources[i].items
    <3>1. items \in Seq({items[k] : k \in DOMAIN items})
      BY <1>1, <2>1 DEF IsValue, IsList
    <3>2. Len(items) \in Nat /\ DOMAIN items = 1 .. Len(items)
          /\ items = [k \in 1 .. Len(items) |-> items[k]]
      BY <3>1
    <3>3. \A k \in DOMAIN items : items[k] \in W
      BY <1>1
    <3>4. piece[i] = items
      BY <1>1, <2>1
    <3> HIDE DEF items, W, piece
    <3>5. items \in [1 .. Len(items) -> W]
      BY <3>2, <3>3
    <3>6. items \in Seq(W)
      BY <3>2, <3>5
    <3> QED BY <3>4, <3>6
  <2>2. CASE sources[i].kind # "list"
    <3>1. sources[i] \in W
      BY <1>1
    <3>2. piece[i] = <<sources[i]>>
      BY <1>1, <2>2
    <3> HIDE DEF W, piece
    <3> QED BY <3>1, <3>2
  <2> QED BY <2>1, <2>2
<1>4. PICK g \in [SUBSET (1 .. n) -> Seq(W)] : ConcatsSets(g, n, piece)
  <2> HIDE DEF piece, W
  <2> QED BY <1>3, ConcatsExist
<1>5. ASSUME NEW f, NEW s \in SUBSET (1 .. n), s # {}, f[s \ {Max(s)}] \in Seq(W)
      PROVE  f[s \ {Max(s)}] \o piece[Max(s)]
               = IF sources[Max(s)].kind = "list"
                 THEN f[s \ {Max(s)}] \o sources[Max(s)].items
                 ELSE Append(f[s \ {Max(s)}], sources[Max(s)])
  <2>1. Max(s) \in 1 .. n
    BY <1>5, MaxIsIn
  <2>2. sources[Max(s)] \in W
    BY <1>1, <2>1
  <2>3. f[s \ {Max(s)}] \o <<sources[Max(s)]>> = Append(f[s \ {Max(s)}], sources[Max(s)])
    <3> HIDE DEF W
    <3> QED BY <1>5, <2>2
  <2> QED BY <1>1, <2>1, <2>3
<1>6. Rec(g)
  <2> SUFFICES ASSUME NEW s \in SUBSET (1 .. n)
               PROVE  g[s] = IF s = {} THEN <<>>
                             ELSE IF sources[Max(s)].kind = "list"
                                  THEN g[s \ {Max(s)}] \o sources[Max(s)].items
                                  ELSE Append(g[s \ {Max(s)}], sources[Max(s)])
    BY <1>1
  <2>1. g[s] = IF s = {} THEN <<>> ELSE g[s \ {Max(s)}] \o piece[Max(s)]
    BY <1>4 DEF ConcatsSets
  <2> HIDE DEF piece, W
  <2> QED BY <1>5, <2>1
<1>7. Rec(It)
  <2> HIDE DEF Rec
  <2> QED BY <1>6
<1> DEFINE S == {i \in 0 .. n : It[1 .. i] = g[1 .. i]}
<1>8. ASSUME NEW z, z = 0 PROVE z \in S
  <2>1. 1 .. z = {} /\ z \in 0 .. n /\ {} \in SUBSET (1 .. n)
    BY <1>8
  <2> HIDE DEF It
  <2>2. It[1 .. z] = <<>> /\ g[1 .. z] = <<>>
    BY <1>1, <1>6, <1>7, <2>1
  <2> QED BY <2>1, <2>2
<1>9. ASSUME NEW i \in 1 .. n, i - 1 \in S PROVE i \in S
  <2>1. /\ Max(1 .. i) = i /\ 1 .. i # {} /\ (1 .. i) \ {i} = 1 .. (i - 1)
        /\ 1 .. i \in SUBSET (1 .. n)
    BY MaxOfInterval
  <2>2. It[1 .. (i - 1)] = g[1 .. (i - 1)]
    BY <1>9
  <2> HIDE DEF It
  <2> DEFINE Op(acc) == IF sources[i].kind = "list" THEN acc \o sources[i].items
                         ELSE Append(acc, sources[i])
  <2>3. It[1 .. i] = Op(It[1 .. (i - 1)])
    BY <1>1, <1>7, <2>1
  <2>4. g[1 .. i] = Op(g[1 .. (i - 1)])
    BY <1>1, <1>6, <2>1
  <2> HIDE DEF Op
  <2>5. It[1 .. i] = g[1 .. i]
    BY <2>2, <2>3, <2>4
  <2> QED BY <2>5
<1>10. \A i \in 0 .. n : i \in S
  <2> HIDE DEF S
  <2> QED BY <1>8, <1>9, Counted
<1>11. Collect(sources) = g[1 .. n]
  <2>1. It[1 .. n] = g[1 .. n]
    <3>1. n \in 0 .. n
      OBVIOUS
    <3> HIDE DEF It
    <3> QED BY <1>10, <3>1
  <2> QED BY <1>2, <2>1
<1>12. FlattenSeq(piece) = g[1 .. n]
  <2> HIDE DEF piece, W
  <2> QED BY <1>3, <1>4, FlattenIsConcat
<1> QED BY <1>11, <1>12

------------------------------------------------------------------------------
(* Sums *)

\* h adds up the numbers of every set of indices, whichever is taken first.
AddsSets(h, n, num) ==
    /\ h \in [SUBSET (1 .. n) -> Int] /\ h[{}] = 0
    /\ \A s \in SUBSET (1 .. n) : \A x \in s : h[s] = num[x] + h[s \ {x}]

\* There is such an h: addition may take the numbers in any order.
LEMMA AddsExist ==
    ASSUME NEW n \in Nat, NEW num \in [1 .. n -> Int]
    PROVE  \E h : AddsSets(h, n, num)
<1> DEFINE S == {k \in 0 .. n : \E h : AddsSets(h, k, num)}
<1>1. ASSUME NEW z, z = 0 PROVE z \in S
  <2> DEFINE h == [s \in SUBSET (1 .. z) |-> 0]
  <2>1. /\ \A s \in SUBSET (1 .. z) : s = {}
        /\ {} \in SUBSET (1 .. z) /\ z \in 0 .. n
    BY <1>1
  <2>2. h \in [SUBSET (1 .. z) -> Int] /\ h[{}] = 0
    OBVIOUS
  <2> HIDE DEF h
  <2>3. AddsSets(h, z, num)
    BY <2>1, <2>2 DEF AddsSets
  <2> QED BY <2>1, <2>3
<1>2. ASSUME NEW k \in 1 .. n, k - 1 \in S PROVE k \in S
  <2>1. PICK g : AddsSets(g, k - 1, num)
    BY <1>2
  <2> DEFINE h == [s \in SUBSET (1 .. k) |->
                     IF k \in s THEN num[k] + g[s \ {k}] ELSE g[s]]
  <2>2. ASSUME NEW s \in SUBSET (1 .. k), k \in s
        PROVE  s \ {k} \in SUBSET (1 .. (k - 1)) /\ h[s] = num[k] + g[s \ {k}]
    BY <2>2
  <2>3. ASSUME NEW s \in SUBSET (1 .. k), k \notin s
        PROVE  s \in SUBSET (1 .. (k - 1)) /\ h[s] = g[s]
    BY <2>3
  <2>4. num[k] \in Int /\ \A s \in SUBSET (1 .. (k - 1)) : g[s] \in Int
    BY <2>1 DEF AddsSets
  <2>5. h \in [SUBSET (1 .. k) -> Int]
    <3>1. ASSUME NEW s \in SUBSET (1 .. k) PROVE h[s] \in Int
      <4> HIDE DEF h
      <4>1. CASE k \in s
        <5>1. s \ {k} \in SUBSET (1 .. (k - 1)) /\ h[s] = num[k] + g[s \ {k}]
          BY <2>2, <4>1
        <5>2. g[s \ {k}] \in Int
          BY <2>4, <5>1
        <5> QED BY <2>4, <5>1, <5>2
      <4>2. CASE k \notin s
        BY <2>3, <2>4, <4>2
      <4> QED BY <4>1, <4>2
    <3> QED BY <3>1
  <2>6. h[{}] = 0
    BY <2>1 DEF AddsSets
  <2> HIDE DEF h
  <2>7. ASSUME NEW s \in SUBSET (1 .. k), NEW x \in s
        PROVE  h[s] = num[x] + h[s \ {x}]
    <3>1. s \ {x} \in SUBSET (1 .. k) /\ x \in 1 .. n /\ num[x] \in Int
      OBVIOUS
    <3>2. CASE k \notin s
      <4>1. h[s] = g[s] /\ h[s \ {x}] = g[s \ {x}] /\ s \in SUBSET (1 .. (k - 1))
        BY <2>3, <3>1, <3>2
      <4> QED BY <2>1, <4>1 DEF AddsSets
    <3>3. CASE k \in s /\ x = k
      <4>1. h[s] = num[k] + g[s \ {k}] /\ h[s \ {k}] = g[s \ {k}]
        BY <2>2, <2>3, <3>1, <3>3
      <4> QED BY <3>3, <4>1
    <3>4. CASE k \in s /\ x # k
      <4>1. h[s] = num[k] + g[s \ {k}] /\ s \ {k} \in SUBSET (1 .. (k - 1))
        BY <2>2, <3>4
      <4>2. g[s \ {k}] = num[x] + g[(s \ {k}) \ {x}]
        <5>1. x \in s \ {k}
          BY <3>4
        <5> QED BY <2>1, <4>1, <5>1 DEF AddsSets
      <4>3. h[s \ {x}] = num[k] + g[(s \ {x}) \ {k}]
        <5>1. k \in s \ {x}
          BY <3>4
        <5> QED BY <2>2, <3>1, <5>1
      <4>4. (s \ {x}) \ {k} = (s \ {k}) \ {x} /\ (s \ {k}) \ {x} \in SUBSET (1 .. (k - 1))
        BY <4>1
      <4>5. g[(s \ {k}) \ {x}] \in Int
        BY <2>4, <4>4
      <4>6. \A a, b, c \in Int : a + (b + c) = b + (a + c)
        OBVIOUS
      <4>7. h[s] = num[k] + (num[x] + g[(s \ {k}) \ {x}])
        BY <4>1, <4>2
      <4>8. h[s \ {x}] = num[k] + g[(s \ {k}) \ {x}]
        BY <4>3, <4>4
      <4> QED BY <2>4, <3>1, <4>5, <4>6, <4>7, <4>8
    <3> QED BY <3>2, <3>3, <3>4
  <2>8. AddsSets(h, k, num)
    BY <2>5, <2>6, <2>7 DEF AddsSets
  <2> QED BY <2>8
<1> HIDE DEF S
<1>3. \A k \in 0 .. n : k \in S
  BY <1>1, <1>2, Counted
<1> QED BY <1>3 DEF S

\* A sum counts every source.
LEMMA SumIsRight ==
    ASSUME NEW sources, NEW n \in Nat, DOMAIN sources = 1 .. n,
           \A i \in 1 .. n : sources[i].number \in Int
    PROVE  SumOf(sources) = MapThenSumSet(LAMBDA i : sources[i].number, DOMAIN sources)
<1> DEFINE num == [i \in 1 .. n |-> sources[i].number]
           Left(g) == g = [s \in SUBSET DOMAIN sources |->
                             IF s = {} THEN 0
                             ELSE g[s \ {Max(s)}] + sources[Max(s)].number]
           Sum(g) == g = [s \in SUBSET DOMAIN sources |->
                            IF s = {} THEN 0
                            ELSE sources[CHOOSE x \in s : TRUE].number
                                 + g[s \ {CHOOSE x \in s : TRUE}]]
           ItLeft == CHOOSE g : Left(g)
           ItSum == CHOOSE g : Sum(g)
<1>1. num \in [1 .. n -> Int]
  OBVIOUS
<1>2. PICK h : AddsSets(h, n, num)
  <2> HIDE DEF num
  <2> QED BY <1>1, AddsExist
<1>3. SumOf(sources) = ItLeft[1 .. n]
  BY DEF SumOf, FoldLeft, MapThenFoldSet
<1>4. MapThenSumSet(LAMBDA i : sources[i].number, DOMAIN sources) = ItSum[1 .. n]
  BY DEF MapThenSumSet, MapThenFoldSet
<1>5. ASSUME NEW s \in SUBSET (1 .. n), NEW x \in s
      PROVE  /\ h[s] = sources[x].number + h[s \ {x}] /\ h[s] = h[s \ {x}] + sources[x].number
             /\ h[{}] = 0 /\ h = [t \in SUBSET DOMAIN sources |-> h[t]]
  <2>1. h[s] = num[x] + h[s \ {x}] /\ h[s \ {x}] \in Int /\ num[x] = sources[x].number
        /\ sources[x].number \in Int
    BY <1>2 DEF AddsSets
  <2> QED BY <1>2, <2>1 DEF AddsSets
<1>6. Left(h)
  <2>1. \A s \in SUBSET (1 .. n) : s # {} => Max(s) \in s
    BY MaxIsIn
  <2>2. h[{}] = 0 /\ h = [t \in SUBSET DOMAIN sources |-> h[t]]
    BY <1>2 DEF AddsSets
  <2>3. \A s \in SUBSET (1 .. n) :
           h[s] = IF s = {} THEN 0 ELSE h[s \ {Max(s)}] + sources[Max(s)].number
    BY <1>5, <2>1, <2>2
  <2> QED BY <2>2, <2>3
<1>7. Sum(h)
  <2>1. \A s \in SUBSET (1 .. n) : s # {} => (CHOOSE x \in s : TRUE) \in s
    OBVIOUS
  <2>2. h[{}] = 0 /\ h = [t \in SUBSET DOMAIN sources |-> h[t]]
    BY <1>2 DEF AddsSets
  <2>3. ASSUME NEW s \in SUBSET (1 .. n), s # {}
        PROVE  h[s] = sources[CHOOSE x \in s : TRUE].number + h[s \ {CHOOSE x \in s : TRUE}]
    <3> DEFINE y == CHOOSE x \in s : TRUE
    <3>1. y \in s
      BY <2>3
    <3> HIDE DEF y
    <3>2. h[s] = sources[y].number + h[s \ {y}]
      BY <1>5, <3>1
    <3> QED BY <3>2 DEF y
  <2> QED BY <2>2, <2>3
<1>8. Left(ItLeft) /\ Sum(ItSum)
  <2> HIDE DEF Left, Sum
  <2> QED BY <1>6, <1>7
<1> HIDE DEF ItLeft, ItSum, num
<1>9. ItLeft[1 .. n] = h[1 .. n]
  <2> DEFINE S == {i \in 0 .. n : ItLeft[1 .. i] = h[1 .. i]}
  <2>1. ASSUME NEW z, z = 0 PROVE z \in S
    <3>1. 1 .. z = {} /\ z \in 0 .. n /\ {} \in SUBSET (1 .. n)
      BY <2>1
    <3>2. ItLeft[{}] = 0
      BY <1>8, <3>1
    <3>3. h[1 .. z] = 0
      BY <1>2, <3>1 DEF AddsSets
    <3> QED BY <3>1, <3>2, <3>3
  <2>2. ASSUME NEW i \in 1 .. n, i - 1 \in S PROVE i \in S
    <3>1. /\ Max(1 .. i) = i /\ 1 .. i # {} /\ (1 .. i) \ {i} = 1 .. (i - 1)
          /\ 1 .. i \in SUBSET (1 .. n) /\ i \in 1 .. i
      BY MaxOfInterval
    <3>2. ItLeft[1 .. (i - 1)] = h[1 .. (i - 1)]
      BY <2>2
    <3>3. ItLeft[1 .. i] = ItLeft[1 .. (i - 1)] + sources[i].number
      <4>1. \A s \in SUBSET (1 .. n) : s # {} =>
               ItLeft[s] = ItLeft[s \ {Max(s)}] + sources[Max(s)].number
        BY <1>8
      <4>2. ItLeft[1 .. i] = ItLeft[(1 .. i) \ {Max(1 .. i)}] + sources[Max(1 .. i)].number
        BY <3>1, <4>1
      <4> HIDE DEF Left
      <4> QED BY <3>1, <4>2
    <3>4. h[1 .. i] = h[1 .. (i - 1)] + sources[i].number
      BY <1>5, <3>1
    <3>5. ItLeft[1 .. i] = h[1 .. i]
      BY <3>2, <3>3, <3>4
    <3> QED BY <3>5
  <2>3. \A i \in 0 .. n : i \in S
    <3> HIDE DEF S
    <3> QED BY <2>1, <2>2, Counted
  <2>4. n \in 0 .. n
    OBVIOUS
  <2> QED BY <2>3, <2>4
<1>10. ItSum[1 .. n] = h[1 .. n]
  <2> DEFINE S == {i \in 0 .. n : \A s \in SUBSET (1 .. n) :
                      Cardinality(s) = i => ItSum[s] = h[s]}
  <2>1. IsFiniteSet(1 .. n) /\ Cardinality(1 .. n) = n
    BY FS_Interval
  <2>2. \A s \in SUBSET (1 .. n) : IsFiniteSet(s) /\ Cardinality(s) \in Nat
    BY <2>1, FS_Subset, FS_CardinalityType
  <2>3. ASSUME NEW z, z = 0 PROVE z \in S
    <3>1. \A s \in SUBSET (1 .. n) : Cardinality(s) = z => s = {}
      BY <2>2, <2>3, FS_EmptySet
    <3>2. z \in 0 .. n /\ {} \in SUBSET (1 .. n)
      BY <2>3
    <3>3. ItSum[{}] = 0 /\ h[{}] = 0
      BY <1>2, <1>8, <3>2 DEF AddsSets
    <3> QED BY <3>1, <3>2, <3>3
  <2>4. ASSUME NEW i \in 1 .. n, i - 1 \in S PROVE i \in S
    <3>1. ASSUME NEW s \in SUBSET (1 .. n), Cardinality(s) = i
          PROVE  ItSum[s] = h[s]
      <4> DEFINE x == CHOOSE x \in s : TRUE
      <4>1. s # {}
        BY <3>1, FS_EmptySet
      <4>2. x \in s
        BY <4>1
      <4>3. ItSum[s] = sources[x].number + ItSum[s \ {x}]
        BY <1>8, <4>1
      <4> HIDE DEF x
      <4>4. Cardinality(s \ {x}) = i - 1 /\ s \ {x} \in SUBSET (1 .. n)
        BY <2>2, <3>1, <4>2, FS_RemoveElement
      <4>5. ItSum[s \ {x}] = h[s \ {x}]
        BY <2>4, <4>4
      <4> QED BY <1>5, <4>2, <4>3, <4>5
    <3> QED BY <3>1
  <2>5. \A i \in 0 .. n : i \in S
    <3> HIDE DEF S
    <3> QED BY <2>3, <2>4, Counted
  <2>6. n \in 0 .. n /\ 1 .. n \in SUBSET (1 .. n)
    OBVIOUS
  <2> QED BY <2>1, <2>5, <2>6
<1> QED BY <1>3, <1>4, <1>9, <1>10

------------------------------------------------------------------------------
(* Filters *)

\* A filter keeps exactly what is over the threshold, in its order.
LEMMA FilterIsRight ==
    ASSUME NEW threshold, NEW items, IsList(items)
    PROVE  /\ Len(OverThreshold(threshold, items))
                = Cardinality({i \in DOMAIN items : items[i].number > threshold.number})
           /\ \A i \in {x \in DOMAIN items : items[x].number > threshold.number} :
                 OverThreshold(threshold, items)
                    [Cardinality({j \in {x \in DOMAIN items :
                                           items[x].number > threshold.number} : j <= i})]
                 = items[i]
<1> DEFINE Over(x) == x.number > threshold.number
           W == {items[i] : i \in DOMAIN items}
           piece == [i \in DOMAIN items |-> IF Over(items[i]) THEN <<items[i]>> ELSE <<>>]
           Rec(g) == g = [s \in SUBSET DOMAIN items |->
                            IF s = {} THEN <<>>
                            ELSE IF items[Max(s)].number > threshold.number
                                 THEN Append(g[s \ {Max(s)}], items[Max(s)])
                                 ELSE g[s \ {Max(s)}]]
           It == CHOOSE g : Rec(g)
           kept == OverThreshold(threshold, items)
           Above(i) == {j \in 1 .. i : Over(items[j])}
<1>1. PICK n \in Nat : n = Len(items) /\ DOMAIN items = 1 .. n
  BY DEF IsList
<1>2. kept = It[1 .. n]
  BY <1>1 DEF OverThreshold, FoldLeft, MapThenFoldSet
<1> HIDE DEF kept
<1>3. \A i \in 1 .. n : items[i] \in W
  BY <1>1
<1>4. piece \in [1 .. n -> Seq(W)]
  <2> HIDE DEF W, Over
  <2>1. \A i \in 1 .. n : <<items[i]>> \in Seq(W) /\ <<>> \in Seq(W)
    BY <1>3
  <2> QED BY <1>1, <2>1
<1> HIDE DEF W
<1>5. PICK g \in [SUBSET (1 .. n) -> Seq(W)] : ConcatsSets(g, n, piece)
  <2> HIDE DEF piece
  <2> QED BY <1>4, ConcatsExist
<1>6. ASSUME NEW f, NEW s \in SUBSET (1 .. n), s # {}, f[s \ {Max(s)}] \in Seq(W)
      PROVE  f[s \ {Max(s)}] \o piece[Max(s)]
               = IF Over(items[Max(s)]) THEN Append(f[s \ {Max(s)}], items[Max(s)])
                 ELSE f[s \ {Max(s)}]
  <2>1. Max(s) \in 1 .. n
    BY <1>6, MaxIsIn
  <2>2. items[Max(s)] \in W
    BY <1>3, <2>1
  <2>3. /\ f[s \ {Max(s)}] \o <<items[Max(s)]>> = Append(f[s \ {Max(s)}], items[Max(s)])
        /\ f[s \ {Max(s)}] \o <<>> = f[s \ {Max(s)}]
    BY <1>6, <2>2
  <2>4. piece[Max(s)] = IF Over(items[Max(s)]) THEN <<items[Max(s)]>> ELSE <<>>
    BY <1>1, <2>1
  <2> HIDE DEF piece, Over
  <2> QED BY <2>3, <2>4
<1>7. Rec(g)
  <2>1. ASSUME NEW s \in SUBSET (1 .. n)
        PROVE  g[s] = IF s = {} THEN <<>>
                      ELSE IF Over(items[Max(s)]) THEN Append(g[s \ {Max(s)}], items[Max(s)])
                           ELSE g[s \ {Max(s)}]
    <3>1. g[s] = IF s = {} THEN <<>> ELSE g[s \ {Max(s)}] \o piece[Max(s)]
      BY <1>5 DEF ConcatsSets
    <3> HIDE DEF piece, Over
    <3> QED BY <1>6, <3>1
  <2> QED BY <1>1, <2>1
<1>8. Rec(It)
  <2> HIDE DEF Rec
  <2> QED BY <1>7
<1> HIDE DEF It
<1>9. ASSUME NEW i \in 1 .. n
      PROVE  It[1 .. i] = IF Over(items[i]) THEN Append(It[1 .. (i - 1)], items[i])
                          ELSE It[1 .. (i - 1)]
  <2>1. /\ Max(1 .. i) = i /\ 1 .. i # {} /\ (1 .. i) \ {i} = 1 .. (i - 1)
        /\ 1 .. i \in SUBSET (1 .. n)
    BY MaxOfInterval
  <2> QED BY <1>1, <1>8, <2>1
<1> DEFINE Rank(j) == Cardinality(Above(j))
           Placed(j, h) == Rank(j) \in 1 .. Len(h) /\ h[Rank(j)] = items[j]
           Right(i, h) == /\ h \in Seq(W)
                          /\ \A j \in Above(i) : Placed(j, h)
                          /\ Len(h) = Rank(i)
           S == {i \in 0 .. n : Right(i, It[1 .. i])}
<1>10. ASSUME NEW z, z = 0 PROVE z \in S
  <2>1. 1 .. z = {} /\ z \in 0 .. n /\ {} \in SUBSET (1 .. n) /\ Above(z) = {}
    BY <1>10
  <2>2. It[{}] = <<>>
    BY <1>1, <1>8, <2>1
  <2>3. Right(z, <<>>)
    <3> HIDE DEF Over
    <3>1. Len(<<>>) = 0 /\ <<>> \in Seq(W)
      OBVIOUS
    <3> HIDE DEF Above, Placed
    <3>2. Rank(z) = 0
      BY <2>1, FS_EmptySet
    <3> HIDE DEF Rank
    <3> QED BY <2>1, <3>1, <3>2
  <2> HIDE DEF Right
  <2> QED BY <2>1, <2>2, <2>3
<1>11. ASSUME NEW i \in 1 .. n, i - 1 \in S PROVE i \in S
  <2> DEFINE h == It[1 .. (i - 1)]
  <2>1. Right(i - 1, h)
    BY <1>11
  <2>2. items[i] \in W
    BY <1>3
  <2>3. It[1 .. i] = IF Over(items[i]) THEN Append(h, items[i]) ELSE h
    BY <1>9
  <2> HIDE DEF h, Over
  <2>4. IsFiniteSet(Above(i - 1)) /\ i \notin Above(i - 1)
    <3>1. IsFiniteSet(1 .. (i - 1)) /\ Above(i - 1) \in SUBSET (1 .. (i - 1))
      BY FS_Interval
    <3> QED BY <3>1, FS_Subset
  <2>5. CASE Over(items[i])
    <3>1. Above(i) = Above(i - 1) \cup {i}
      BY <2>5
    <3>2. Cardinality(Above(i)) = Cardinality(Above(i - 1)) + 1
      BY <2>4, <3>1, FS_AddElement
    <3>3. /\ It[1 .. i] \in Seq(W) /\ Len(It[1 .. i]) = Len(h) + 1
          /\ It[1 .. i][Len(h) + 1] = items[i]
          /\ \A j \in 1 .. Len(h) : It[1 .. i][j] = h[j]
      <4>1. It[1 .. i] = Append(h, items[i])
        BY <2>3, <2>5
      <4>2. h \in Seq(W)
        BY <2>1
      <4> QED BY <2>2, <4>1, <4>2, AppendProperties
    <3> HIDE DEF Above
    <3>6. Len(h) \in Nat /\ Rank(i) = Len(h) + 1
      BY <2>1, <3>2
    <3> HIDE DEF Rank
    <3>4. \A j \in Above(i) : Placed(j, It[1 .. i])
      <4>1. ASSUME NEW j \in Above(i - 1) PROVE Placed(j, It[1 .. i])
        BY <2>1, <3>3, <3>6
      <4>2. Placed(i, It[1 .. i])
        BY <3>3, <3>6
      <4> QED BY <3>1, <4>1, <4>2
    <3>5. Right(i, It[1 .. i])
      BY <3>3, <3>4, <3>6
    <3> HIDE DEF Right
    <3> QED BY <3>5
  <2>6. CASE ~Over(items[i])
    <3>1. Above(i) = Above(i - 1)
      BY <2>6
    <3> HIDE DEF Above, Placed
    <3>2. Right(i, It[1 .. i])
      BY <2>1, <2>3, <2>6, <3>1
    <3> HIDE DEF Right
    <3> QED BY <3>2
  <2> QED BY <2>5, <2>6
<1>12. Right(n, It[1 .. n])
  <2>1. \A i \in 0 .. n : i \in S
    <3> HIDE DEF S
    <3> QED BY <1>10, <1>11, Counted
  <2>2. n \in 0 .. n
    OBVIOUS
  <2> HIDE DEF Right
  <2> QED BY <2>1, <2>2
<1>13. Above(n) = {i \in DOMAIN items : items[i].number > threshold.number}
  BY <1>1
<1>14. Len(kept) = Cardinality(Above(n))
       /\ \A i \in Above(n) : kept[Rank(i)] = items[i]
  <2> HIDE DEF Over, Above
  <2> QED BY <1>2, <1>12
<1>15. \A i \in Above(n) : {j \in Above(n) : j <= i} = Above(i)
  <2> HIDE DEF Over
  <2> QED OBVIOUS
<1> HIDE DEF Above
<1> QED BY <1>13, <1>14, <1>15 DEF kept

------------------------------------------------------------------------------
(* Branches *)

\* The first condition that holds is kept, and every condition has a result.
LEMMA ScanKeepsFirst ==
    ASSUME NEW conditions, NEW n \in Nat, DOMAIN conditions = 1 .. n
    PROVE  /\ Len(Scan(conditions).results) = n
           /\ (\A j \in 1 .. n : conditions[j].value # "true") => Scan(conditions).kept = <<>>
           /\ \A j \in 1 .. n :
                 conditions[j].value = "true" /\ (\A l \in 1 .. j - 1 : conditions[l].value # "true")
                 => Scan(conditions).kept = <<conditions[j]>>
<1> DEFINE Op(acc, i) == [results |-> Append(acc.results, conditions[i].value = "true"),
                          kept |-> IF conditions[i].value = "true" /\ acc.kept = <<>>
                                   THEN <<conditions[i]>> ELSE acc.kept]
           base == [results |-> <<>>, kept |-> <<>>]
           Kepts == {<<>>} \cup {<<conditions[i]>> : i \in 1 .. n}
           V == [results : Seq(BOOLEAN), kept : Kepts]
           step == [p \in V \X (1 .. n) |-> Op(p[1], p[2])]
           Rec(g) == g = [s \in SUBSET DOMAIN conditions |->
                            IF s = {} THEN base ELSE Op(g[s \ {Max(s)}], Max(s))]
           It == CHOOSE g : Rec(g)
           Holds(i) == conditions[i].value = "true"
<1>1. Scan(conditions) = It[DOMAIN conditions]
  BY DEF Scan, FoldLeft, MapThenFoldSet
<1>2. base \in V
  <2>1. <<>> \in Seq(BOOLEAN)
    OBVIOUS
  <2> QED BY <2>1
<1>3. ASSUME NEW acc \in V, NEW i \in 1 .. n PROVE Op(acc, i) \in V
  <2>1. Append(acc.results, Holds(i)) \in Seq(BOOLEAN)
    <3>1. acc.results \in Seq(BOOLEAN) /\ Holds(i) \in BOOLEAN
      OBVIOUS
    <3> HIDE DEF V, Holds
    <3> QED BY <3>1, AppendProperties
  <2>2. acc.kept \in Kepts /\ <<conditions[i]>> \in Kepts
    OBVIOUS
  <2> HIDE DEF Kepts
  <2> QED BY <2>1, <2>2
<1> HIDE DEF V, Op, base
<1>4. step \in [V \X (1 .. n) -> V]
  BY <1>3
<1>5. PICK g : FoldsSets(g, n, V, base, step)
  <2> HIDE DEF step
  <2> QED BY <1>2, <1>4, FoldExists
<1>6. Rec(g)
  <2>1. ASSUME NEW s \in SUBSET (1 .. n), s # {}
        PROVE  g[s] = Op(g[s \ {Max(s)}], Max(s))
    <3>1. Max(s) \in 1 .. n
      BY <2>1, MaxIsIn
    <3>2. <<g[s \ {Max(s)}], Max(s)>> \in V \X (1 .. n)
      BY <1>5, <3>1 DEF FoldsSets
    <3> QED BY <1>5, <2>1, <3>2 DEF FoldsSets
  <2> HIDE DEF step
  <2> QED BY <1>5, <2>1 DEF FoldsSets
<1>7. Rec(It)
  <2> HIDE DEF Rec
  <2> QED BY <1>6
<1> HIDE DEF It
<1>8. ASSUME NEW i \in 1 .. n PROVE It[1 .. i] = Op(It[1 .. (i - 1)], i)
  <2>1. /\ Max(1 .. i) = i /\ 1 .. i # {} /\ (1 .. i) \ {i} = 1 .. (i - 1)
        /\ 1 .. i \in SUBSET (1 .. n)
    BY MaxOfInterval
  <2> QED BY <1>7, <2>1
<1> DEFINE First(j) == Holds(j) /\ \A l \in 1 .. j - 1 : ~Holds(l)
           Right(i, acc) ==
              /\ acc.results \in Seq(BOOLEAN) /\ Len(acc.results) = i
              /\ (\A j \in 1 .. i : ~Holds(j)) => acc.kept = <<>>
              /\ \A j \in 1 .. i : First(j) => acc.kept = <<conditions[j]>>
              /\ acc.kept # <<>> => \E j \in 1 .. i : Holds(j)
           S == {i \in 0 .. n : Right(i, It[1 .. i])}
<1>9. ASSUME NEW z, z = 0 PROVE z \in S
  <2>1. 1 .. z = {} /\ z \in 0 .. n /\ {} \in SUBSET (1 .. n)
    BY <1>9
  <2>2. It[{}] = base
    BY <1>7, <2>1
  <2>3. base.results = <<>> /\ base.kept = <<>> /\ <<>> \in Seq(BOOLEAN) /\ Len(<<>>) = z
    BY <1>9 DEF base
  <2>4. Right(z, base)
    BY <2>1, <2>3
  <2> HIDE DEF Right
  <2> QED BY <2>1, <2>2, <2>4
<1>10. ASSUME NEW i \in 1 .. n, i - 1 \in S PROVE i \in S
  <2> DEFINE acc == It[1 .. (i - 1)]
             new == It[1 .. i]
  <2>1. Right(i - 1, acc)
    BY <1>10
  <2>2. new = Op(acc, i)
    BY <1>8
  <2> HIDE DEF acc, new
  <2>3. /\ new.results = Append(acc.results, Holds(i))
        /\ new.kept = IF Holds(i) /\ acc.kept = <<>> THEN <<conditions[i]>> ELSE acc.kept
    BY <2>2 DEF Op
  <2>4. new.results \in Seq(BOOLEAN) /\ Len(new.results) = i
    <3>1. acc.results \in Seq(BOOLEAN) /\ Holds(i) \in BOOLEAN /\ Len(acc.results) = i - 1
      BY <2>1
    <3> HIDE DEF Holds
    <3> QED BY <2>3, <3>1, AppendProperties
  <2> HIDE DEF Holds
  <2>5. \A j \in 1 .. i : j = i \/ j \in 1 .. (i - 1)
    OBVIOUS
  <2>6. (\A j \in 1 .. i : ~Holds(j)) => new.kept = <<>>
    BY <2>1, <2>3
  <2>7. ASSUME NEW j \in 1 .. i, First(j) PROVE new.kept = <<conditions[j]>>
    <3>1. CASE j = i
      BY <2>1, <2>3, <2>7, <3>1
    <3>2. CASE j # i
      <4>1. acc.kept = <<conditions[j]>> /\ <<conditions[j]>> # <<>>
        BY <2>1, <2>5, <2>7, <3>2
      <4> QED BY <2>3, <4>1
    <3> QED BY <3>1, <3>2
  <2>8. new.kept # <<>> => \E j \in 1 .. i : Holds(j)
    BY <2>1, <2>3
  <2>9. Right(i, new)
    BY <2>4, <2>6, <2>7, <2>8
  <2> HIDE DEF Right
  <2> QED BY <2>9 DEF new
<1>11. Right(n, It[1 .. n])
  <2>1. \A i \in 0 .. n : i \in S
    <3> HIDE DEF S
    <3> QED BY <1>9, <1>10, Counted
  <2>2. n \in 0 .. n
    OBVIOUS
  <2> HIDE DEF Right
  <2> QED BY <2>1, <2>2
<1> QED BY <1>1, <1>11

\* A condition node takes the first branch that holds and otherwise the last one.
LEMMA BranchIsRight ==
    ASSUME NEW conditions, IsList(conditions)
    PROVE  RightBranch(conditions, SelectBranch(conditions))
<1> DEFINE scan == Scan(conditions)
           holds == {i \in DOMAIN conditions : conditions[i].value = "true"}
           first == CHOOSE i \in holds : \A j \in holds : i <= j
           taken == IF holds # {} THEN first ELSE Len(conditions)
           kept == IF scan.kept = <<>> /\ conditions # <<>>
                   THEN <<Last(conditions)>> ELSE scan.kept
           out == SelectBranch(conditions)
<1>1. PICK n \in Nat : n = Len(conditions) /\ DOMAIN conditions = 1 .. n
  BY DEF IsList
<1>2. /\ Len(scan.results) = n
      /\ (\A j \in 1 .. n : conditions[j].value # "true") => scan.kept = <<>>
      /\ \A j \in 1 .. n :
            conditions[j].value = "true" /\ (\A l \in 1 .. j - 1 : conditions[l].value # "true")
            => scan.kept = <<conditions[j]>>
  BY <1>1, ScanKeepsFirst
<1>3. /\ out.target = IF kept = <<>> THEN "default" ELSE OrDefault(kept[1].target)
      /\ out.evaluated = scan.results
  BY DEF SelectBranch
<1> HIDE DEF scan, out
<1>4. ASSUME conditions # <<>> PROVE out.target = OrDefault(conditions[taken].target)
  <2>1. CASE holds # {}
    <3>1. \E i \in holds : \A j \in holds : i <= j
      <4>1. holds \in SUBSET Nat
        BY <1>1
      <4> HIDE DEF holds
      <4> QED BY <2>1, <4>1, LeastNumber
    <3>2. first \in holds /\ \A j \in holds : first <= j
      <4> HIDE DEF holds
      <4> QED BY <3>1
    <3> HIDE DEF first
    <3>3. scan.kept = <<conditions[first]>>
      <4>1. first \in 1 .. n /\ conditions[first].value = "true"
        BY <1>1, <3>2
      <4>2. \A l \in 1 .. first - 1 : conditions[l].value # "true"
        BY <1>1, <3>2, <4>1
      <4> QED BY <1>2, <4>1, <4>2
    <3>4. kept = <<conditions[first]>> /\ kept # <<>> /\ kept[1] = conditions[first]
      BY <3>3
    <3> HIDE DEF kept, holds
    <3> QED BY <1>3, <2>1, <3>4
  <2>2. CASE holds = {}
    <3>1. scan.kept = <<>>
      BY <1>1, <1>2, <2>2
    <3>2. kept = <<conditions[n]>> /\ kept # <<>> /\ kept[1] = conditions[n]
      BY <1>1, <1>4, <3>1 DEF Last
    <3> HIDE DEF kept, holds
    <3> QED BY <1>1, <1>3, <2>2, <3>2
  <2> QED BY <2>1, <2>2
<1>5. Len(out.evaluated) = Len(conditions)
  BY <1>1, <1>2, <1>3
<1>6. RightBranch(conditions, out)
  <2> HIDE DEF kept
  <2> QED BY <1>4, <1>5 DEF RightBranch
<1> QED BY <1>6 DEF out

------------------------------------------------------------------------------
(* Outputs *)

\* What the aggregator returns for each strategy.
LEMMA AggregateIsRight ==
    ASSUME NEW in \in Input["aggregator"],
           Aggregate(in.strategy, in.operation, in.sources).ok
    PROVE  RightOutput("aggregator", in,
                       Aggregate(in.strategy, in.operation, in.sources).value)
<1> DEFINE result == CASE in.strategy = "merge" -> Returned(Dict(Merge(in.sources)))
                       [] in.strategy = "list" -> Returned(List(Collect(in.sources)))
                       [] in.strategy = "reduce" -> Reduce(in.operation, in.sources)
                       [] OTHER -> Returned(Dict([s \in {"sources"} |-> List(in.sources)]))
           out == Aggregate(in.strategy, in.operation, in.sources).value
<1>1. IsList(in.sources) /\ \A i \in DOMAIN in.sources : IsValue(in.sources[i])
  BY InputAssumption
<1>2. PICK n \in Nat : n = Len(in.sources) /\ DOMAIN in.sources = 1 .. n
  BY <1>1 DEF IsList
<1>3. result.ok /\ out = [result |-> result.value, source_count |-> Len(in.sources)]
  <2>1. Aggregate(in.strategy, in.operation, in.sources)
          = IF result.ok
            THEN Returned([result |-> result.value, source_count |-> Len(in.sources)])
            ELSE Raised
    BY DEF Aggregate
  <2> HIDE DEF result
  <2> QED BY <2>1 DEF Returned, Raised
<1> SUFFICES RightOutput("aggregator", in, out)
  OBVIOUS
<1> HIDE DEF out
<1>4. /\ out.source_count = Len(in.sources)
      /\ in.strategy = "merge" => RightMerge(in.sources, out.result.fields)
      /\ in.strategy = "list" =>
            out.result.items = FlattenSeq([i \in DOMAIN in.sources |->
                IF in.sources[i].kind = "list" THEN in.sources[i].items
                ELSE <<in.sources[i]>>])
      /\ in.strategy = "reduce" /\ in.operation = "sum" =>
            out.result.number = MapThenSumSet(LAMBDA i : in.sources[i].number,
                                              DOMAIN in.sources)
      => RightOutput("aggregator", in, out)
  BY DEF RightOutput
<1>5. CASE in.strategy = "merge"
  <2>1. result.value.fields = Merge(in.sources)
    BY <1>5 DEF Returned, Dict
  <2>2. RightMerge(in.sources, Merge(in.sources))
    BY <1>2, MergeIsRight
  <2> HIDE DEF result
  <2> QED BY <1>3, <1>4, <1>5, <2>1, <2>2
<1>6. CASE in.strategy = "list"
  <2>1. result.value.items = Collect(in.sources)
    BY <1>6 DEF Returned, List
  <2>2. Collect(in.sources) = FlattenSeq([i \in DOMAIN in.sources |->
                                 IF in.sources[i].kind = "list" THEN in.sources[i].items
                                 ELSE <<in.sources[i]>>])
    BY <1>1, CollectIsRight
  <2> HIDE DEF result
  <2> QED BY <1>3, <1>4, <1>6, <2>1, <2>2
<1>7. CASE in.strategy = "reduce" /\ in.operation = "sum"
  <2>1. result = IF \A i \in DOMAIN in.sources : in.sources[i].kind = "number"
                 THEN Returned(Number(SumOf(in.sources))) ELSE Raised
    BY <1>7 DEF Reduce
  <2> HIDE DEF result
  <2>2. /\ \A i \in DOMAIN in.sources : in.sources[i].kind = "number"
        /\ result.value.number = SumOf(in.sources)
    BY <1>3, <2>1 DEF Returned, Raised, Number
  <2>3. \A i \in 1 .. n : in.sources[i].number \in Int
    BY <1>1, <1>2, <2>2 DEF IsValue
  <2>4. SumOf(in.sources)
          = MapThenSumSet(LAMBDA i : in.sources[i].number, DOMAIN in.sources)
    BY <1>2, <2>3, SumIsRight
  <2>5. out.result.number
          = MapThenSumSet(LAMBDA i : in.sources[i].number, DOMAIN in.sources)
    BY <1>3, <2>2, <2>4
  <2> QED BY <1>3, <1>4, <1>7, <2>5
<1>8. CASE /\ in.strategy # "merge" /\ in.strategy # "list"
           /\ ~(in.strategy = "reduce" /\ in.operation = "sum")
  <2> HIDE DEF result
  <2> QED BY <1>3, <1>4, <1>8
<1> QED BY <1>5, <1>6, <1>7, <1>8

\* What the adapter returns for each transformation.
LEMMA AdaptIsRight ==
    ASSUME NEW in \in Input["adapter"],
           Adapt(in.transformation, in.config, in.data).ok
    PROVE  RightOutput("adapter", in, Adapt(in.transformation, in.config, in.data).value)
<1> DEFINE out == Adapt(in.transformation, in.config, in.data).value
<1>1. CASE in.transformation = "field_mapping" /\ IsDict(in.data)
  <2>1. out.data.fields = MapFields(in.config, in.data.fields)
    BY <1>1 DEF Adapt, Adapted, Returned, Dict
  <2>2. PICK n \in Nat : DOMAIN in.config = 1 .. n
    <3>1. IsList(in.config)
      BY <1>1, InputAssumption
    <3> QED BY <3>1 DEF IsList
  <2>3. RightMapping(in.config, in.data.fields, MapFields(in.config, in.data.fields))
    BY <2>2, MappingIsRight
  <2> HIDE DEF out
  <2>4. RightOutput("adapter", in, out)
    BY <1>1, <2>1, <2>3 DEF RightOutput
  <2> QED BY <2>4 DEF out
<1>2. CASE in.transformation = "filtering"
  <2> DEFINE answer == Filter(in.config, in.data)
             items == in.data.fields["items"]
             kept == OverThreshold(in.config, Elements(items))
             over == {i \in DOMAIN Elements(items) :
                        Elements(items)[i].number > in.config.number}
  <2>1. Adapt(in.transformation, in.config, in.data) = answer /\ answer.ok
    BY <1>2 DEF Adapt
  <2>2. RightFilter(in.config, in.data, answer.value.data)
    <3>1. CASE ~HasItems(in.data)
      <4>1. answer = Adapted(in.data, 1)
        BY <3>1 DEF Filter
      <4>2. answer.value.data = in.data
        BY <4>1 DEF Adapted, Returned
      <4> HIDE DEF answer
      <4> QED BY <3>1, <4>2 DEF RightFilter
    <3>2. CASE HasItems(in.data) /\ in.config.kind # "number"
      <4>1. in.config.kind \in {"none", "text"}
        BY <1>2, <3>2, InputAssumption
      <4>2. answer = Adapted(in.data, 0)
        <5>1. CASE in.config.kind = "none"
          BY <3>2, <5>1 DEF Filter
        <5>2. CASE in.config.kind = "text"
          <6>1. answer = Raised
            BY <3>2, <5>2 DEF Filter
          <6> HIDE DEF answer
          <6> QED BY <2>1, <6>1 DEF Raised
        <5> QED BY <4>1, <5>1, <5>2
      <4>3. answer.value.data = in.data
        BY <4>2 DEF Adapted, Returned
      <4> HIDE DEF answer
      <4> QED BY <3>2, <4>3 DEF RightFilter
    <3>3. CASE HasItems(in.data) /\ in.config.kind = "number"
      <4>1. answer = IF Comparable(items) THEN Filtered(in.config, items) ELSE Raised
        BY <3>3 DEF Filter
      <4>2. answer = Filtered(in.config, items)
        <5> HIDE DEF answer
        <5> QED BY <2>1, <4>1 DEF Raised
      <4>3. answer.value.data = Dict([k \in {"items"} |-> List(kept)])
        BY <4>2 DEF Filtered, Adapted, Returned
      <4> HIDE DEF answer
      <4>4. answer.value.data.fields["items"].items = kept
        BY <4>3 DEF Dict, List
      <4>5. IsList(Elements(items))
        <5>1. IsValue(items)
          BY <1>2, <3>3, InputAssumption
        <5>2. CASE items.kind = "list"
          BY <5>1, <5>2 DEF IsValue, Elements
        <5>3. CASE items.kind # "list"
          BY <5>3 DEF IsList, Elements
        <5> QED BY <5>2, <5>3
      <4>6. /\ Len(kept) = Cardinality(over)
            /\ \A i \in over : kept[Cardinality({j \in over : j <= i})] = Elements(items)[i]
        BY <4>5, FilterIsRight
      <4> HIDE DEF kept
      <4> QED BY <3>3, <4>4, <4>6 DEF RightFilter
    <3> QED BY <3>1, <3>2, <3>3
  <2> HIDE DEF answer
  <2>3. RightOutput("adapter", in, answer.value)
    BY <1>2, <2>2 DEF RightOutput
  <2> QED BY <2>1, <2>3
<1>3. CASE /\ ~(in.transformation = "field_mapping" /\ IsDict(in.data))
           /\ in.transformation # "filtering"
  BY <1>3 DEF RightOutput
<1> QED BY <1>1, <1>2, <1>3

\* What a built-in class returns for one of its inputs is right.
LEMMA ProcessIsRight ==
    ASSUME NEW type, NEW in \in Input[type], Process(type, in).ok
    PROVE  RightOutput(type, in, Process(type, in).value)
<1>1. CASE type = "condition"
  <2>1. Process(type, in).value = SelectBranch(in.conditions)
    BY <1>1 DEF Process, Returned
  <2>2. RightBranch(in.conditions, SelectBranch(in.conditions))
    BY <1>1, InputAssumption, BranchIsRight
  <2> QED BY <1>1, <2>1, <2>2 DEF RightOutput
<1>2. CASE type = "aggregator"
  <2>1. Process(type, in) = Aggregate(in.strategy, in.operation, in.sources)
    BY <1>2 DEF Process
  <2> QED BY <1>2, <2>1, AggregateIsRight
<1>3. CASE type = "adapter"
  <2>1. Process(type, in) = Adapt(in.transformation, in.config, in.data)
    BY <1>3 DEF Process
  <2> QED BY <1>3, <2>1, AdaptIsRight
<1>4. CASE type \notin {"condition", "aggregator", "adapter"}
  BY <1>4 DEF RightOutput
<1> QED BY <1>1, <1>2, <1>3, <1>4

\* The calls of a built-in class are over as soon as they begin, and return what process()
\* answers for an input of the class.
OInv ==
    Of("builtin") =>
        \A c \in Call :
            LET type == processor[1].type
                k == calls[c]
            IN /\ k.phase \in {"idle", "returned", "raised"}
               /\ k.phase = "returned" =>
                     /\ k.input \in Input[type] /\ Process(type, k.input).ok
                     /\ k.output = Process(type, k.input).value

LEMMA InitOInv == Init => OInv
BY DEF Init, OInv, Of

LEMMA BuiltinOInv ==
    ASSUME NInv, OInv, NEW c \in Call, NEW input \in Input[processor[1].type],
           ExecuteBuiltin(c, input)
    PROVE  OInv'
<1> DEFINE type == processor[1].type
           call == [calls[c] EXCEPT !.input = input]
           outcome == Process(type, input)
           Good == [call EXCEPT !.phase = "returned", !.output = outcome.value]
           Bad(error) == [call EXCEPT !.phase = "raised", !.error = error]
           k == CASE ~Valid(type, input) -> Bad("ProcessorValidationError")
                  [] Valid(type, input) /\ outcome.ok -> Good
                  [] OTHER -> Bad("ProcessorExecutionError")
<1>1. /\ Of("builtin") /\ Finish(c, k, 0) /\ DOMAIN calls[c] = Fields
  BY Zenon DEF ExecuteBuiltin, NInv, Counts
<1>2. \/ outcome.ok /\ k = Good
      \/ k \in {Bad("ProcessorValidationError"), Bad("ProcessorExecutionError")}
  OBVIOUS
<1>3. Good.phase = "returned" /\ Good.input = input /\ Good.output = outcome.value
  BY <1>1 DEF Fields
<1>4. \A error : Bad(error).phase = "raised"
  BY <1>1 DEF Fields
<1>5. \/ k.phase = "raised"
      \/ k.phase = "returned" /\ k.input = input /\ outcome.ok /\ k.output = outcome.value
  <2> HIDE DEF k, Good, Bad, outcome
  <2> QED BY <1>2, <1>3, <1>4
<1> HIDE DEF k
<1>6. /\ calls'[c] = k /\ \A d \in Call : d # c => calls'[d] = calls[d]
      /\ UNCHANGED processor
  BY <1>1 DEF Finish, NInv
<1> QED
  BY <1>1, <1>5, <1>6 DEF OInv, Of

LEMMA NextOInv == NInv /\ OInv /\ [Next]_vars => OInv'
<1> SUFFICES ASSUME NInv, OInv, [Next]_vars PROVE OInv'
  OBVIOUS
<1>1. ASSUME NEW c \in Call, NEW d \in 0 .. Timeout,
             \/ Execute(c) \/ PreProcess(c) \/ WakesUp(c) \/ PostProcess(c) \/ Cancel(c)
             \/ TimesOut(c, d) \/ FailsRetryable(c, d) \/ FailsOtherwise(c, d)
             \/ ProcessReturns(c, d)
      PROVE  OInv'
  <2>1. UNCHANGED processor
    BY <1>1 DEF Execute, PreProcess, WakesUp, PostProcess, Cancel, TimesOut, FailsRetryable,
                FailsOtherwise, ProcessReturns, Moves, Finish
  <2>2. Of("custom") \/ calls[c].phase \in {"pre", "process", "sleep", "post"}
    BY <1>1 DEF Execute, PreProcess, WakesUp, PostProcess, Cancel, TimesOut, FailsRetryable,
                FailsOtherwise, ProcessReturns, Moves
  <2>3. ~Of("builtin")
    BY <2>2 DEF OInv, Of
  <2> QED
    BY <2>1, <2>3 DEF OInv, Of
<1>2. ASSUME NEW t, NEW config, Create(t, config)
      PROVE  OInv'
  <2>1. processor = <<>> /\ UNCHANGED calls
    BY <1>2 DEF Create
  <2>2. \A c \in Call : calls[c].phase = "idle"
    BY <2>1 DEF NInv, OnTime
  <2> QED
    BY <2>1, <2>2 DEF OInv
<1>3. CASE UNCHANGED <<processor, calls>>
  BY <1>3 DEF OInv, Of
<1>4. ASSUME NEW c \in Call, NEW input \in Input[processor[1].type], ExecuteBuiltin(c, input)
      PROVE  OInv'
  BY <1>4, BuiltinOInv
<1>5. 0 \in 0 .. Timeout
  BY BudgetAssumption
<1> QED
  BY <1>1, <1>2, <1>3, <1>4, <1>5 DEF Next, Register, ClearMetrics, vars

(***************************************************************************)
(* What a built-in processor returns is right: the branch that is taken,   *)
(* the value of every merged or mapped key, every collected item and every *)
(* addend, and what a filter keeps.                                        *)
(***************************************************************************)
THEOREM OutputsAreRight == Spec => []OutputIsRight
<1>1. OInv => OutputIsRight
  <2> SUFFICES ASSUME OInv, NEW c \in Call, Of("builtin"), calls[c].phase = "returned"
               PROVE  RightOutput(processor[1].type, calls[c].input, calls[c].output)
    BY DEF OutputIsRight
  <2> QED
    BY ProcessIsRight DEF OInv
<1>2. NInv /\ OInv /\ [Next]_vars => (NInv /\ OInv)'
  BY NextNInv, NextOInv
<1> QED
  BY <1>1, <1>2, InitNInv, InitOInv, PTL DEF Spec
=============================================================================

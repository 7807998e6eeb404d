---------------------------- MODULE NodeProcessor ----------------------------
(***************************************************************************)
(* A node processor taken from the registry and its concurrent calls of    *)
(* execute(): pre_process, process under a time limit with retries and     *)
(* back-off, post_process, and the metric that every call leaves behind.   *)
(* The hooks of the built-in classes never suspend, so their execute() is  *)
(* one step; the hooks of a class registered by the application may        *)
(* suspend, take time, raise, or be cancelled.  Time is counted in units.  *)
(***************************************************************************)
EXTENDS ProcessorLogic

CONSTANTS
    Call,           \* the calls of execute()
    Input,          \* Input[t]: the inputs given to the built-in class of type t
    Extra,          \* the node types the application registers a class for
    RetryLimits,    \* the values of max_retries
    Timeout,        \* timeout_seconds
    InitialDelay, Multiplier, MaxDelay   \* the back-off of the configuration

BuiltinTypes == {"tool", "agent", "condition", "adapter", "trigger", "aggregator"}

ASSUME BudgetAssumption ==
    /\ Timeout \in Nat \ {0} /\ InitialDelay \in Nat /\ Multiplier \in Nat
    /\ MaxDelay \in Nat /\ RetryLimits \subseteq Nat

\* Inputs that a caller can give: lists are sequences, and numbers are integers.
IsList(s) == s \in Seq({s[i] : i \in DOMAIN s})

IsValue(v) == /\ v.kind = "number" => v.number \in Int
              /\ v.kind = "list" => IsList(v.items)

ASSUME InputAssumption ==
    /\ \A in \in Input["condition"] : IsList(in.conditions)
    /\ \A in \in Input["aggregator"] :
          IsList(in.sources) /\ \A i \in DOMAIN in.sources : IsValue(in.sources[i])
    /\ \A in \in Input["adapter"] :
          /\ in.transformation = "field_mapping" => IsList(in.config)
          /\ in.transformation = "filtering" => in.config.kind \in {"none", "text", "number"}
          /\ HasItems(in.data) => IsValue(in.data.fields["items"])

\* Arithmetic, of which the provers know no exponents.
ASSUME PowerAssumption ==
    \A limit \in RetryLimits : \A n \in 0 .. limit : Multiplier^n \in Nat

VARIABLES
    registry,   \* node type -> "builtin" or "custom"
    processor,  \* <<>>, or <<the processor object>>: its type, class and configuration
    calls,      \* the calls of its execute(); failures is history: how many of the
                \* attempts so far raised a retryable exception
    metrics,    \* what its MetricsCollector holds
    cleared     \* the calls whose metric clear() has removed

vars == <<registry, processor, calls, metrics, cleared>>

Idle == [phase |-> "idle", input |-> <<>>, attempt |-> 0, elapsed |-> 0,
         failures |-> 0, retries |-> 0, output |-> <<>>, error |-> "none"]

Init ==
    /\ registry = [t \in BuiltinTypes |-> "builtin"]
    /\ processor = <<>>
    /\ calls = [c \in Call |-> Idle]
    /\ metrics = <<>>
    /\ cleared = {}

\* register: an entry that is already there is overwritten.
Register(t) ==
    /\ registry' = [u \in DOMAIN registry \cup {t} |-> IF u = t THEN "custom" ELSE registry[u]]
    /\ UNCHANGED <<processor, calls, metrics, cleared>>

\* get refuses an unknown type; create instantiates the class registered now.
Create(t, config) ==
    /\ processor = <<>>
    /\ t \in DOMAIN registry
    /\ processor' = <<[type |-> t, class |-> registry[t], config |-> config]>>
    /\ UNCHANGED <<registry, calls, metrics, cleared>>

Config == processor[1].config
Of(class) == processor # <<>> /\ processor[1].class = class

----------------------------------------------------------------------------
Metric(c, end, total) ==
    [call |-> c, success |-> end.phase = "returned", error |-> end.error,
     total_duration |-> total]

FinishUnlessCancelled(c, end, total) ==
    /\ calls' = [calls EXCEPT ![c] = end]
    /\ metrics' = IF Config.collect_metrics /\ end.phase # "cancelled"
                  THEN Append(metrics, Metric(c, end, total)) ELSE metrics
    /\ UNCHANGED <<registry, processor, cleared>>

\* The finally block: whichever way execute() is left, its metric is recorded.
\* Only stages that ended have a duration; CancelledError sets no error type.
Finish(c, end, total) ==
    /\ calls' = [calls EXCEPT ![c] = end]
    /\ metrics' = IF Config.collect_metrics
                  THEN Append(metrics, Metric(c, end, total)) ELSE metrics
    /\ UNCHANGED <<registry, processor, cleared>>

Raises(c, error, retries, elapsed) ==
    [calls[c] EXCEPT !.phase = "raised", !.error = error, !.retries = retries,
                     !.elapsed = elapsed]

\* execute() of a built-in class: no hook suspends, nothing it raises is retried.
ExecuteBuiltin(c, input) ==
    /\ Of("builtin")
    /\ calls[c].phase = "idle"
    /\ LET call == [calls[c] EXCEPT !.input = input]
           outcome == Process(processor[1].type, input)
       IN Finish(c,
            CASE ~Valid(processor[1].type, input) ->
                    [call EXCEPT !.phase = "raised", !.error = "ProcessorValidationError"]
              [] Valid(processor[1].type, input) /\ outcome.ok ->
                    [call EXCEPT !.phase = "returned", !.output = outcome.value]
              [] OTHER ->
                    [call EXCEPT !.phase = "raised", !.error = "ProcessorExecutionError"],
            0)

----------------------------------------------------------------------------
(* execute() of a class of the application, suspended in one of its hooks. *)

Moves(c, from, to, elapsed) ==
    /\ Of("custom")
    /\ calls[c].phase = from
    /\ calls' = [calls EXCEPT ![c].phase = to, ![c].elapsed = elapsed]
    /\ UNCHANGED <<registry, processor, metrics, cleared>>

Execute(c) == Moves(c, "idle", "pre", 0)

PreProcess(c) ==
    \/ Moves(c, "pre", "process", 0)
    \/ /\ calls[c].phase = "pre"
       /\ Finish(c, Raises(c, "ProcessorValidationError", 0, 0), 0)

\* process() answers after d units, within the limit.
ProcessReturns(c, d) == Moves(c, "process", "post", calls[c].elapsed + d)

\* wait_for gives up, or process() itself raises TimeoutError: no retry.
TimesOut(c, d) ==
    /\ calls[c].phase = "process"
    /\ Finish(c, Raises(c, "ProcessorTimeoutError", 0, calls[c].elapsed + d), 0)

DelayUncapped(attempt) == InitialDelay * Multiplier^attempt

\* The back-off before the attempt after this one.
Delay(attempt) ==
    LET backoff == InitialDelay * Multiplier^attempt
    IN IF backoff < MaxDelay THEN backoff ELSE MaxDelay

\* A retryable exception after d units: raised at once when retrying is off,
\* slept on when attempts are left, and raised when they are exhausted.
FailsRetryable(c, d) ==
    LET failed == [calls[c] EXCEPT !.elapsed = @ + d, !.failures = @ + 1]
        Error(retries) == [failed EXCEPT !.phase = "raised", !.retries = retries,
                                         !.error = "ProcessorExecutionError"]
    IN /\ calls[c].phase = "process"
       /\ \/ /\ ~Config.retry_enabled
             /\ Finish(c, Error(0), 0)
          \/ /\ Config.retry_enabled
             /\ calls[c].attempt < Config.max_retries
             /\ calls' = [calls EXCEPT ![c] = [failed EXCEPT !.phase = "sleep"]]
             /\ UNCHANGED <<registry, processor, metrics, cleared>>
          \/ /\ Config.retry_enabled
             /\ calls[c].attempt = Config.max_retries
             /\ Finish(c, Error(calls[c].attempt + 1), 0)

\* Any other exception ends the call at once.
FailsOtherwise(c, d) ==
    /\ calls[c].phase = "process"
    /\ Finish(c, Raises(c, "ProcessorExecutionError", 0, calls[c].elapsed + d), 0)

WakesUp(c) ==
    /\ calls[c].phase = "sleep"
    /\ calls' = [calls EXCEPT ![c].phase = "process", ![c].attempt = @ + 1,
                              ![c].elapsed = @ + Delay(calls[c].attempt)]
    /\ UNCHANGED <<registry, processor, metrics, cleared>>

PostProcess(c) ==
    /\ calls[c].phase = "post"
    /\ \/ Finish(c, [calls[c] EXCEPT !.phase = "returned"], calls[c].elapsed)
       \/ Finish(c, Raises(c, "raised by the hook", 0, calls[c].elapsed), calls[c].elapsed)

\* The task is cancelled where it is suspended: not an Exception, so no handler runs.
Cancel(c) ==
    /\ calls[c].phase \in {"pre", "process", "sleep", "post"}
    /\ Finish(c, [calls[c] EXCEPT !.phase = "cancelled"],
              IF calls[c].phase = "post" THEN calls[c].elapsed ELSE 0)

\* clear(): a processor has one context, so its metrics have one execution id.
ClearMetrics ==
    /\ metrics # <<>>
    /\ cleared' = cleared \cup {metrics[i].call : i \in DOMAIN metrics}
    /\ metrics' = <<>>
    /\ UNCHANGED <<registry, processor, calls>>

Configs == [retry_enabled : BOOLEAN, max_retries : RetryLimits, collect_metrics : BOOLEAN]

Next ==
    \/ \E t \in Extra : Register(t)
    \/ \E t \in BuiltinTypes \cup Extra, config \in Configs : Create(t, config)
    \/ \E c \in Call : Of("builtin") /\ \E i \in Input[processor[1].type] : ExecuteBuiltin(c, i)
    \/ \E c \in Call : Execute(c) \/ PreProcess(c) \/ WakesUp(c) \/ PostProcess(c) \/ Cancel(c)
    \/ \E c \in Call, d \in 0..Timeout :
          TimesOut(c, d) \/ FailsRetryable(c, d) \/ FailsOtherwise(c, d) \/ ProcessReturns(c, d)
    \/ ClearMetrics

Spec == Init /\ [][Next]_vars

\* get_summary of the one execution.
Count(S(_)) == Cardinality({i \in DOMAIN metrics : S(metrics[i])})
Summary == [total_processors |-> Len(metrics),
            success_count |-> Count(LAMBDA m : m.success),
            total_duration_ms |->
                FoldLeft(LAMBDA acc, m : acc + m.total_duration, 0, metrics)]

----------------------------------------------------------------------------
(* What the metrics tell of the calls: every call that has left execute(), *)
(* by returning, by raising or by being cancelled, has exactly one metric  *)
(* until clear() removes it, a call under way has none, and get_summary    *)
(* counts as successes exactly the calls that returned.                    *)
Ended(c) == calls[c].phase \in {"returned", "raised", "cancelled"}
Kept == {c \in Call : Ended(c) /\ c \notin cleared}

MetricsTellOutcomes ==
    processor # <<>> /\ Config.collect_metrics =>
        /\ {metrics[i].call : i \in DOMAIN metrics} = Kept
        /\ Summary.total_processors = Cardinality(Kept)
        /\ Summary.success_count = Cardinality({c \in Kept : calls[c].phase = "returned"})
        /\ \A i \in DOMAIN metrics :
              /\ (metrics[i].error # "none") = (calls[metrics[i].call].phase = "raised")
              /\ metrics[i].total_duration <= calls[metrics[i].call].elapsed

(* The time and the attempts a call may take: never more attempts than     *)
(* max_retries allows, each within the limit, with capped delays between   *)
(* them; a single attempt when retrying is off, and another attempt only   *)
(* after one that failed with a retryable exception.  The error reports    *)
(* retries if and only if they are exhausted: every attempt there could be *)
(* was made and failed so.  (How many it reports is left open: the code    *)
(* counts the attempts, AC-012-003 of SPEC-012 the retries among them.)    *)
WithinBudget ==
    \A c \in Call : Ended(c) =>
        /\ calls[c].elapsed <= (calls[c].attempt + 1) * Timeout + calls[c].attempt * MaxDelay
        /\ calls[c].attempt <= Config.max_retries
        /\ ~Config.retry_enabled => calls[c].attempt = 0
        /\ calls[c].failures \in calls[c].attempt .. calls[c].attempt + 1
        /\ (calls[c].retries # 0) =
              (Config.retry_enabled /\ calls[c].failures = Config.max_retries + 1)

(* What the built-in processors answer, said without their loops: a        *)
(* condition node takes the first branch that holds and otherwise the last *)
(* one (AC-012-007 of SPEC-012 has an else branch there; the docstring     *)
(* condition.py:90 says ProcessorExecutionError, which is never raised);   *)
(* of several sources, or mapped fields, that give a key the last one wins *)
(* and none is lost; a list keeps every item in order; a sum counts every  *)
(* source; a filter with a threshold keeps exactly the items over it, in   *)
(* their order, and without one, or without items, it changes nothing.     *)
LastOf(S) == CHOOSE i \in S : \A j \in S : j <= i

RightBranch(conditions, out) ==
    LET holds == {i \in DOMAIN conditions : conditions[i].value = "true"}
        first == CHOOSE i \in holds : \A j \in holds : i <= j
        kept == IF holds # {} THEN first ELSE Len(conditions)
    IN /\ conditions # <<>> => out.target = OrDefault(conditions[kept].target)
       /\ Len(out.evaluated) = Len(conditions)

RightMerge(sources, fields) ==
    LET giving(k) == {i \in DOMAIN sources : IsDict(sources[i])
                                             /\ k \in DOMAIN sources[i].fields}
        keys == UNION {DOMAIN sources[i].fields : i \in {j \in DOMAIN sources : IsDict(sources[j])}}
    IN /\ DOMAIN fields = keys
       /\ \A k \in keys : fields[k] = sources[LastOf(giving(k))].fields[k]

RightMapping(mapping, before, after) ==
    LET giving(k) == {i \in DOMAIN mapping : mapping[i][1] \in DOMAIN before /\ mapping[i][2] = k}
    IN /\ DOMAIN after = {mapping[i][2] : i \in {j \in DOMAIN mapping :
                                                   mapping[j][1] \in DOMAIN before}}
       /\ \A k \in DOMAIN after : after[k] = before[mapping[LastOf(giving(k))][1]]

\* An item over the threshold comes after all those before it that are over it too.
RightFilter(threshold, before, after) ==
    IF HasItems(before) /\ threshold.kind = "number"
    THEN LET items == Elements(before.fields["items"])
             kept == after.fields["items"].items
             over == {i \in DOMAIN items : items[i].number > threshold.number}
         IN /\ Len(kept) = Cardinality(over)
            /\ \A i \in over : kept[Cardinality({j \in over : j <= i})] = items[i]
    ELSE after = before

RightOutput(type, in, out) ==
    /\ type = "condition" => RightBranch(in.conditions, out)
    /\ type = "aggregator" =>
          /\ out.source_count = Len(in.sources)
          /\ in.strategy = "merge" => RightMerge(in.sources, out.result.fields)
          /\ in.strategy = "list" =>
                out.result.items = FlattenSeq([i \in DOMAIN in.sources |->
                    IF in.sources[i].kind = "list" THEN in.sources[i].items
                    ELSE <<in.sources[i]>>])
          /\ in.strategy = "reduce" /\ in.operation = "sum" =>
                out.result.number = MapThenSumSet(LAMBDA i : in.sources[i].number,
                                                  DOMAIN in.sources)
    /\ type = "adapter" =>
          /\ in.transformation = "field_mapping" /\ IsDict(in.data) =>
                RightMapping(in.config, in.data.fields, out.data.fields)
          /\ in.transformation = "filtering" => RightFilter(in.config, in.data, out.data)

OutputIsRight ==
    \A c \in Call : Of("builtin") /\ calls[c].phase = "returned" =>
        RightOutput(processor[1].type, calls[c].input, calls[c].output)
=============================================================================

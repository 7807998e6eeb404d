--------------------------- MODULE ProcessorLogic ---------------------------
(***************************************************************************)
(* What the six built-in node processors compute: the value process()      *)
(* returns for a validated input, or the exception it raises.              *)
(* A Python dict is a function from its keys; a dict whose order the code  *)
(* iterates over is a sequence of its items.  A text is the sequence of    *)
(* the tokens it is put together from.                                     *)
(***************************************************************************)
EXTENDS Integers, FiniteSets, Sequences, SequencesExt

Number(n) == [kind |-> "number", number |-> n]
Text(tokens) == [kind |-> "text", tokens |-> tokens]
Dict(fields) == [kind |-> "dict", fields |-> fields]
List(items) == [kind |-> "list", items |-> items]
Ratio(sum, count) == [kind |-> "ratio", over |-> <<sum, count>>]

IsDict(v) == v.kind = "dict"
NoFields == [k \in {} |-> 0]

\* dict.update: f with the items of g.
Updated(f, g) ==
    [k \in DOMAIN f \cup DOMAIN g |-> IF k \in DOMAIN g THEN g[k] ELSE f[k]]

Returned(v) == [ok |-> TRUE, value |-> v]
Raised == [ok |-> FALSE]

\* str(v), and int(v) for the texts that hold a numeral.
Numerals == [n \in 0..9 |-> ToString(n)]
Str(v) == CASE v.kind = "number" -> <<ToString(v.number)>>
            [] v.kind = "text" -> v.tokens
            [] OTHER -> <<v.kind>>
IsNumeric(v) == \/ v.kind = "number"
                \/ v.kind = "text" /\ \E n \in 0..9 : v.tokens = <<Numerals[n]>>
AsNumber(v) == IF v.kind = "number" THEN v.number
               ELSE CHOOSE n \in 0..9 : v.tokens = <<Numerals[n]>>

----------------------------------------------------------------------------
(* Conditions: [name, target, value], value being what eval() gives in the *)
(* evaluation context: "true", "false", or "error" when it raises.         *)

OrDefault(name) == IF name = "" THEN "default" ELSE name

\* All conditions are evaluated; the first that holds is kept, and the last
\* of the list is taken when none holds.
Scan(conditions) ==
    FoldLeft(LAMBDA acc, c :
                [results |-> Append(acc.results, c.value = "true"),
                 kept |-> IF c.value = "true" /\ acc.kept = <<>> THEN <<c>> ELSE acc.kept],
             [results |-> <<>>, kept |-> <<>>], conditions)

SelectBranch(conditions) ==
    LET scan == Scan(conditions)
        kept == IF scan.kept = <<>> /\ conditions # <<>>
                THEN <<Last(conditions)>> ELSE scan.kept
    IN [branch |-> IF kept = <<>> THEN "default" ELSE OrDefault(kept[1].name),
        target |-> IF kept = <<>> THEN "default" ELSE OrDefault(kept[1].target),
        evaluated |-> scan.results]

----------------------------------------------------------------------------
(* Aggregation of the sources, in the order of their dict.                 *)

MergeFirstWins(sources) ==
    FoldLeft(LAMBDA acc, v : IF IsDict(v) THEN Updated(v.fields, acc) ELSE acc,
             NoFields, sources)

Merge(sources) ==
    FoldLeft(LAMBDA acc, v : IF IsDict(v) THEN Updated(acc, v.fields) ELSE acc,
             NoFields, sources)

Collect(sources) ==
    FoldLeft(LAMBDA acc, v : IF v.kind = "list" THEN acc \o v.items ELSE Append(acc, v),
             <<>>, sources)

\* sum() raises TypeError at the first value that is not a number.
SumOf(sources) == FoldLeft(LAMBDA acc, v : acc + v.number, 0, sources)

Reduce(operation, sources) ==
    LET numbers == \A i \in DOMAIN sources : sources[i].kind = "number"
        sum == SumOf(sources)
    IN CASE operation = "sum" -> IF numbers THEN Returned(Number(sum)) ELSE Raised
         [] operation = "concatenate" ->
               Returned(Text(FoldLeft(LAMBDA acc, v : acc \o Str(v), <<>>, sources)))
         [] operation = "average" ->
               IF sources = <<>> THEN Returned(Number(0))
               ELSE IF numbers THEN Returned(Ratio(sum, Len(sources))) ELSE Raised
         [] OTHER -> Returned(List(sources))

Aggregate(strategy, operation, sources) ==
    LET result == CASE strategy = "merge" -> Returned(Dict(Merge(sources)))
                    [] strategy = "list" -> Returned(List(Collect(sources)))
                    [] strategy = "reduce" -> Reduce(operation, sources)
                    [] OTHER -> Returned(Dict([s \in {"sources"} |-> List(sources)]))
    IN IF result.ok
       THEN Returned([result |-> result.value, source_count |-> Len(sources)])
       ELSE Raised

----------------------------------------------------------------------------
(* Adaptation of one value.  The answer has the value and the number of    *)
(* records the processor says it went through.                             *)

Adapted(v, n) == Returned([data |-> v, records_processed |-> n])

MapFields(mapping, fields) ==
    FoldLeft(LAMBDA acc, item : IF item[1] \in DOMAIN fields
                                THEN Updated(acc, [k \in {item[2]} |-> fields[item[1]]])
                                ELSE acc,
             NoFields, mapping)

\* int() and float() raise for what is not a numeral; an unknown type is left.
Converts(type, v) == type \in {"integer", "float"} => IsNumeric(v)
Convert(type, v) == CASE type \in {"integer", "float"} -> Number(AsNumber(v))
                      [] type = "string" -> Text(Str(v))
                      [] OTHER -> v

\* threshold is what the filter text has after its last ">": an integer,
\* "none" when it has no ">", "text" when int() cannot read it.
OverThreshold(threshold, items) ==
    FoldLeft(LAMBDA acc, x : IF x.number > threshold.number THEN Append(acc, x) ELSE acc,
             <<>>, items)

\* The comprehension goes through any list, text or dict; what a text or a dict
\* gives is not comparable with a number, so these pass only when they are empty.
Comparable(v) ==
    \/ v.kind = "list" /\ \A i \in DOMAIN v.items : v.items[i].kind = "number"
    \/ v.kind = "text" /\ v.tokens = <<>>
    \/ v.kind = "dict" /\ DOMAIN v.fields = {}

Elements(v) == IF v.kind = "list" THEN v.items ELSE <<>>

HasItems(v) == IsDict(v) /\ "items" \in DOMAIN v.fields

Filtered(threshold, items) ==
    Adapted(Dict([k \in {"items"} |-> List(OverThreshold(threshold, Elements(items)))]),
            Len(Elements(items)))

Filter(threshold, v) ==
    IF ~HasItems(v) THEN Adapted(v, 1)
    ELSE CASE threshold.kind = "none" -> Adapted(v, 0)
           [] threshold.kind = "number" /\ Comparable(v.fields["items"]) ->
                 Filtered(threshold, v.fields["items"])
           [] OTHER -> Raised

\* config is the mapping, the conversions or the threshold the type reads.
Adapt(type, config, v) ==
    LET size == Cardinality(DOMAIN v.fields)
    IN CASE type \in {"field_mapping", "type_conversion", "aggregation"} /\ ~IsDict(v) ->
               Adapted(v, 0)
         [] type = "field_mapping" /\ IsDict(v) ->
               Adapted(Dict(MapFields(config, v.fields)), size)
         [] type = "type_conversion" /\ IsDict(v) ->
               IF \A k \in DOMAIN config \cap DOMAIN v.fields : Converts(config[k], v.fields[k])
               THEN Adapted(Dict([k \in DOMAIN v.fields |->
                        IF k \in DOMAIN config THEN Convert(config[k], v.fields[k])
                        ELSE v.fields[k]]), size)
               ELSE Raised
         [] type = "aggregation" /\ IsDict(v) ->
               Adapted(Dict([k \in {"aggregated"} |-> Number(size)]), size)
         [] type = "filtering" -> Filter(config, v)
         [] OTHER -> Adapted(v, 1)

----------------------------------------------------------------------------
(* Triggers fill the context variables; tools and agents are placeholders  *)
(* that answer whatever identifier they are given.                         *)

Payload(payload, k) == IF k \in DOMAIN payload THEN payload[k] ELSE "unknown"

Trigger(type, payload) ==
    CASE type = "webhook" -> [trigger_source |-> type, webhook_payload |-> payload]
      [] type = "schedule" -> [trigger_source |-> type,
                               schedule_id |-> Payload(payload, "schedule_id")]
      [] OTHER -> [trigger_source |-> type, user_id |-> Payload(payload, "user_id")]

----------------------------------------------------------------------------
(* pre_process and process of each class.                                  *)

Strategies == {"merge", "list", "reduce", "custom"}
TransformationTypes ==
    {"field_mapping", "type_conversion", "aggregation", "filtering", "custom"}
TriggerTypes == {"schedule", "webhook", "manual"}

\* What model_validate of each input schema lets through.
ToolTakes(input) == input.timeout_seconds \in 1..300
AgentTakes(input) == input.max_tokens \in 1..128000
AdapterTakes(input) == input.transformation \in TransformationTypes
TriggerTakes(input) == input.trigger \in TriggerTypes
AggregatorTakes(input) == input.strategy \in Strategies

\* pre_process; the conditions have no format that is checked.
Valid(type, input) ==
    CASE type = "tool" -> ToolTakes(input)
      [] type = "agent" -> AgentTakes(input)
      [] type = "adapter" -> AdapterTakes(input)
      [] type = "trigger" -> TriggerTakes(input)
      [] type = "aggregator" -> AggregatorTakes(input)
      [] OTHER -> TRUE

CallTool(input) == [tool_id |-> input.tool_id, executed |-> TRUE]
CallAgent(input) == [agent_id |-> input.agent_id, model_used |-> "placeholder"]

Process(type, input) ==
    CASE type = "condition" -> Returned(SelectBranch(input.conditions))
      [] type = "aggregator" -> Aggregate(input.strategy, input.operation, input.sources)
      [] type = "adapter" -> Adapt(input.transformation, input.config, input.data)
      [] type = "trigger" -> Returned(Trigger(input.trigger, input.payload))
      [] type = "tool" -> Returned(CallTool(input))
      [] OTHER -> Returned(CallAgent(input))
=============================================================================

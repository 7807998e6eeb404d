--------------------------- MODULE MCNodeProcessor ---------------------------
(* Two concurrent calls of one processor, of every registered type or of a   *)
(* class of the application, and small inputs of every kind.                 *)
EXTENDS NodeProcessor

Symmetry == Permutations(Call)

One == Number(1)
Seven == Number(7)
Word == Text(<<"word">>)
Three == Text(<<"3">>)
AB == Dict([a |-> One, b |-> Seven])
BC == Dict([b |-> Word, c |-> Three])
Pair == List(<<Seven, One>>)
Numbers == List(<<Seven, One, Number(4), Number(3)>>)

Conditions == [name : {"low"}, target : {"n1", ""}, value : {"true", "false", "error"}]

Sources == {<<>>, <<One, Seven>>, <<One, Word>>, <<AB, BC>>, <<BC, One, AB>>, <<Pair, Word>>}

Config1 == {<<<<"a", "x">>, <<"b", "y">>>>, <<<<"a", "x">>, <<"b", "x">>, <<"z", "y">>>>}
Config2 == {[a |-> "string", b |-> "integer"], [c |-> "float", z |-> "integer"]}
Config3 == {[kind |-> "none"], [kind |-> "text"], [kind |-> "number", number |-> 3]}
Data == {AB, BC, Pair}
        \cup {Dict([items |-> v]) : v \in {Numbers, List(<<Word>>), One, Word,
                                          Text(<<>>), Dict(NoFields)}}

MCInput ==
    [condition |-> {[conditions |-> cs] : cs \in {<<>>} \cup Conditions \X Conditions},
     aggregator |-> [strategy : {"merge", "list", "custom", "other"}, operation : {"sum"},
                     sources : Sources]
                    \cup [strategy : {"reduce"}, sources : Sources,
                          operation : {"sum", "concatenate", "average", "other"}],
     adapter |-> [transformation : {"field_mapping"}, config : Config1, data : Data]
                 \cup [transformation : {"type_conversion"}, config : Config2, data : Data]
                 \cup [transformation : {"filtering"}, config : Config3, data : Data]
                 \cup [transformation : {"aggregation", "custom", "other"},
                       config : {<<>>}, data : Data],
     trigger |-> [trigger : TriggerTypes \cup {"other"},
                  payload : {[user_id |-> "u"], [schedule_id |-> "s"]}],
     tool |-> [tool_id : {"t"}, timeout_seconds : {0, 1, 300, 301}],
     agent |-> [agent_id : {"a"}, max_tokens : {0, 1, 128000, 128001}]]
=============================================================================

------------------------------ MODULE MCLoader ------------------------------
(***************************************************************************)
(* Schemas of every keyword, alone and nested once, with references that   *)
(* are local, nested, recursive, dangling and remote; and crews of up to   *)
(* three agents or three tasks, with names that clash with roles and names *)
(* that look like indices.                                                 *)
(***************************************************************************)
EXTENDS Loader, FiniteSetsExt, TLC

MCAtoi == "0" :> 0 @@ "1" :> 1 @@ "2" :> 2 @@ "-1" :> -1
MCParseFloat == "0" :> 0 @@ "1" :> 2 @@ "2" :> 4 @@ "-1" :> -2
MCPatterns == "x+" :> {"x", "xx"}
MCFormats == "date" :> {"1"}
MCPointers ==
    "#" :> <<>> @@ "#/$defs/a" :> <<"$defs", "a">> @@ "#/$defs/b" :> <<"$defs", "b">>
      @@ "#/anyOf/0" :> <<"anyOf", "0">> @@ "#/shared" :> <<"shared">> @@ "#/$defs/none" :> <<"$defs", "none">>

Ref(p) == Object("$ref" :> String(p))
With(schema, f) == Object(schema.object @@ f)

Values ==
    {[null |-> TRUE], Boolean(TRUE), Number(1), Number(2), [number |-> 3], String("x"), String("xyz"), String("1"),
     Array(<<>>), Array(<<Number(1), Number(1)>>), Array(<<Number(1), String("x")>>),
     Object(<<>>), Object([x |-> Number(1)]), Object([x |-> Number(2), y |-> String("x")]),
     Object([x |-> Object([x |-> Number(1)])])}

Kw(k, v) == Object(k :> v)
Plain ==
    {Boolean(TRUE), Boolean(FALSE), [null |-> TRUE], Number(1)}
      \cup {Typed(t) : t \in {"object", "array", "string", "number", "integer", "boolean", "null", "any"}}
      \cup {Kw("type", Array(<<String("string"), String("integer")>>)), Kw("enum", Array(<<Number(1), String("x")>>)),
            Kw("const", Object([x |-> Number(1)])), Kw("uniqueItems", Boolean(TRUE)), Kw("required", Array(<<String("y")>>))}
      \cup {Kw(k, n) : k \in {"minLength", "maxLength", "minItems", "maxItems", "minProperties", "maxProperties",
                              "minimum", "maximum", "exclusiveMinimum", "exclusiveMaximum"},
                       n \in {Number(1), String("2")}}
      \cup {Object([minimum |-> Number(1), exclusiveMinimum |-> Boolean(b), maximum |-> Number(2),
                    exclusiveMaximum |-> Boolean(TRUE)]) : b \in BOOLEAN}
      \cup {Kw("pattern", String(p)) : p \in {"x+", "(", ""}}
      \cup {Object([pattern |-> String("("), format |-> String(f)]) : f \in {"date", "unknown"}}
      \cup {Kw("format", String("date"))}

Parts == {Boolean(FALSE), Typed("integer"), Kw("minimum", Number(2)), Kw("required", Array(<<String("x")>>)), Typed("string")}
Nested ==
    {Kw(k, p) : k \in {"not", "items", "additionalProperties"}, p \in Parts}
      \cup {Kw(k, Array(<<p, q>>)) : k \in {"allOf", "anyOf", "oneOf"}, p, q \in Parts}
      \cup {Object([if |-> p, then |-> q, else |-> r]) : p, q, r \in Parts \ {Boolean(FALSE)}}
      \cup {Object([properties |-> Object([x |-> p]), additionalProperties |-> q]) : p, q \in Parts \ {Boolean(FALSE)}}

\* $defs of two schemas; the root refers to them, to itself, to nothing, and outside.
Defs(a, b) == [k \in {"$defs"} |-> Object([a |-> a, b |-> b])]
Targets == {Ref("#/$defs/a"), Ref("#/$defs/b"), Ref("#"), Ref("#/$defs/none"), Ref("http://x/y"), Kw("$ref", Number(1))}
Referring ==
    {With(r, Defs(a, Typed("integer"))) :
        r \in Targets \cup {Object([allOf |-> Array(<<s, t>>)]) : s, t \in Targets}
                \cup {Kw("not", t) : t \in Targets}
                \cup {Object([anyOf |-> Array(<<Typed("string"), t>>)]) : t \in Targets \cup {Ref("#/anyOf/0")}}
                \cup {With(t, "minimum" :> Number(2)) : t \in Targets},
        a \in {Typed("integer"), Ref("#/$defs/b"), Ref("#/$defs/a"), Kw("minimum", Number(2)),
               Object([properties |-> Object([x |-> Ref("#/$defs/b"), y |-> Ref("#/$defs/b")])])}}
      \cup {Object([properties |-> Object([x |-> Ref("#")])])}

Strict == {Kw("contains", Typed("integer")), Object([properties |-> Object([contains |-> Kw("propertyNames", Boolean(TRUE))])])}

Answer(s, v) == [schema |-> s, value |-> v, strict |-> s \in Strict]
MCAnswers == {Answer(s, v) : s \in Plain \cup Nested \cup Referring \cup Strict, v \in Values}

\* Schemas for the statements of the docs that do not hold.
Outside ==
    {Object([properties |-> Object([x |-> Boolean(FALSE)])]),
     With(Ref("#/shared"), "shared" :> Kw("contains", Typed("integer"))), Ref("http://x/y")}
MCOutside == {[schema |-> s, value |-> v, strict |-> TRUE] : s \in Outside, v \in Values}

-----------------------------------------------------------------------------
Given(f) == [k \in {x \in DOMAIN f : f[x] # ""} |-> String(f[k])]
Agent(name, role) == Object(Given([name |-> name, role |-> role]))
Task(name, agent, context) ==
    Object(Given([name |-> name, agent |-> agent, description |-> "d"])
             @@ [k \in IF context = <<>> THEN {} ELSE {"context"} |-> Array(context)])
Crew(as, ts) == Object([agents |-> Array(as), tasks |-> Array(ts)])
Doc1(json) == [json |-> json, bytes |-> 1, pointed |-> FALSE]

SeqsUpTo(S, n) == UNION {[1..k -> S] : k \in 0..n}

\* Names and roles that clash.
AgentDocs ==
    {Doc1(Crew(as, <<Task("", who, <<>>)>>)) :
        as \in SeqsUpTo({Agent(n, r) : n \in {"", "w", "e"}, r \in {"w", "e"}}, 3), who \in {"", "w", "e"}}

\* Contexts by name and by index: tasks called 1 and 2, cycles, a task in its own context.
TaskDocs ==
    {Doc1(Crew(<<Agent("w", "e")>>, ts)) :
        ts \in SeqsUpTo({Task(n, "", c) : n \in {"", "a", "1"},
                           c \in {<<>>, <<String("a")>>, <<String("1")>>, <<Number(0)>>, <<Number(1), String("a")>>}}, 3)}

\* One thing wrong, or unusual.
Base == [name |-> String("w"), role |-> String("e")]
Work == [description |-> String("d")]
OddDocs ==
    LET config(a, t, more) == Object([agents |-> Array(<<Object(a)>>), tasks |-> Array(<<Object(t)>>)] @@ more)
        meta2(k, v) == "crew" :> Object(k :> v)
        agent(k, v) == config((k :> v) @@ Base, Work, <<>>)
        task(k, v) == config(Base, (k :> v) @@ Work, <<>>)
    IN  {agent("role", String(r)) : r \in {"", " "}} \cup {agent("llm", String(l)) : l \in {"echo", "gone"}}
          \cup {agent(k, v) : k \in {"tools"}, v \in {Array(<<String(t)>>) : t \in {"calc", "gone", ""}} \cup {String("calc")}}
          \cup {agent("max_iterations", n) : n \in {Number(2), [number |-> 3], Number(-1)}} \cup {agent("unknown", Number(1))}
          \cup {task("description", String(d)) : d \in {"", " "}} \cup {task("agent", String(a)) : a \in {"w", "e", "gone"}}
          \cup {task("guardrail", String(g)) : g \in {"ok", "gone"}} \cup {task("tools", Array(<<String(t)>>)) : t \in {"gone", ""}}
          \cup {task("context", Array(<<c>>)) : c \in {String(""), String("gone"), String("-1"), String("2"), Number(2),
                                                      [number |-> 1], [null |-> TRUE], Number(0)}}
          \cup {config(Base, Work, meta2("process", String(p))) : p \in {"sequential", "hierarchical", "dag", "staged", "odd"}}
          \cup {config(Base, Work, meta2("manager_llm", String(m))) : m \in {"echo", "gone"}}
          \cup {config(Base, Work, meta2("manager_agent", String(m))) : m \in {"w", "e", "gone"}}
          \cup {config(Base, Work, meta2("guardrails", Array(<<String(g)>>))) : g \in {"ok", "gone", ""}}
          \cup {config(Base, Work, meta2("async_max_workers", Number(2))), Object(<<>>), Number(1),
                Object([agents |-> Array(<<>>), tasks |-> Array(<<>>)])}

MCDocuments ==
    AgentDocs \cup TaskDocs
      \cup {[json |-> j, bytes |-> n, pointed |-> p] : j \in OddDocs, n \in {1, 3}, p \in BOOLEAN}

AllKeys == DOMAIN agentSchema.object["properties"].object \cup DOMAIN taskSchema.object["properties"].object
             \cup DOMAIN metaSchema.object["properties"].object \cup {"agents", "tasks", "crew", "x", "y", "contains"}
MCOrders == LET some == FoldSet(LAMBDA k, seq : Append(seq, k), <<>>, AllKeys) IN {some, Reverse(some)}
=============================================================================

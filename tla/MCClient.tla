------------------------------ MODULE MCClient ------------------------------
EXTENDS Client

T == Number("bool", 1)
N(n) == Number("int", n)
S(n) == Number("str", n)
F(n) == Number("float", n)
B == Octets("bytes", <<5, 131>>)
Dict(tag, items) == Value("dict", tag, 0, <<>>, 0, items)
BitDict == Value("dict", "bit_string", 0, <<131>>, 2, <<>>)
Pair == Value("tuple", "bits", 0, <<131>>, 7, <<>>)
EmptyPadded == Value("tuple", "bits", 0, <<>>, 3, <<>>)
Composite == Dict("structure", <<F(3), Whole("list", <<BitDict, N(-4)>>)>>)

MCPyValues ==
    {T, N(1), N(-4), N(12), S(1), F(3), B, BitDict, Pair, EmptyPadded, Composite,
     Whole("list", <<BitDict, N(-4)>>), Dict("uint", <<N(12)>>)}

MCMmsValues ==
    ({Generic[p] : p \in MCPyValues} \cup
     {WriteAs("bit_string", Pair)}) \ {Refused}

Plan_(kind, want, targets, values) ==
    [kind |-> kind, want |-> want, targets |-> targets, values |-> values]

MCPlans ==
    {Plan_("write", "object", <<"a">>, <<v>>) :
            v \in {Composite, Dict("uint", <<N(12)>>)}}
    \cup {Plan_("write", "bit_string", <<"a">>, <<v>>) : v \in {Pair, EmptyPadded}}
    \cup {Plan_("read", w, <<"a">>, <<>>) : w \in {"object", "int64", "bit_string", "invalid"}}
    \cup {Plan_("read_objects", "object", <<"a", "b">>, <<>>),
          Plan_("get_values", "object", <<>>, <<>>),
          Plan_("get_marked", "object", <<>>, <<>>),
          Plan_("set_values", "object", <<>>, <<F(3), T>>),
          Plan_("gocb", "object", <<"b", "a">>, <<T, S(1)>>),
          Plan_("create", "object", <<"b">>, <<>>),
          Plan_("delete", "object", <<>>, <<>>),
          Plan_("query", "object", <<>>, <<>>),
          Plan_("disconnect", "object", <<>>, <<>>),
          Plan_("abort", "object", <<>>, <<>>)}

MCInitial == [o \in {"a", "b"} |-> IF o = "a" THEN N(1) ELSE T]
MCMembers == <<"a", "b">>

MCDepth[v \in MCPyValues \cup MCMmsValues] ==
    LET parts == {MCDepth[v.items[i]] : i \in DOMAIN v.items}
    IN  IF parts = {} THEN 0
        ELSE 1 + CHOOSE n \in parts : \A k \in parts : k <= n

\* What the theorems about values assume of them, and what follows.
ASSUME ValuesAreNested == NestedWithin(MCDepth, 3) /\ OwnTypes
ASSUME ValuesAreKept == RoundTrip
=============================================================================

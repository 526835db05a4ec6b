------------------------- MODULE MCAttributeAccess -------------------------
EXTENDS AttributeAccess

Attr(ld, name, fc) == [ld |-> ld, name |-> name, fc |-> fc]
Raised(code, n) == Value("raised", code, n, <<>>, 0, <<>>)
Bool(n) == Number("bool", n)

MCModel == <<Attr("LD1", "x", "CF"), Attr("LD1", "x", "ST")>>
\* Two logical devices with a node of the same name.
MCTwins == <<Attr("LD1", "x", "ST"), Attr("LD2", "x", "ST")>>

MCPyValues ==
    LET plain == {None, Bool(0), Bool(1), Number("int", 3), Number("int", 12),
                  Number("str", 4)}
    IN  plain \cup {Whole("list", <<p>>) : p \in plain}

Singles == {Number("Float32", n) : n \in {0, 2}}
MCMmsValues ==
    ({Generic[p] : p \in MCPyValues} \ {Refused}) \cup Singles \cup
    {Whole("Array", <<m>>) : m \in Singles \cup {Number("Float32", 12)}} \cup
    {Number("Float32", 12), Number("Integer", 0), Number("Integer", 2)}
MCDefaults == [a \in Attributes |->
    IF a.fc = "ST" THEN Whole("Array", <<Number("Float32", 0)>>)
    ELSE Number("Integer", 0)]
MCSent == {Number("Integer", 2), Whole("Array", <<Number("Float32", 12)>>)}
MCReturns == {None, Bool(0), Bool(1), Number("int", 3), Number("str", 4),
              Number("int", 12), Raised("HardwareFault", 0),
              Raised("number", 12)}
MCUpdates == {Whole("list", <<p>>) : p \in {Number("int", 3), Number("str", 4)}}
=============================================================================

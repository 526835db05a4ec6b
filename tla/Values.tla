------------------------------ MODULE Values ------------------------------
(***************************************************************************)
(* The conversions between Python values and MMS values. Both are records  *)
(* of one form: a type, for a tagged dict its tag, a number (a truth       *)
(* value, an integer, a float or a name for a string), octets with the     *)
(* padding of a bit string, and components. Integers have IntBits bits,    *)
(* and every second float has an exact single-precision form.              *)
(***************************************************************************)
EXTENDS Integers, Sequences

CONSTANTS
    IntBits,    \* width of i64 and u64
    PyValues,   \* Python values that occur, components included
    MmsValues   \* MMS values that occur, components included

ASSUME WidthAssumption == IntBits \in Nat \ {0}
ASSUME ClosedAssumption ==
    \A V \in {PyValues, MmsValues} : \A v \in V :
        \A i \in DOMAIN v.items : v.items[i] \in V

Value(type, tag, num, octets, padding, items) ==
    [type |-> type, tag |-> tag, num |-> num, octets |-> octets,
     padding |-> padding, items |-> items]

Number(type, n) == Value(type, "", n, <<>>, 0, <<>>)
Octets(type, octets) == Value(type, "", 0, octets, 0, <<>>)
Whole(type, items) == Value(type, "", 0, <<>>, 0, items)

\* Stands for the exception a conversion raises.
Refused == Number("refused", 0)

Signed == -(2^(IntBits - 1)) .. 2^(IntBits - 1) - 1
Unsigned == 0 .. 2^IntBits - 1

\* The single-precision neighbour of a float.
Narrow(n) == 2 * (n \div 2)

Strings == {"VisibleString", "MmsString"}
Floats == {"Float32", "Float64"}

\* A Python value has what its type has, and nothing else: a tag is a
\* dict's or a pair's, and a bit string is a pair or a dict.
PyForm(p) ==
    LET bits == p.tag \in {"bit_string", "bits"}
        composite == p.type \in {"list", "tuple", "dict"}
        octets == p.type \in {"bytes", "bytearray"}
    IN  /\ p = Value(p.type, p.tag, p.num, p.octets, p.padding, p.items)
        /\ p.num \in Int /\ p.octets \in Seq(0..255) /\ p.padding \in Int
        /\ p.items \in Seq(PyValues)
        /\ p.tag # "" => p.type \in {"tuple", "dict"}
        /\ p.num # 0 => ~composite /\ ~octets
        /\ p.octets # <<>> => octets \/ bits
        /\ p.padding # 0 => bits
        /\ p.items # <<>> => composite /\ ~bits

MmsTypes ==
    {"Boolean", "Integer", "Unsigned", "BitString", "OctetString", "UtcTime",
     "BinaryTime", "Array", "Structure"} \cup Floats \cup Strings

MmsForm(m) ==
    /\ m.type \in MmsTypes
    /\ m.type = "BitString" => m.num = 0 /\ m.items = <<>>

ASSUME FormsAssumption ==
    /\ \A p \in PyValues : PyForm(p)
    /\ \A m \in MmsValues : MmsForm(m)

\* Values are nested n levels deep at most: a component less than its whole.
NestedWithin(depth, n) ==
    \A v \in PyValues \cup MmsValues :
        /\ depth[v] \in 0 .. n
        /\ \A i \in DOMAIN v.items : depth[v.items[i]] < depth[v]

----------------------------------------------------------------------------
\* bit_string_padding_requirement, extract_bit_string_padding
PaddingAccepted(octets, padding) ==
    /\ padding \in 0..7
    /\ octets = <<>> => padding = 0

\* *last &= 0xFF << padding
ClearUnused(octets, padding) ==
    IF octets = <<>> THEN <<>>
    ELSE [octets EXCEPT ![Len(octets)] = (@ \div 2^padding) * 2^padding]

\* A Python value p as the MMS type, whose number may need narrowing.
As(type, p) ==
    Value(type, "", IF type = "Float32" THEN Narrow(p.num) ELSE p.num,
          p.octets, 0, <<>>)

Bits(octets, padding) ==
    IF PaddingAccepted(octets, padding)
    THEN Value("BitString", "", 0, ClearUnused(octets, padding), padding, <<>>)
    ELSE Refused

\* The variant each tag of a dict {"type": tag, "value": ...} selects.
TagType ==
    [bool |-> "Boolean", int |-> "Integer", uint |-> "Unsigned",
     float32 |-> "Float32", float64 |-> "Float64",
     visible_string |-> "VisibleString", mms_string |-> "MmsString",
     octet_string |-> "OctetString", utc_time |-> "UtcTime",
     binary_time |-> "BinaryTime"]

\* What extract() takes from p for the variant: a bool is a Python int. The
\* lists of small integers it takes for octets do not occur here.
Extracts(type, p) ==
    \/ type = "Boolean" /\ p.type = "bool"
    \/ type = "Integer" /\ p.type \in {"int", "bool"} /\ p.num \in Signed
    \/ type = "Unsigned" /\ p.type \in {"int", "bool"} /\ p.num \in Unsigned
    \/ type \in Floats /\ p.type \in {"float", "int", "bool"}
    \/ type \in Strings /\ p.type = "str"
    \/ /\ p.type \in {"bytes", "bytearray"}
       /\ \/ type = "OctetString"
          \/ type = "UtcTime" /\ Len(p.octets) = 8
          \/ type = "BinaryTime" /\ Len(p.octets) \in {4, 6}

\* tagged_value_to_mms_value, but for the components of a structure.
Tagged(d) ==
    IF d.tag = "bit_string" THEN Bits(d.octets, d.padding)
    ELSE IF /\ d.tag \in DOMAIN TagType
            /\ Len(d.items) = 1 /\ Extracts(TagType[d.tag], d.items[1])
    THEN As(TagType[d.tag], d.items[1])
    ELSE Refused

\* py_value_to_mms_value_generic: a list is an array and only a tagged
\* dict makes a structure; one refused component refuses the whole. parts
\* are the components, converted.
GenericOf(p, parts) ==
    LET AllAs(type) == IF \E i \in DOMAIN parts : parts[i] = Refused
                       THEN Refused ELSE Whole(type, parts)
    IN  CASE p.type = "bool" -> As("Boolean", p)
          [] p.type = "float" -> As("Float32", p)
          [] p.type = "int" /\ p.num \in Signed -> As("Integer", p)
          [] p.type = "str" -> As("VisibleString", p)
          [] p.type \in {"bytes", "bytearray"} -> As("OctetString", p)
          [] p.type = "list" -> AllAs("Array")
          [] p.type = "dict" /\ p.tag = "structure" -> AllAs("Structure")
          [] p.type = "dict" /\ p.tag # "structure" -> Tagged(p)
          [] OTHER -> Refused

Generic[p \in PyValues] ==
    GenericOf(p, [i \in DOMAIN p.items |-> Generic[p.items[i]]])

\* What a plain value must be to become the variant a leaf holds: an
\* integer is not a bool, and octets are bytes and nothing else.
Fits(type, p) ==
    /\ Extracts(type, p) \/ type = "BinaryTime"
    /\ type \in {"Integer", "Unsigned"} => p.type = "int"
    /\ type \in {"OctetString", "UtcTime", "BinaryTime"} => p.type = "bytes"

\* py_value_to_mms_value_shaped: p in the shape of the attribute whose
\* value is m. A dict of member names is tagged "members", its items in
\* model order, and the pair (data, padding) is a tuple tagged "bits".
Shaped[p \in PyValues, m \in MmsValues] ==
    LET aligned == /\ \/ p.type \in {"list", "tuple"}
                      \/ m.type = "Structure" /\ p.tag = "members"
                   /\ Len(p.items) = Len(m.items)
        parts == [i \in DOMAIN m.items |-> Shaped[p.items[i], m.items[i]]]
    IN  CASE m.type \in {"Array", "Structure"} ->
                IF aligned /\ \A i \in DOMAIN parts : parts[i] # Refused
                THEN Whole(m.type, parts) ELSE Refused
          [] p.type = "dict" /\ p.tag = "default" -> Number(m.type, 0)
          [] p.type = "dict" -> Generic[p]
          [] m.type = "BitString" /\ p.tag = "bits" -> Bits(p.octets, p.padding)
          [] Fits(m.type, p) -> As(m.type, p)
          [] OTHER -> Refused

\* The Python type a variant surfaces as.
PyType(type) ==
    CASE type = "Boolean" -> "bool"
      [] type \in {"Integer", "Unsigned"} -> "int"
      [] type \in Floats -> "float"
      [] type \in Strings -> "str"
      [] type \in {"Array", "Structure"} -> "list"
      [] OTHER -> "bytes"

\* mms_value_to_pyobject: padding and the kind of a composite are lost.
ToPyOf(m, parts) == Value(PyType(m.type), "", m.num, m.octets, 0, parts)

ToPy[m \in MmsValues] ==
    ToPyOf(m, [i \in DOMAIN m.items |-> ToPy[m.items[i]]])
=============================================================================

--------------------------------- MODULE Eds ---------------------------------
(***************************************************************************)
(* Electronic data sheets (host/src/eds.rs): INI lines, already trimmed    *)
(* and lower-cased, the expressions in them, and the object a section      *)
(* describes.                                                              *)
(***************************************************************************)
EXTENDS ObjectDictionary, SequencesExt

-----------------------------------------------------------------------------
(* Lines and terms                                                         *)

\* A section is an object's, by index and, unless it is None, subindex, or
\* one with a title.
None == -1
ObjectName(index, sub) == [object |-> TRUE, index |-> index, sub |-> sub]
Title(title) == [object |-> FALSE, title |-> title]

Section(name) == [kind |-> "section", name |-> name]
Pair(key, value) == [kind |-> "pair", key |-> key, value |-> value]

\* A comment, an empty line, or one that is neither a section nor a pair.
Other == [kind |-> "other"]

\* The text of a value is a sum of terms.
Number(n) == [kind |-> "number", n |-> n, text |-> ""]
NodeIdTerm == [kind |-> "nodeid", n |-> 0, text |-> ""]
Word(text) == [kind |-> "word", n |-> 0, text |-> text]

\* The lines there may be: names as parse_object_section reads them, a u16 and a u8.
IsName(name) ==
    IF name.object
    THEN /\ name = ObjectName(name.index, name.sub)
         /\ name.index \in Nat /\ name.index < 2 ^ 16
         /\ name.sub \in Int /\ None <= name.sub /\ name.sub < 2 ^ 8
    ELSE name = Title(name.title)
IsTerm(term) == \/ term = NodeIdTerm
                \/ term = Number(term.n) /\ term.n \in Int
                \/ term = Word(term.text)
IsLine(line) ==
    \/ line = Other
    \/ line.kind = "section" /\ line = Section(line.name) /\ IsName(line.name)
    \/ /\ line.kind = "pair" /\ line = Pair(line.key, line.value)
       /\ DOMAIN line.value = 1..Len(line.value) /\ Len(line.value) \in Nat
       /\ \A i \in DOMAIN line.value : IsTerm(line.value[i])

-----------------------------------------------------------------------------
(* parse_ini                                                               *)

\* Fault: a section that comes again starts anew.
OpenAnew(sections, name) ==
    [s \in DOMAIN sections \cup {name} |-> IF s = name THEN <<>> ELSE sections[s]]
Open(sections, name) ==
    [s \in DOMAIN sections \cup {name} |->
        IF s \in DOMAIN sections THEN sections[s] ELSE <<>>]

PutField(fields, key, value) ==
    [k \in DOMAIN fields \cup {key} |-> IF k = key THEN value ELSE fields[k]]

\* A field of a section, or `default`.
Field(fields, key, default) == IF key \in DOMAIN fields THEN fields[key] ELSE default

-----------------------------------------------------------------------------
(* Values                                                                  *)

\* eval_int_expr.
IsExpression(terms) == \A i \in DOMAIN terms : terms[i].kind # "word"
Evaluate(terms, node) ==
    FoldLeft(LAMBDA sum, t : sum + (IF t.kind = "nodeid" THEN node ELSE t.n), 0, terms)

\* DataType::from_index for the types of the data sheets here; `Unmodelled` for
\* an index that is no data type's.
Unmodelled == "Unmodelled"
FromIndex(index) ==
    CASE index = 1 -> "Boolean"
      [] index = 2 -> "Integer8"
      [] index = 3 -> "Integer16"
      [] index = 5 -> "Unsigned8"
      [] index = 6 -> "Unsigned16"
      [] index = 8 -> "Real32"
      [] index = 9 -> "VisibleString"
      [] index \notin 1..27 -> Unmodelled

Numeric(n) == [n |-> n, text |-> <<>>]
Text(terms) == [n |-> 0, text |-> terms]

\* value_from_str: whether the text is a value of the type, and which.  Only
\* integers are expressions; they are cut to the width of the type.
IsValueText(type, terms) ==
    CASE type = "VisibleString" -> TRUE
      [] type = "Real32" -> terms = <<>> \/ (Len(terms) = 1 /\ terms[1].kind = "number")
      [] OTHER -> IsExpression(terms)

\* The low bits as a two's complement number.
SignExtended(n, bits) == ((n + 2 ^ (bits - 1)) % 2 ^ bits) - 2 ^ (bits - 1)
FromText(type, terms, node) ==
    CASE type = "VisibleString" -> Text(terms)
      [] type = "Real32"        -> Numeric(Evaluate(terms, 0))
      [] type = "Boolean"       -> Numeric(IF Evaluate(terms, node) = 0 THEN 0 ELSE 1)
      [] type = "Integer8"      -> Numeric(SignExtended(Evaluate(terms, node), 8))
      [] type = "Integer16"     -> Numeric(SignExtended(Evaluate(terms, node), 16))
      [] type = "Unsigned8"     -> Numeric(Evaluate(terms, node) % 2 ^ 8)
      [] type = "Unsigned16"    -> Numeric(Evaluate(terms, node) % 2 ^ 16)

-----------------------------------------------------------------------------
(* Objects                                                                 *)

\* parse_object_section.
AddressOf(name) == Address(name.index, IF name.sub = None THEN 0 ELSE name.sub)

\* The elements of a finite set in an order: at i, the one with i - 1 before it.
\* (SetToSortSeq rests on operators the proofs cannot unfold.)
Ordered(S, Before(_, _)) ==
    [i \in 1..Cardinality(S) |->
        CHOOSE x \in S : Cardinality({y \in S : Before(y, x)}) = i - 1]

\* The order of the names as text: subindices are hexadecimal there.
HexDigits(sub) == IF sub < 16 THEN <<sub, None>> ELSE <<sub \div 16, sub % 16>>
NameBefore(a, b) ==
    IF a.object /\ b.object
    THEN a.index < b.index
         \/ (a.index = b.index /\ Precedes(HexDigits(a.sub), HexDigits(b.sub)))
    ELSE a.object /\ ~b.object

\* The node-id of the DeviceComissioning section, by either spelling, for
\* `$NODEID`; None if it has none.
NodeId(sections) ==
    LET first == IF Title("devicecomissioning") \in DOMAIN sections
                 THEN Title("devicecomissioning") ELSE Title("devicecommissioning")
        terms == IF first \in DOMAIN sections THEN Field(sections[first], "nodeid", <<Word("")>>)
                 ELSE <<Word("")>>
    IN IF IsExpression(terms) /\ Evaluate(terms, 0) \in 0..255 THEN Evaluate(terms, 0) ELSE None

ForExpressions(nodeId) == IF nodeId = None THEN 0 ELSE nodeId

\* Fault: the default goes before the configured value.
DefaultFirst(fields) == Field(fields, "defaultvalue", Field(fields, "parametervalue", <<>>))
RawValue(fields) == Field(fields, "parametervalue", Field(fields, "defaultvalue", <<>>))

AccessWords == [ro |-> "Ro", wo |-> "Wo", rw |-> "Rw", rwr |-> "Rw", rww |-> "Rw", const |-> "Const"]
RawAccess(fields) == Field(fields, "accesstype", <<Word("ro")>>)
IsAccess(terms) == Len(terms) = 1 /\ terms[1].text \in DOMAIN AccessWords
TypeOf(fields, node) == FromIndex(Evaluate(fields["datatype"], node))

\* What a section comes to: nothing, a broken file, or an object.
Describes(name, fields) == name.object /\ "datatype" \in DOMAIN fields
Broken(fields, node) ==
    \/ ~IsExpression(fields["datatype"])
    \/ /\ TypeOf(fields, node) # Unmodelled
       /\ \/ ~IsAccess(RawAccess(fields))
          \/ ~IsValueText(TypeOf(fields, node), RawValue(fields))

Description(name, fields, node) ==
    LET type == TypeOf(fields, node) IN
    [address |-> AddressOf(name),
     entry |-> Entry(type, FromText(type, RawValue(fields), node),
                     AccessWords[RawAccess(fields)[1].text])]

\* The stable sort of Eds::parse.
SortedByAddress(objects) ==
    LET Before(i, j) ==
            \/ Precedes(objects[i].address, objects[j].address)
            \/ objects[i].address = objects[j].address /\ i < j
        order == Ordered(DOMAIN objects, Before)
    IN [i \in DOMAIN objects |-> objects[order[i]]]
=============================================================================

--------------------------- MODULE DictionaryBuild ----------------------------
(***************************************************************************)
(* From a data sheet to an object dictionary, on either way: Eds::parse    *)
(* and Eds::object_dictionary at run time (host/src/eds.rs), and the       *)
(* function host/src/codegen.rs generates, compiled into the device.       *)
(***************************************************************************)
EXTENDS Eds

CONSTANTS
    Texts,      \* data sheets, as sequences of lines
    Capacity    \* of the dictionary built at run time

ASSUME DictionaryBuildAssumption ==
    /\ Capacity \in Nat
    /\ \A t \in Texts : /\ Len(t) \in Nat /\ DOMAIN t = 1..Len(t)
                       /\ \A i \in DOMAIN t : IsLine(t[i])

VARIABLES
    text,       \* the data sheet
    pos,        \* lines read
    sections,   \* parse_ini: the fields of the sections so far
    current,    \* parse_ini: the section of the next pair, or NoSection
    phase,      \* how far the parser has come
    objects,    \* Eds.objects
    od,         \* the dictionary Eds::object_dictionary builds
    built,      \* objects it has inserted
    generated,  \* the dictionary the generated function builds
    executed    \* the insertions it has executed

vars == <<text, pos, sections, current, phase, objects, od, built, generated, executed>>

NoSection == [object |-> FALSE]

Init ==
    /\ text \in Texts
    /\ pos = 0
    /\ sections = <<>>
    /\ current = NoSection
    /\ phase = "reading"
    /\ objects = <<>>
    /\ od = Empty
    /\ built = 0
    /\ generated = Empty
    /\ executed = 0

-----------------------------------------------------------------------------

\* One line of parse_ini; a pair before any section is dropped.
ReadLine ==
    /\ phase = "reading"
    /\ pos < Len(text)
    /\ pos' = pos + 1
    /\ LET line == text[pos + 1] IN
       \/ /\ line.kind = "section"
          /\ sections' = Open(sections, line.name)
          /\ current' = line.name
       \/ /\ line.kind = "pair" /\ current # NoSection
          /\ sections' = [sections EXCEPT ![current] = PutField(@, line.key, line.value)]
          /\ UNCHANGED current
       \/ /\ line.kind = "other" \/ (line.kind = "pair" /\ current = NoSection)
          /\ UNCHANGED <<sections, current>>
    /\ UNCHANGED <<text, phase, objects, od, built, generated, executed>>

\* The rest of Eds::parse.
Parse ==
    /\ phase = "reading"
    /\ pos = Len(text)
    /\ LET node == ForExpressions(NodeId(sections))
           described == {n \in DOMAIN sections : Describes(n, sections[n])}
           names == Ordered({n \in described : TypeOf(sections[n], node) # Unmodelled},
                            NameBefore)
       IN IF \E n \in described : Broken(sections[n], node)
          THEN phase' = "failed" /\ UNCHANGED objects
          ELSE /\ phase' = "parsed"
               /\ objects' = SortedByAddress(
                      [i \in DOMAIN names |-> Description(names[i], sections[names[i]], node)])
    /\ UNCHANGED <<text, pos, sections, current, od, built, generated, executed>>

\* One turn of Eds::object_dictionary.
BuildNext ==
    /\ phase = "parsed"
    /\ built < Len(objects)
    /\ LET object == objects[built + 1] IN
       IF DictionaryFull(od, object.address, Capacity)
       THEN phase' = "full" /\ UNCHANGED <<od, built>>
       ELSE /\ od' = Insert(od, object.address, object.entry)
            /\ built' = built + 1
            /\ UNCHANGED phase
    /\ UNCHANGED <<text, pos, sections, current, objects, generated, executed>>

\* The capacity in the type of the generated function; fault: off by one.
OneTooFew == Len(objects) - 1
GeneratedCapacity == Len(objects)

\* One insertion of the generated function; its unwrap panics on a full one.
ExecuteNext ==
    /\ phase \in {"parsed", "full"}
    /\ executed < Len(objects)
    /\ LET object == objects[executed + 1] IN
       IF DictionaryFull(generated, object.address, GeneratedCapacity)
       THEN phase' = "panicked" /\ UNCHANGED <<generated, executed>>
       ELSE /\ generated' = Insert(generated, object.address, object.entry)
            /\ executed' = executed + 1
            /\ UNCHANGED phase
    /\ UNCHANGED <<text, pos, sections, current, objects, od, built>>

Next == ReadLine \/ Parse \/ BuildNext \/ ExecuteNext

Spec == Init /\ [][Next]_vars

-----------------------------------------------------------------------------
(* Properties                                                              *)

\* The pairs the text so far has for a field, in whichever sections of the name.
Pairs(name, key) ==
    {i \in 1..pos : /\ text[i].kind = "pair" /\ text[i].key = key
                    /\ \E j \in 1..(i - 1) :
                          /\ text[j] = Section(name)
                          /\ \A k \in (j + 1)..i : text[k].kind # "section"}
Greatest(S) == CHOOSE i \in S : \A j \in S : j <= i
Written(name, key) == text[Greatest(Pairs(name, key))].value

Keys == {"nodeid", "datatype", "accesstype", "defaultvalue", "parametervalue"}

\* At every line the sections hold what the text so far says as a whole: a section
\* may come again, a later pair replaces an earlier one, and pairs before the
\* first section are dropped (parse_ini).
ReadAsWritten ==
    /\ DOMAIN sections = {text[i].name : i \in {j \in 1..pos : text[j].kind = "section"}}
    /\ \A name \in DOMAIN sections : \A key \in Keys :
          /\ key \in DOMAIN sections[name] <=> Pairs(name, key) # {}
          /\ key \in DOMAIN sections[name] => sections[name][key] = Written(name, key)

\* The sum of terms, with the node-id where they say so.
SumWith(terms, id) ==
    FoldLeft(LAMBDA sum, t : sum + (t.n + (IF t = NodeIdTerm THEN id ELSE 0)), 0, terms)

\* The node-id for `$NODEID`, from the section of either spelling, and the number
\* of an object, as the whole text has them.
FileNodeId ==
    LET title == IF \E i \in 1..pos : text[i] = Section(Title("devicecomissioning"))
                 THEN Title("devicecomissioning") ELSE Title("devicecommissioning")
        terms == Written(title, "nodeid")
    IN IF \/ Pairs(title, "nodeid") = {}
          \/ \E i \in DOMAIN terms : terms[i].kind = "word"
          \/ SumWith(terms, 0) \notin 0..255
       THEN 0 ELSE SumWith(terms, 0)
WrittenNumber(name) ==
    LET key == IF Pairs(name, "parametervalue") # {} THEN "parametervalue" ELSE "defaultvalue" IN
    IF Pairs(name, key) = {} THEN 0 ELSE SumWith(Written(name, key), FileNodeId)

\* The ranges of the integer types.
Signed(bits) == -(2 ^ (bits - 1))..(2 ^ (bits - 1) - 1)
Unsigned(bits) == 0..(2 ^ bits - 1)
Numbers ==
    [Integer8 |-> Signed(8), Integer16 |-> Signed(16),
     Unsigned8 |-> Unsigned(8), Unsigned16 |-> Unsigned(16)]

\* A dictionary holds for every address the number that the text gives it, cut
\* to its type and within its range: the configured value before the default one, and with the
\* node-id of the file wherever in the file that stands (value_from_str).
NumbersAsWritten ==
    \A a \in DOMAIN od :
        od[a].type \in DOMAIN Numbers =>
            /\ od[a].value.n \in Numbers[od[a].type]
            /\ \E name \in DOMAIN sections :
                  /\ name.object /\ AddressOf(name) = a
                  /\ Pairs(name, "datatype") # {}
                  /\ (od[a].value.n - WrittenNumber(name)) % 256 = 0

\* The function generated for the device never panics, and builds exactly what
\* the host builds at run time, objects described twice included
\* (generate_object_dictionary against Eds::object_dictionary).
GeneratedIsParsed ==
    /\ phase # "panicked"
    /\ phase = "parsed" /\ built = Len(objects) /\ executed = Len(objects) => generated = od

\* The run-time dictionary is too small only for more addresses than it has room
\* for; a second description of an address needs none and replaces the first
\* (ObjectDictionary::insert, Eds::object_dictionary).
FullOnlyWhenNeeded ==
    /\ phase = "full" => Cardinality({objects[i].address : i \in DOMAIN objects}) > Capacity
    /\ \A a \in DOMAIN od :
          od[a] = objects[Greatest({i \in 1..built : objects[i].address = a})].entry
=============================================================================

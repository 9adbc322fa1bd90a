-------------------------- MODULE MCDictionaryBuild ---------------------------
(* Data sheets of up to three pieces, among them: the node-id before, after  *)
(* and between the objects that refer to it, in both spellings and out of    *)
(* range; a section that comes again, one address under two names, names in  *)
(* another order than their addresses; values that overflow their type; a    *)
(* parent without a type; types, accesses and values that are not known.     *)
EXTENDS DictionaryBuild

Object(index, sub, type, fields) ==
    <<Section(ObjectName(index, sub)), Pair("datatype", <<Number(type)>>)>> \o fields
Default(terms) == <<Pair("defaultvalue", terms)>>

MCPieces == {
    <<Section(Title("devicecomissioning")), Pair("nodeid", <<Number(10)>>)>>,
    <<Section(Title("devicecommissioning")), Pair("nodeid", <<Number(300)>>)>>,
    <<Section(Title("devicecommissioning")), Pair("nodeid", <<Number(17), Number(3)>>)>>,
    <<Section(Title("devicecomissioning"))>>,
    <<Pair("parametervalue", <<Number(7)>>), Other>>,
    Object(4099, None, 5, Default(<<NodeIdTerm, Number(250)>>)),
    Object(4099, 0, 5, <<Pair("accesstype", <<Word("rww")>>)>>),
    Object(4099, 2, 6, Default(<<Number(384), NodeIdTerm>>)
                       \o <<Pair("parametervalue", <<Number(9), NodeIdTerm>>)>>),
    Object(4099, 16, 2, Default(<<Number(200)>>)),
    Object(4099, 1, 3, Default(<<Number(40000)>>)),
    Object(4120, 1, 9, Default(<<NodeIdTerm>>)),
    Object(4120, 2, 1, Default(<<Number(2)>>)),
    Object(4120, 3, 8, Default(<<Word("x")>>)),
    Object(4120, 4, 32, Default(<<Word("x")>>)),
    Object(4120, 5, 5, <<Pair("accesstype", <<Word("x")>>)>>),
    <<Section(ObjectName(4120, None)), Pair("defaultvalue", <<Word("x")>>)>>}

MCTexts == {a \o b \o c : a, b, c \in MCPieces \cup {<<>>}}
=============================================================================

----------------------------- MODULE MCSdoSystem -----------------------------
(* A dictionary with an object of each kind, and the frame sizes of the code. *)
EXTENDS SdoSystem

CONSTANTS name, flag, secret, ident, absent

MCObjects == {name, flag, secret, ident}
\* One object that needs segments and one that does not, for the wider buses.
FewObjects == {name, flag}
MCAddress == Objects \cup {absent}
MCDataType == {"VISIBLE_STRING", "UNSIGNED64", "BOOLEAN"}
MCFixedSize == [t \in MCDataType |->
    CASE t = "VISIBLE_STRING" -> 0 [] t = "UNSIGNED64" -> 8 [] t = "BOOLEAN" -> 1]
MCType == [o \in Objects |->
    CASE o = name   -> "VISIBLE_STRING"
      [] o = flag   -> "BOOLEAN"
      [] o \in {secret, ident} -> "UNSIGNED64"]
MCAccess == [o \in Objects |->
    CASE o = secret -> "Wo" [] o = ident -> "Const" [] OTHER -> "Rw"]

\* n bytes no two neighbours of which agree, so that a misplaced cut shows.
Ramp(n, b) == [i \in 1..n |-> (i + b) % 3]
\* The constant object starts with the value it would be set to.
MCInitialValue == [o \in Objects |->
    CASE o = name -> Ramp(15, 1) [] o = flag -> <<0>>
      [] o = secret -> Ramp(8, 1) [] o = ident -> Ramp(8, 2)]

\* Empty, expedited, one segment and a bit, and three segments.
MCValues == {<<>>, <<2>>, Ramp(8, 2), Ramp(15, 2)}
FewValues == {<<1>>, Ramp(15, 2)}
=============================================================================

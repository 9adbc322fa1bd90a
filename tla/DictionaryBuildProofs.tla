------------------------- MODULE DictionaryBuildProofs ------------------------
(***************************************************************************)
(* From a data sheet to a dictionary, for every data sheet and capacity:   *)
(* the sections hold what the text says, the dictionaries hold the last    *)
(* object of every address, the generated one is the one built at run      *)
(* time, and every number is the one the text gives it.                    *)
(***************************************************************************)
EXTENDS DictionaryBuild, FiniteSetTheorems, FunctionTheorems, WellFoundedInduction, TLAPS

-----------------------------------------------------------------------------
(* Induction over the natural numbers, as the least counterexample         *)

\* A set of natural numbers that is not empty has a least element.
LEMMA LeastNatural ==
    ASSUME NEW T, T \subseteq Nat, T # {}
    PROVE  \E n \in T : \A m \in T : n <= m
<1>1. \E x \in T : \A y \in T : ~(<<y, x>> \in OpToRel(<, Nat))
  BY WFMin, NatLessThanWellFounded
<1>2. ASSUME NEW x \in T, NEW y \in T, ~(<<y, x>> \in OpToRel(<, Nat)) PROVE x <= y
  BY <1>2 DEF OpToRel
<1>3. QED
  BY <1>1, <1>2

\* A set with 0 and the successor of each of its elements holds them all.
LEMMA Climb ==
    ASSUME NEW T, 0 \in T, \A n \in Nat : n \in T => n + 1 \in T
    PROVE  Nat \subseteq T
<1> SUFFICES ASSUME Nat \ T # {} PROVE FALSE
  OBVIOUS
<1>1. PICK n \in Nat \ T : \A m \in Nat \ T : n <= m
  BY LeastNatural
<1>2. n - 1 \in Nat /\ n - 1 \notin Nat \ T
  BY <1>1
<1>3. QED
  BY <1>1, <1>2

-----------------------------------------------------------------------------
(* The text, line by line                                                  *)

\* The line at or before p that opens the section of the next pair.
Latest(lines, p, name) ==
    \E j \in 1..p : /\ lines[j] = Section(name)
                    /\ \A k \in (j + 1)..p : lines[k].kind # "section"

\* Pairs over the first p lines.
PairsOf(lines, p, name, key) ==
    {i \in 1..p : /\ lines[i].kind = "pair" /\ lines[i].key = key
                  /\ \E j \in 1..(i - 1) :
                        /\ lines[j] = Section(name)
                        /\ \A k \in (j + 1)..i : lines[k].kind # "section"}

NamesOf(lines, p) == {lines[i].name : i \in {j \in 1..p : lines[j].kind = "section"}}

\* What the next pair belongs to.
CurrentIsLatest ==
    \/ current = NoSection /\ \A k \in 1..pos : text[k].kind # "section"
    \/ current # NoSection /\ Latest(text, pos, current)

ReadInv ==
    /\ text \in Texts
    /\ pos \in 0..Len(text)
    /\ CurrentIsLatest
    /\ ReadAsWritten

\* There is one latest section.
LEMMA LatestIsOne ==
    ASSUME NEW lines, NEW p \in Nat, NEW a, NEW b, Latest(lines, p, a), Latest(lines, p, b)
    PROVE  a = b
<1>1. PICK i \in 1..p : lines[i] = Section(a) /\ \A k \in (i + 1)..p : lines[k].kind # "section"
  BY DEF Latest
<1>2. PICK j \in 1..p : lines[j] = Section(b) /\ \A k \in (j + 1)..p : lines[k].kind # "section"
  BY DEF Latest
<1>3. lines[i].kind = "section" /\ lines[j].kind = "section"
  BY <1>1, <1>2 DEF Section
<1>4. i = j
  BY <1>1, <1>2, <1>3
<1>5. Section(a).name = a /\ Section(b).name = b
  BY DEF Section
<1>6. QED
  BY <1>1, <1>2, <1>4, <1>5

\* A line adds itself to the pairs of the latest section, if it is one.
LEMMA PairsGrow ==
    ASSUME NEW lines, NEW p \in Nat, NEW name, NEW key
    PROVE  \A i : i \in PairsOf(lines, p + 1, name, key) <=>
               \/ i \in PairsOf(lines, p, name, key)
               \/ /\ i = p + 1 /\ lines[p + 1].kind = "pair" /\ lines[p + 1].key = key
                  /\ Latest(lines, p, name)
<1> DEFINE In(i) == /\ lines[i].kind = "pair" /\ lines[i].key = key
                    /\ \E j \in 1..(i - 1) :
                          /\ lines[j] = Section(name)
                          /\ \A k \in (j + 1)..i : lines[k].kind # "section"
<1>1. \A q : PairsOf(lines, q, name, key) = {i \in 1..q : In(i)}
  BY DEF PairsOf
<1>2. In(p + 1) <=> /\ lines[p + 1].kind = "pair" /\ lines[p + 1].key = key
                    /\ Latest(lines, p, name)
  <2>1. (p + 1) - 1 = p
    OBVIOUS
  <2>2. ASSUME NEW j \in 1..p, lines[p + 1].kind = "pair"
        PROVE  (\A k \in (j + 1)..(p + 1) : lines[k].kind # "section")
                 <=> \A k \in (j + 1)..p : lines[k].kind # "section"
    <3>1. \A k : k \in (j + 1)..(p + 1) <=> k \in (j + 1)..p \/ k = p + 1
      OBVIOUS
    <3>2. QED
      BY <2>2, <3>1
  <2>3. QED
    BY <2>1, <2>2 DEF Latest
<1> HIDE DEF In
<1>3. \A i : i \in 1..(p + 1) <=> i \in 1..p \/ i = p + 1
  OBVIOUS
<1>4. QED
  BY <1>1, <1>2, <1>3

\* A line that is no pair of the section leaves its pairs alone.
LEMMA PairsStay ==
    ASSUME NEW lines, NEW p \in Nat, NEW name, NEW key,
           ~(lines[p + 1].kind = "pair" /\ lines[p + 1].key = key /\ Latest(lines, p, name))
    PROVE  PairsOf(lines, p + 1, name, key) = PairsOf(lines, p, name, key)
<1>1. \A i : i \in PairsOf(lines, p + 1, name, key) <=> i \in PairsOf(lines, p, name, key)
  BY PairsGrow
<1>2. /\ PairsOf(lines, p + 1, name, key) \subseteq PairsOf(lines, p, name, key)
      /\ PairsOf(lines, p, name, key) \subseteq PairsOf(lines, p + 1, name, key)
  BY <1>1
<1>3. QED
  BY <1>2

\* A line that is no section leaves the names alone.
LEMMA NamesGrow ==
    ASSUME NEW lines, NEW p \in Nat
    PROVE  \A n : n \in NamesOf(lines, p + 1) <=>
               n \in NamesOf(lines, p) \/ (lines[p + 1].kind = "section" /\ n = lines[p + 1].name)
<1>1. \A i : i \in 1..(p + 1) <=> i \in 1..p \/ i = p + 1
  OBVIOUS
<1>2. QED
  BY <1>1 DEF NamesOf

\* The last pair is the greatest.
LEMMA GreatestOfPairs ==
    ASSUME NEW S, NEW p \in Nat, S \subseteq 1..p, p \in S
    PROVE  Greatest(S) = p
<1>1. \A j \in S : j <= p
  OBVIOUS
<1>2. \A i \in S : (\A j \in S : j <= i) => i = p
  BY <1>1
<1>3. QED
  BY <1>1, <1>2 DEF Greatest

-----------------------------------------------------------------------------
(* parse_ini keeps what it has read                                        *)

\* What the sections hold of one field, of a section that is there.
FieldAsWritten(map, lines, p, name, key) ==
    /\ key \in DOMAIN map[name] <=> PairsOf(lines, p, name, key) # {}
    /\ key \in DOMAIN map[name] =>
           map[name][key] = lines[Greatest(PairsOf(lines, p, name, key))].value

\* ReadAsWritten, with what it speaks of as parameters.
AsWritten(map, lines, p) ==
    /\ DOMAIN map = NamesOf(lines, p)
    /\ \A name \in DOMAIN map : \A key \in Keys : FieldAsWritten(map, lines, p, name, key)

\* ReadAsWritten says this of the state.
LEMMA ReadAsWrittenIs == ReadAsWritten <=> AsWritten(sections, text, pos)
BY DEF ReadAsWritten, AsWritten, FieldAsWritten, NamesOf, PairsOf, Pairs, Written

\* The same after a step.
LEMMA ReadAsWrittenIsPrimed == ReadAsWritten' <=> AsWritten(sections', text', pos')
BY DEF ReadAsWritten, AsWritten, FieldAsWritten, NamesOf, PairsOf, Pairs, Written

\* A section line opens its section, empty if it is new.
LEMMA OpenReads ==
    ASSUME NEW map, NEW lines, NEW p \in Nat, AsWritten(map, lines, p),
           NEW name, lines[p + 1] = Section(name)
    PROVE  AsWritten(Open(map, name), lines, p + 1)
<1>1. lines[p + 1].kind = "section" /\ lines[p + 1].name = name /\ lines[p + 1].kind # "pair"
  BY DEF Section
<1>2. DOMAIN Open(map, name) = DOMAIN map \cup {name}
  BY DEF Open
<1>3. DOMAIN Open(map, name) = NamesOf(lines, p + 1)
  BY <1>1, <1>2, NamesGrow DEF AsWritten
<1>4. ASSUME NEW n, NEW key PROVE PairsOf(lines, p + 1, n, key) = PairsOf(lines, p, n, key)
  BY <1>1, PairsStay
<1>5. ASSUME NEW n \in DOMAIN map, NEW key \in Keys
      PROVE  FieldAsWritten(Open(map, name), lines, p + 1, n, key)
  <2>1. Open(map, name)[n] = map[n]
    BY DEF Open
  <2>2. FieldAsWritten(map, lines, p, n, key)
    BY DEF AsWritten
  <2>3. QED
    BY <1>4, <2>1, <2>2 DEF FieldAsWritten
<1>6. ASSUME name \notin DOMAIN map, NEW key \in Keys
      PROVE  FieldAsWritten(Open(map, name), lines, p + 1, name, key)
  <2>1. Open(map, name)[name] = <<>>
    BY <1>6 DEF Open
  <2>2. DOMAIN <<>> = {}
    OBVIOUS
  <2>3. PairsOf(lines, p, name, key) = {}
    <3> SUFFICES ASSUME NEW i \in PairsOf(lines, p, name, key) PROVE FALSE
      OBVIOUS
    <3>1. i \in 1..p
      BY DEF PairsOf
    <3>2. PICK j \in 1..(i - 1) : lines[j] = Section(name)
      BY DEF PairsOf
    <3>3. j \in 1..p /\ lines[j].kind = "section" /\ lines[j].name = name
      BY <3>1, <3>2 DEF Section
    <3>4. QED
      BY <1>6, <3>3 DEF AsWritten, NamesOf
  <2>4. QED
    BY <1>4, <2>1, <2>2, <2>3 DEF FieldAsWritten
<1>7. QED
  BY <1>2, <1>3, <1>5, <1>6 DEF AsWritten

\* A pair replaces the field of the latest section.
LEMMA PutReads ==
    ASSUME NEW map, NEW lines, NEW p \in Nat, AsWritten(map, lines, p),
           NEW name, Latest(lines, p, name), NEW k, NEW v, lines[p + 1] = Pair(k, v)
    PROVE  AsWritten([map EXCEPT ![name] = PutField(@, k, v)], lines, p + 1)
<1> DEFINE after == [map EXCEPT ![name] = PutField(@, k, v)]
<1>1. /\ lines[p + 1].kind = "pair" /\ lines[p + 1].kind # "section"
      /\ lines[p + 1].key = k /\ lines[p + 1].value = v
  BY DEF Pair
<1>2. name \in DOMAIN map
  <2>1. PICK j \in 1..p : lines[j] = Section(name)
    BY DEF Latest
  <2>2. lines[j].kind = "section" /\ lines[j].name = name
    BY <2>1 DEF Section
  <2>3. QED
    BY <2>1, <2>2 DEF AsWritten, NamesOf
<1>3. DOMAIN after = DOMAIN map
  OBVIOUS
<1>4. DOMAIN after = NamesOf(lines, p + 1)
  BY <1>1, <1>3, NamesGrow DEF AsWritten
<1>5. /\ after[name] = PutField(map[name], k, v)
      /\ \A n \in DOMAIN map : n # name => after[n] = map[n]
  BY <1>2
<1> HIDE DEF after
<1>6. ASSUME NEW n \in DOMAIN map, NEW key \in Keys, n # name \/ key # k
      PROVE  PairsOf(lines, p + 1, n, key) = PairsOf(lines, p, n, key)
  <2>1. ~(Latest(lines, p, n) /\ lines[p + 1].key = key)
    BY <1>1, <1>6, LatestIsOne
  <2>2. QED
    BY <2>1, PairsStay
<1>7. ASSUME NEW n \in DOMAIN map, NEW key \in Keys, n # name
      PROVE  FieldAsWritten(after, lines, p + 1, n, key)
  <2>1. FieldAsWritten(map, lines, p, n, key)
    BY DEF AsWritten
  <2>2. QED
    BY <1>5, <1>6, <1>7, <2>1 DEF FieldAsWritten
<1>8. ASSUME NEW key \in Keys, key # k
      PROVE  FieldAsWritten(after, lines, p + 1, name, key)
  <2>1. FieldAsWritten(map, lines, p, name, key)
    BY <1>2 DEF AsWritten
  <2>2. key \in DOMAIN after[name] <=> key \in DOMAIN map[name]
    BY <1>5, <1>8 DEF PutField
  <2>3. key \in DOMAIN map[name] => after[name][key] = map[name][key]
    BY <1>5, <1>8 DEF PutField
  <2>4. QED
    BY <1>2, <1>6, <1>8, <2>1, <2>2, <2>3 DEF FieldAsWritten
<1>9. FieldAsWritten(after, lines, p + 1, name, k)
  <2>1. p + 1 \in PairsOf(lines, p + 1, name, k)
    BY <1>1, PairsGrow
  <2>2. PairsOf(lines, p + 1, name, k) \subseteq 1..(p + 1)
    BY DEF PairsOf
  <2>3. Greatest(PairsOf(lines, p + 1, name, k)) = p + 1
    BY <2>1, <2>2, GreatestOfPairs
  <2>4. k \in DOMAIN after[name] /\ after[name][k] = v
    BY <1>5 DEF PutField
  <2>5. QED
    BY <1>1, <2>1, <2>3, <2>4 DEF FieldAsWritten
<1>10. \A n \in DOMAIN after : \A key \in Keys : FieldAsWritten(after, lines, p + 1, n, key)
  BY <1>3, <1>7, <1>8, <1>9
<1>11. AsWritten(after, lines, p + 1)
  BY <1>4, <1>10 DEF AsWritten
<1>12. QED
  BY <1>11 DEF after

\* Any other line, and a pair before the first section, change nothing.
LEMMA SkipReads ==
    ASSUME NEW map, NEW lines, NEW p \in Nat, AsWritten(map, lines, p),
           lines[p + 1].kind # "section",
           lines[p + 1].kind # "pair" \/ \A k \in 1..p : lines[k].kind # "section"
    PROVE  AsWritten(map, lines, p + 1)
<1>1. NamesOf(lines, p + 1) = NamesOf(lines, p)
  BY NamesGrow
<1>2. ASSUME NEW n PROVE lines[p + 1].kind # "pair" \/ ~Latest(lines, p, n)
  BY DEF Latest, Section
<1>3. ASSUME NEW n, NEW key PROVE PairsOf(lines, p + 1, n, key) = PairsOf(lines, p, n, key)
  BY <1>2, PairsStay
<1>4. QED
  BY <1>1, <1>3 DEF AsWritten, FieldAsWritten

\* A text is made of lines.
LEMMA TextHasLines ==
    ASSUME NEW t \in Texts
    PROVE  /\ Len(t) \in Nat /\ DOMAIN t = 1..Len(t)
           /\ \A i \in 1..Len(t) : IsLine(t[i])
BY DictionaryBuildAssumption

\* A named section is no NoSection.
LEMMA NamesAreSections ==
    ASSUME NEW name, IsName(name)
    PROVE  name # NoSection
<1>1. CASE name.object
  BY <1>1 DEF NoSection
<1>2. CASE ~name.object
  <2>1. name = Title(name.title)
    BY <1>2 DEF IsName
  <2>2. "title" \in DOMAIN Title(name.title) /\ "title" \notin DOMAIN NoSection
    BY DEF Title, NoSection
  <2>3. QED
    BY <2>1, <2>2
<1>3. QED
  BY <1>1, <1>2

\* Every line of parse_ini keeps what has been read as the text has it.
LEMMA ReadLineKeepsInv == ReadInv /\ ReadLine => ReadInv'
<1> SUFFICES ASSUME ReadInv, ReadLine PROVE ReadInv'
  OBVIOUS
<1>1. PICK lines : lines = text
  OBVIOUS
<1>2. PICK p : p = pos
  OBVIOUS
<1>3. PICK map : map = sections
  OBVIOUS
<1>4. lines \in Texts /\ p \in 0..Len(lines) /\ p < Len(lines)
  BY <1>1, <1>2 DEF ReadInv, ReadLine
<1>5. p \in Nat /\ p + 1 \in 1..Len(lines) /\ Len(lines) \in Nat /\ IsLine(lines[p + 1])
  BY <1>4, TextHasLines
<1>6. text' = lines /\ pos' = p + 1 /\ p + 1 \in 0..Len(lines)
  BY <1>1, <1>2, <1>5 DEF ReadLine
<1>7. AsWritten(map, lines, p)
  BY <1>1, <1>2, <1>3, ReadAsWrittenIs DEF ReadInv
<1>8. \/ current = NoSection /\ \A k \in 1..p : lines[k].kind # "section"
      \/ current # NoSection /\ Latest(lines, p, current)
  BY <1>1, <1>2 DEF ReadInv, CurrentIsLatest
<1>9. \A k : k \in 1..(p + 1) <=> k \in 1..p \/ k = p + 1
  BY <1>5
<1>10. ASSUME lines[p + 1].kind # "section", UNCHANGED current PROVE CurrentIsLatest'
  <2>1. CASE current = NoSection /\ \A k \in 1..p : lines[k].kind # "section"
    BY <1>6, <1>9, <1>10, <2>1 DEF CurrentIsLatest
  <2>2. CASE current # NoSection /\ Latest(lines, p, current)
    <3>1. PICK j \in 1..p : /\ lines[j] = Section(current)
                            /\ \A k \in (j + 1)..p : lines[k].kind # "section"
      BY <2>2 DEF Latest
    <3>2. j \in 1..(p + 1) /\ \A k \in (j + 1)..(p + 1) : k \in (j + 1)..p \/ k = p + 1
      BY <1>5
    <3>3. Latest(lines, p + 1, current)
      BY <1>10, <3>1, <3>2 DEF Latest
    <3>4. QED
      BY <1>6, <1>10, <2>2, <3>3 DEF CurrentIsLatest
  <2>3. QED
    BY <1>8, <2>1, <2>2
<1>11. CASE /\ lines[p + 1].kind = "section"
            /\ sections' = Open(sections, lines[p + 1].name)
            /\ current' = lines[p + 1].name
  <2>1. lines[p + 1] = Section(lines[p + 1].name) /\ IsName(lines[p + 1].name)
    BY <1>5, <1>11 DEF IsLine, Other, Pair
  <2>2. AsWritten(sections', lines, p + 1)
    BY <1>3, <1>5, <1>7, <1>11, <2>1, OpenReads
  <2>3. current' # NoSection
    BY <1>11, <2>1, NamesAreSections
  <2>4. Latest(lines, p + 1, current')
    <3>1. p + 1 \in 1..(p + 1) /\ ((p + 1) + 1)..(p + 1) = {}
      BY <1>5
    <3>2. QED
      BY <1>11, <2>1, <3>1 DEF Latest
  <2>5. QED
    BY <1>4, <1>6, <2>2, <2>3, <2>4, ReadAsWrittenIsPrimed DEF ReadInv, CurrentIsLatest
<1>12. CASE /\ lines[p + 1].kind = "pair" /\ current # NoSection
            /\ sections' = [sections EXCEPT ![current] =
                               PutField(@, lines[p + 1].key, lines[p + 1].value)]
            /\ UNCHANGED current
  <2>1. lines[p + 1] = Pair(lines[p + 1].key, lines[p + 1].value)
    BY <1>5, <1>12 DEF IsLine, Other, Section
  <2>2. Latest(lines, p, current)
    BY <1>8, <1>12
  <2>3. PICK name : name = current
    OBVIOUS
  <2>4. PICK k, v : k = lines[p + 1].key /\ v = lines[p + 1].value
    OBVIOUS
  <2>5. AsWritten([map EXCEPT ![name] = PutField(@, k, v)], lines, p + 1)
    BY <1>5, <1>7, <2>1, <2>2, <2>3, <2>4, PutReads
  <2>6. sections' = [map EXCEPT ![name] = PutField(@, k, v)]
    BY <1>3, <1>12, <2>3, <2>4
  <2>7. AsWritten(sections', lines, p + 1)
    BY <2>5, <2>6
  <2>8. QED
    BY <1>4, <1>6, <1>10, <1>12, <2>7, ReadAsWrittenIsPrimed DEF ReadInv
<1>13. CASE /\ lines[p + 1].kind = "other" \/ (lines[p + 1].kind = "pair" /\ current = NoSection)
            /\ UNCHANGED <<sections, current>>
  <2>1. AsWritten(map, lines, p + 1)
    BY <1>5, <1>7, <1>8, <1>13, SkipReads
  <2>2. AsWritten(sections', lines, p + 1)
    BY <1>3, <1>13, <2>1
  <2>3. QED
    BY <1>4, <1>6, <1>10, <1>13, <2>2, ReadAsWrittenIsPrimed DEF ReadInv
<1>14. QED
  BY <1>1, <1>2, <1>11, <1>12, <1>13 DEF ReadLine

\* Only parse_ini reads.
LEMMA UnreadKeepsInv ==
    ASSUME ReadInv, UNCHANGED <<text, pos, sections, current>>
    PROVE  ReadInv'
<1>1. AsWritten(sections, text, pos)
  BY ReadAsWrittenIs DEF ReadInv
<1>2. AsWritten(sections', text', pos')
  BY <1>1
<1>3. ReadAsWritten'
  BY <1>2, ReadAsWrittenIsPrimed
<1>4. QED
  BY <1>3 DEF ReadInv, CurrentIsLatest

-----------------------------------------------------------------------------
(* Dictionaries built from a list of objects                               *)

\* The positions of a list are finitely many.
LEMMA RangeIsFinite == \A n \in Nat : IsFiniteSet(1..n) /\ Cardinality(1..n) = n
BY FS_Interval

\* The image of a finite set is finite, and no larger.
LEMMA ImageIsFinite ==
    ASSUME NEW S, IsFiniteSet(S), NEW f
    PROVE  /\ IsFiniteSet({f[i] : i \in S})
           /\ Cardinality({f[i] : i \in S}) \in Nat
           /\ Cardinality({f[i] : i \in S}) <= Cardinality(S)
<1> DEFINE g == [i \in S |-> f[i]]
<1>1. g \in Surjection(S, {f[i] : i \in S})
  BY DEF Surjection
<1>2. QED
  BY <1>1, FS_Surjection, FS_CardinalityType

\* The dictionary of the first n objects of a list: of every address the last.
Holds(dict, list, n) ==
    /\ dict = [a \in DOMAIN dict |-> dict[a]]
    /\ DOMAIN dict = {list[i].address : i \in 1..n}
    /\ \A a \in DOMAIN dict :
          \E i \in 1..n : /\ list[i].address = a /\ dict[a] = list[i].entry
                          /\ \A j \in (i + 1)..n : list[j].address # a

\* An empty dictionary holds no objects.
LEMMA EmptyHolds == \A list : Holds(Empty, list, 0)
<1>1. DOMAIN Empty = {} /\ 1..0 = {}
  BY DEF Empty
<1>2. Empty = [a \in DOMAIN Empty |-> Empty[a]]
  BY DEF Empty
<1>3. QED
  BY <1>1, <1>2 DEF Holds

\* An insertion holds one object more, in the place of an earlier one of its address.
LEMMA InsertHolds ==
    ASSUME NEW dict, NEW list, NEW n \in Nat, Holds(dict, list, n)
    PROVE  Holds(Insert(dict, list[n + 1].address, list[n + 1].entry), list, n + 1)
<1> DEFINE addr == list[n + 1].address
           entry == list[n + 1].entry
           after == Insert(dict, addr, entry)
<1>1. after = [a \in DOMAIN dict \cup {addr} |-> IF a = addr THEN entry ELSE dict[a]]
  BY DEF Insert
<1>2. DOMAIN after = DOMAIN dict \cup {addr}
  BY <1>1
<1>3. after[addr] = entry /\ \A a \in DOMAIN dict : a # addr => after[a] = dict[a]
  BY <1>1
<1>4. \A i : i \in 1..(n + 1) <=> i \in 1..n \/ i = n + 1
  OBVIOUS
<1>5. DOMAIN after = {list[i].address : i \in 1..(n + 1)}
  BY <1>2, <1>4 DEF Holds
<1>6. after = [a \in DOMAIN after |-> after[a]]
  BY <1>1
<1>7. ASSUME NEW a \in DOMAIN after
      PROVE  \E i \in 1..(n + 1) : /\ list[i].address = a /\ after[a] = list[i].entry
                                   /\ \A j \in (i + 1)..(n + 1) : list[j].address # a
  <2>1. CASE a = addr
    <3>1. n + 1 \in 1..(n + 1) /\ ((n + 1) + 1)..(n + 1) = {}
      OBVIOUS
    <3>2. QED
      BY <1>3, <2>1, <3>1
  <2>2. CASE a # addr
    <3>1. a \in DOMAIN dict /\ after[a] = dict[a]
      BY <1>2, <1>3, <1>7, <2>2
    <3>2. PICK i \in 1..n : /\ list[i].address = a /\ dict[a] = list[i].entry
                            /\ \A j \in (i + 1)..n : list[j].address # a
      BY <3>1 DEF Holds
    <3>3. i \in 1..(n + 1) /\ \A j \in (i + 1)..(n + 1) : j \in (i + 1)..n \/ j = n + 1
      OBVIOUS
    <3>4. \A j \in (i + 1)..(n + 1) : list[j].address # a
      BY <2>2, <3>2, <3>3
    <3>5. QED
      BY <3>1, <3>2, <3>3, <3>4
  <2>3. QED
    BY <2>1, <2>2
<1> HIDE DEF after
<1>8. Holds(after, list, n + 1)
  BY <1>5, <1>6, <1>7 DEF Holds
<1>9. QED
  BY <1>8 DEF after

\* The list decides the dictionary.
LEMMA HoldsSame ==
    ASSUME NEW d, NEW e, NEW list, NEW n \in Nat, Holds(d, list, n), Holds(e, list, n)
    PROVE  d = e
<1>1. DOMAIN d = DOMAIN e
  BY DEF Holds
<1>2. ASSUME NEW a \in DOMAIN d PROVE d[a] = e[a]
  <2>1. PICK i \in 1..n : /\ list[i].address = a /\ d[a] = list[i].entry
                          /\ \A j \in (i + 1)..n : list[j].address # a
    BY DEF Holds
  <2>2. PICK j \in 1..n : /\ list[j].address = a /\ e[a] = list[j].entry
                          /\ \A k \in (j + 1)..n : list[k].address # a
    BY <1>1 DEF Holds
  <2>3. i = j
    BY <2>1, <2>2
  <2>4. QED
    BY <2>1, <2>2, <2>3
<1>3. d = [a \in DOMAIN d |-> d[a]] /\ e = [a \in DOMAIN e |-> e[a]]
  BY DEF Holds
<1>4. QED
  BY <1>1, <1>2, <1>3

\* A dictionary has no more addresses than the list objects.
LEMMA HoldsFewer ==
    ASSUME NEW dict, NEW list, NEW n \in Nat, Holds(dict, list, n)
    PROVE  /\ IsFiniteSet(DOMAIN dict)
           /\ Cardinality(DOMAIN dict) \in Nat /\ Cardinality(DOMAIN dict) <= n
<1>1. PICK f : f = [i \in 1..n |-> list[i].address]
  OBVIOUS
<1>2. DOMAIN dict = {f[i] : i \in 1..n}
  BY <1>1 DEF Holds
<1>3. IsFiniteSet(1..n) /\ Cardinality(1..n) = n
  BY RangeIsFinite
<1>4. /\ IsFiniteSet({f[i] : i \in 1..n})
      /\ Cardinality({f[i] : i \in 1..n}) \in Nat
      /\ Cardinality({f[i] : i \in 1..n}) <= Cardinality(1..n)
  BY <1>3, ImageIsFinite
<1>5. QED
  BY <1>2, <1>3, <1>4

\* It is full for one more object only if the list has more addresses than that.
LEMMA FullOnlyForMore ==
    ASSUME NEW dict, NEW list, NEW n \in Nat, NEW m \in Nat, n < m, Holds(dict, list, n),
           NEW capacity \in Nat, DictionaryFull(dict, list[n + 1].address, capacity),
           NEW T, T = {list[i].address : i \in 1..m}
    PROVE  Cardinality(T) > capacity
<1> DEFINE addr == list[n + 1].address
           S == DOMAIN dict \cup {addr}
<1>1. addr \notin DOMAIN dict /\ Cardinality(DOMAIN dict) >= capacity
  BY DEF DictionaryFull, Has
<1>2. IsFiniteSet(DOMAIN dict) /\ Cardinality(DOMAIN dict) \in Nat
  BY HoldsFewer
<1>3. Cardinality(S) = Cardinality(DOMAIN dict) + 1
  BY <1>1, <1>2, FS_AddElement
<1>4. PICK f : f = [i \in 1..m |-> list[i].address]
  OBVIOUS
<1>5. T = {f[i] : i \in 1..m}
  BY <1>4
<1>6. IsFiniteSet(T) /\ Cardinality(T) \in Nat
  <2>1. IsFiniteSet(1..m)
    BY RangeIsFinite
  <2>2. IsFiniteSet({f[i] : i \in 1..m}) /\ Cardinality({f[i] : i \in 1..m}) \in Nat
    BY <2>1, ImageIsFinite
  <2>3. QED
    BY <1>5, <2>2
<1>7. S \subseteq T
  <2>1. n + 1 \in 1..m /\ \A i \in 1..n : i \in 1..m
    OBVIOUS
  <2>2. QED
    BY <2>1 DEF Holds
<1>8. Cardinality(S) <= Cardinality(T)
  BY <1>6, <1>7, FS_Subset
<1> HIDE DEF S
<1>9. QED
  BY <1>1, <1>2, <1>3, <1>6, <1>8

\* Without objects any list will do.
LEMMA HoldsNone ==
    ASSUME NEW dict, NEW list, NEW other, Holds(dict, list, 0)
    PROVE  Holds(dict, other, 0)
<1>1. 1..0 = {}
  OBVIOUS
<1>2. QED
  BY <1>1 DEF Holds

-----------------------------------------------------------------------------
(* The two builders                                                        *)

BuildInv ==
    /\ phase \in {"reading", "parsed", "failed", "full"}
    /\ Len(objects) \in Nat /\ DOMAIN objects = 1..Len(objects)
    /\ built \in 0..Len(objects) /\ executed \in 0..Len(objects)
    /\ phase = "reading" => built = 0 /\ executed = 0
    /\ Holds(od, objects, built) /\ Holds(generated, objects, executed)
    /\ phase = "full" => Cardinality({objects[i].address : i \in DOMAIN objects}) > Capacity

\* A text has finitely many sections.
LEMMA SectionsAreFinite == ReadInv => IsFiniteSet(DOMAIN sections)
<1> SUFFICES ASSUME ReadInv PROVE IsFiniteSet(DOMAIN sections)
  OBVIOUS
<1>1. PICK f : f = [i \in 1..pos |-> text[i].name]
  OBVIOUS
<1>2. PICK S : S = {j \in 1..pos : text[j].kind = "section"}
  OBVIOUS
<1>3. pos \in Nat
  BY TextHasLines DEF ReadInv
<1>4. IsFiniteSet(1..pos)
  BY <1>3, FS_Interval
<1>5. IsFiniteSet(S)
  BY <1>2, <1>4, FS_Subset
<1>6. IsFiniteSet({f[i] : i \in S})
  BY <1>5, ImageIsFinite
<1>7. DOMAIN sections = {f[i] : i \in S}
  BY <1>1, <1>2 DEF ReadInv, ReadAsWritten
<1>8. QED
  BY <1>6, <1>7

\* Eds::parse makes a list of objects, or none.
LEMMA ParseMakesList ==
    ASSUME ReadInv, Parse
    PROVE  \/ phase' = "failed" /\ UNCHANGED objects
           \/ phase' = "parsed" /\ Len(objects') \in Nat /\ DOMAIN objects' = 1..Len(objects')
<1> DEFINE node == ForExpressions(NodeId(sections))
           described == {n \in DOMAIN sections : Describes(n, sections[n])}
           S == {n \in described : TypeOf(sections[n], node) # Unmodelled}
           names == Ordered(S, NameBefore)
           list == [i \in DOMAIN names |-> Description(names[i], sections[names[i]], node)]
<1>1. CASE \E n \in described : Broken(sections[n], node)
  BY <1>1 DEF Parse
<1>2. CASE ~\E n \in described : Broken(sections[n], node)
  <2>1. phase' = "parsed" /\ objects' = SortedByAddress(list)
    BY <1>2 DEF Parse
  <2>2. Cardinality(S) \in Nat
    BY SectionsAreFinite, FS_Subset, FS_CardinalityType
  <2>3. DOMAIN list = 1..Cardinality(S)
    BY DEF Ordered
  <2> HIDE DEF list, S
  <2>4. DOMAIN objects' = 1..Cardinality(S)
    BY <2>1, <2>3 DEF SortedByAddress
  <2>5. PICK n \in Nat : n = Cardinality(S)
    BY <2>2
  <2>6. Len(objects') = n
    <3>1. objects' = [i \in DOMAIN objects' |-> objects'[i]]
      BY <2>1 DEF SortedByAddress
    <3>2. objects' = [i \in 1..n |-> objects'[i]]
      BY <2>4, <2>5, <3>1
    <3>3. QED
      BY <3>2
  <2>7. QED
    BY <2>1, <2>4, <2>5, <2>6
<1>3. QED
  BY <1>1, <1>2

\* A turn of Eds::object_dictionary inserts the next object, or finds too many addresses.
LEMMA BuildNextKeepsInv == BuildInv /\ BuildNext => BuildInv'
<1> SUFFICES ASSUME BuildInv, BuildNext PROVE BuildInv'
  OBVIOUS
<1>1. PICK list : list = objects
  OBVIOUS
<1>2. PICK n : n = built
  OBVIOUS
<1>3. n \in Nat /\ n < Len(list) /\ Len(list) \in Nat /\ DOMAIN list = 1..Len(list)
  BY <1>1, <1>2 DEF BuildInv, BuildNext
<1>4. objects' = list /\ UNCHANGED <<generated, executed>> /\ phase = "parsed"
  BY <1>1 DEF BuildNext
<1>5. Holds(od, list, n)
  BY <1>1, <1>2 DEF BuildInv
<1>6. Holds(generated', list, executed')
  BY <1>1, <1>4 DEF BuildInv
<1>7. CASE DictionaryFull(od, list[n + 1].address, Capacity)
  <2>1. phase' = "full" /\ UNCHANGED <<od, built>>
    BY <1>1, <1>2, <1>7 DEF BuildNext
  <2>2. Cardinality({list[i].address : i \in 1..Len(list)}) > Capacity
    <3>1. PICK m \in Nat : m = Len(list)
      BY <1>3
    <3>2. n < m /\ Capacity \in Nat
      BY <1>3, <3>1, DictionaryBuildAssumption
    <3>3. PICK T : T = {list[i].address : i \in 1..m}
      OBVIOUS
    <3>4. PICK d, c : d = od /\ c = Capacity
      OBVIOUS
    <3>5. Holds(d, list, n) /\ DictionaryFull(d, list[n + 1].address, c) /\ c \in Nat
      BY <1>5, <1>7, <3>2, <3>4
    <3>6. n \in Nat /\ m \in Nat /\ n < m
      BY <1>3, <3>2
    <3>7. Cardinality(T) > c
      BY ONLY <3>3, <3>5, <3>6, FullOnlyForMore
    <3>8. QED
      BY <3>1, <3>3, <3>4, <3>7
  <2>3. Cardinality({list[i].address : i \in DOMAIN list}) > Capacity
    BY <1>3, <2>2
  <2>4. QED
    BY <1>1, <1>4, <1>6, <2>1, <2>3 DEF BuildInv
<1>8. CASE ~DictionaryFull(od, list[n + 1].address, Capacity)
  <2>1. /\ od' = Insert(od, list[n + 1].address, list[n + 1].entry)
        /\ built' = n + 1 /\ phase' = "parsed"
    BY <1>1, <1>2, <1>4, <1>8 DEF BuildNext
  <2>2. Holds(od', list, n + 1)
    BY <1>3, <1>5, <2>1, InsertHolds
  <2>3. Holds(od', list, built') /\ built' \in 0..Len(list)
    BY <1>3, <2>1, <2>2
  <2>4. QED
    BY <1>1, <1>4, <1>6, <2>1, <2>3 DEF BuildInv
<1>9. QED
  BY <1>7, <1>8

\* The generated dictionary has room for every object: its unwrap never panics.
LEMMA ExecuteNextKeepsInv == BuildInv /\ ExecuteNext => BuildInv'
<1> SUFFICES ASSUME BuildInv, ExecuteNext PROVE BuildInv'
  OBVIOUS
<1>1. PICK list : list = objects
  OBVIOUS
<1>2. PICK n : n = executed
  OBVIOUS
<1>3. n \in Nat /\ n < Len(list) /\ Len(list) \in Nat
  BY <1>1, <1>2 DEF BuildInv, ExecuteNext
<1>4. objects' = list /\ UNCHANGED <<od, built>>
  BY <1>1 DEF ExecuteNext
<1>5. Holds(generated, list, n)
  BY <1>1, <1>2 DEF BuildInv
<1>6. Holds(od', list, built')
  BY <1>1, <1>4 DEF BuildInv
<1>7. ~DictionaryFull(generated, list[n + 1].address, GeneratedCapacity)
  <2>1. Cardinality(DOMAIN generated) \in Nat /\ Cardinality(DOMAIN generated) <= n
    BY <1>3, <1>5, HoldsFewer
  <2>2. GeneratedCapacity = Len(list)
    BY <1>1 DEF GeneratedCapacity
  <2>3. QED
    BY <1>3, <2>1, <2>2 DEF DictionaryFull
<1>8. /\ generated' = Insert(generated, list[n + 1].address, list[n + 1].entry)
      /\ executed' = n + 1 /\ UNCHANGED phase
  BY <1>1, <1>2, <1>7 DEF ExecuteNext
<1>9. Holds(generated', list, n + 1)
  BY <1>3, <1>5, <1>8, InsertHolds
<1>10. Holds(generated', list, executed') /\ executed' \in 0..Len(list)
  BY <1>3, <1>8, <1>9
<1>11. phase # "reading"
  BY DEF ExecuteNext
<1>12. QED
  BY <1>1, <1>4, <1>6, <1>8, <1>10, <1>11 DEF BuildInv

\* Both dictionaries are empty when the objects are listed.
LEMMA ParseKeepsInv == ReadInv /\ BuildInv /\ Parse => BuildInv'
<1> SUFFICES ASSUME ReadInv, BuildInv, Parse PROVE BuildInv'
  OBVIOUS
<1>1. built = 0 /\ executed = 0 /\ UNCHANGED <<od, generated, built, executed>>
  BY DEF BuildInv, Parse
<1>2. Holds(od, objects, 0) /\ Holds(generated, objects, 0)
  BY <1>1 DEF BuildInv
<1>3. Holds(od, objects', 0) /\ Holds(generated, objects', 0)
  BY <1>2, HoldsNone
<1>4. Holds(od', objects', built') /\ Holds(generated', objects', executed')
  BY <1>1, <1>3
<1>5. CASE phase' = "failed" /\ UNCHANGED objects
  BY <1>1, <1>4, <1>5 DEF BuildInv
<1>6. CASE phase' = "parsed" /\ Len(objects') \in Nat /\ DOMAIN objects' = 1..Len(objects')
  BY <1>1, <1>4, <1>6 DEF BuildInv
<1>7. QED
  BY <1>5, <1>6, ParseMakesList

\* Every reachable state satisfies the two invariants.
LEMMA BuildInvariance == Spec => [](ReadInv /\ BuildInv)
<1>1. Init => ReadInv /\ BuildInv
  <2> SUFFICES ASSUME Init PROVE ReadInv /\ BuildInv
    OBVIOUS
  <2>1. text \in Texts /\ pos = 0 /\ sections = <<>> /\ current = NoSection /\ Len(text) \in Nat
    BY TextHasLines DEF Init
  <2>2. 1..0 = {} /\ DOMAIN <<>> = {} /\ Len(<<>>) = 0
    OBVIOUS
  <2>3. NamesOf(text, 0) = {}
    BY <2>2 DEF NamesOf
  <2>4. AsWritten(sections, text, pos)
    BY <2>1, <2>2, <2>3 DEF AsWritten
  <2>5. ReadInv
    BY <2>1, <2>2, <2>4, ReadAsWrittenIs DEF ReadInv, CurrentIsLatest
  <2>6. Holds(od, objects, built) /\ Holds(generated, objects, executed)
    BY EmptyHolds DEF Init
  <2>7. BuildInv
    BY <2>2, <2>6 DEF Init, BuildInv
  <2>8. QED
    BY <2>5, <2>7
<1>2. ReadInv /\ BuildInv /\ [Next]_vars => ReadInv' /\ BuildInv'
  <2> SUFFICES ASSUME ReadInv, BuildInv, [Next]_vars PROVE ReadInv' /\ BuildInv'
    OBVIOUS
  <2>1. CASE ReadLine
    BY <2>1, ReadLineKeepsInv DEF ReadLine, BuildInv
  <2>2. CASE Parse
    <3>1. UNCHANGED <<text, pos, sections, current>>
      BY <2>2 DEF Parse
    <3>2. QED
      BY <2>2, <3>1, UnreadKeepsInv, ParseKeepsInv
  <2>3. CASE BuildNext
    <3>1. UNCHANGED <<text, pos, sections, current>>
      BY <2>3 DEF BuildNext
    <3>2. QED
      BY <2>3, <3>1, UnreadKeepsInv, BuildNextKeepsInv
  <2>4. CASE ExecuteNext
    <3>1. UNCHANGED <<text, pos, sections, current>>
      BY <2>4 DEF ExecuteNext
    <3>2. QED
      BY <2>4, <3>1, UnreadKeepsInv, ExecuteNextKeepsInv
  <2>5. CASE UNCHANGED vars
    <3>1. UNCHANGED <<text, pos, sections, current>>
      BY <2>5 DEF vars
    <3>2. BuildInv'
      BY <2>5 DEF vars, BuildInv
    <3>3. QED
      BY <3>1, <3>2, UnreadKeepsInv
  <2>6. QED
    BY <2>1, <2>2, <2>3, <2>4, <2>5 DEF Next
<1>3. QED
  BY <1>1, <1>2, PTL DEF Spec

\* parse_ini keeps of every data sheet what it says: sections that come again,
\* pairs that replace earlier ones, pairs before the first section.
THEOREM AlwaysReadAsWritten == Spec => []ReadAsWritten
<1>1. ReadInv => ReadAsWritten
  BY DEF ReadInv
<1>2. QED
  BY <1>1, BuildInvariance, PTL

\* generate_object_dictionary emits a function that never panics and builds what
\* Eds::object_dictionary builds.
THEOREM GeneratedAlwaysParsed == Spec => []GeneratedIsParsed
<1>1. BuildInv => GeneratedIsParsed
  <2> SUFFICES ASSUME BuildInv PROVE GeneratedIsParsed
    OBVIOUS
  <2>1. phase # "panicked"
    BY DEF BuildInv
  <2>2. ASSUME built = Len(objects), executed = Len(objects) PROVE generated = od
    BY <2>2, HoldsSame DEF BuildInv
  <2>3. QED
    BY <2>1, <2>2 DEF GeneratedIsParsed
<1>2. QED
  BY <1>1, BuildInvariance, PTL

\* Eds::object_dictionary reports too many objects only for more addresses than
\* there is room for, and keeps the last object of each.
THEOREM OnlyFullWhenNeeded == Spec => []FullOnlyWhenNeeded
<1>1. BuildInv => FullOnlyWhenNeeded
  <2> SUFFICES ASSUME BuildInv PROVE FullOnlyWhenNeeded
    OBVIOUS
  <2>1. ASSUME NEW a \in DOMAIN od
        PROVE  od[a] = objects[Greatest({i \in 1..built : objects[i].address = a})].entry
    <3>1. PICK i \in 1..built : /\ objects[i].address = a /\ od[a] = objects[i].entry
                                /\ \A j \in (i + 1)..built : objects[j].address # a
      BY DEF BuildInv, Holds
    <3>2. PICK S : S = {j \in 1..built : objects[j].address = a}
      OBVIOUS
    <3>3. built \in Nat /\ i \in Nat
      BY DEF BuildInv
    <3>4. S \subseteq 1..i /\ i \in S
      BY <3>1, <3>2, <3>3
    <3>5. Greatest(S) = i
      BY <3>3, <3>4, GreatestOfPairs
    <3>6. QED
      BY <3>1, <3>2, <3>5
  <2>2. QED
    BY <2>1 DEF BuildInv, FullOnlyWhenNeeded
<1>2. QED
  BY <1>1, BuildInvariance, PTL

-----------------------------------------------------------------------------
(* Sums of sequences                                                       *)

\* The greatest element of a set of positions.
LEMMA MaxOfPositions ==
    ASSUME NEW n \in Nat, NEW s \in SUBSET (1..n), s # {}
    PROVE  Max(s) \in s /\ \A y \in s : Max(s) >= y
<1> DEFINE T == {k \in Nat : n - k \in s}
<1>1. PICK x \in s : TRUE
  OBVIOUS
<1>2. x \in 1..n /\ n - x \in Nat /\ n - (n - x) = x
  OBVIOUS
<1>3. n - x \in T
  BY <1>2
<1>4. PICK k \in T : \A m \in T : k <= m
  BY <1>3, LeastNatural
<1>5. n - k \in s /\ k \in Nat
  OBVIOUS
<1>6. ASSUME NEW y \in s PROVE n - k >= y
  <2>1. y \in 1..n /\ n - y \in Nat /\ n - (n - y) = y
    OBVIOUS
  <2>2. n - y \in T
    BY <2>1
  <2>3. k <= n - y
    BY <1>4, <2>2
  <2>4. QED
    BY <1>5, <2>1, <2>3
<1>7. QED
  BY <1>5, <1>6 DEF Max

\* f sums the weights of every set of positions, the last one last.
IsSum(f, w, n) ==
    f = [s \in SUBSET (1..n) |-> IF s = {} THEN 0 ELSE f[s \ {Max(s)}] + w[Max(s)]]

\* The sum of all weights.
Total(w, n) == (CHOOSE f : IsSum(f, w, n))[1..n]

\* There is a sum over every set of positions.
LEMMA SumExists ==
    ASSUME NEW w, NEW n \in Nat
    PROVE  \E f : IsSum(f, w, n)
<1> DEFINE T == {k \in Nat : \E f : IsSum(f, w, k)}
<1>1. 0 \in T
  <2> DEFINE f == [s \in SUBSET (1..0) |-> 0]
  <2>1. \A s \in SUBSET (1..0) : s = {}
    OBVIOUS
  <2>2. IsSum(f, w, 0)
    BY <2>1 DEF IsSum
  <2>3. QED
    BY <2>2
<1>2. ASSUME NEW k \in Nat, k \in T PROVE k + 1 \in T
  <2>1. PICK f : f = [s \in SUBSET (1..k) |->
                         IF s = {} THEN 0 ELSE f[s \ {Max(s)}] + w[Max(s)]]
    BY <1>2 DEF IsSum
  <2>2. PICK g : g = [s \in SUBSET (1..(k + 1)) |->
                         IF k + 1 \in s THEN f[s \ {k + 1}] + w[k + 1] ELSE f[s]]
    OBVIOUS
  <2>3. \A s \in SUBSET (1..(k + 1)) : s \ {k + 1} \in SUBSET (1..k)
    OBVIOUS
  <2>4. \A s \in SUBSET (1..k) : s \in SUBSET (1..(k + 1)) /\ k + 1 \notin s /\ g[s] = f[s]
    BY <2>2
  <2>5. ASSUME NEW s \in SUBSET (1..(k + 1))
        PROVE  g[s] = IF s = {} THEN 0 ELSE g[s \ {Max(s)}] + w[Max(s)]
    <3>1. CASE k + 1 \in s
      <4>1. Max(s) \in s /\ Max(s) >= k + 1
        BY <3>1, MaxOfPositions
      <4>2. Max(s) \in 1..(k + 1)
        BY <4>1
      <4>3. Max(s) = k + 1
        BY <4>1, <4>2
      <4>4. g[s] = f[s \ {k + 1}] + w[k + 1] /\ g[s \ {k + 1}] = f[s \ {k + 1}]
        BY <2>2, <2>3, <2>4, <3>1
      <4>5. s # {}
        BY <3>1
      <4>6. QED
        BY <4>3, <4>4, <4>5
    <3>2. CASE k + 1 \notin s
      <4>1. s \in SUBSET (1..k) /\ g[s] = f[s]
        BY <2>3, <2>4, <3>2
      <4>2. CASE s = {}
        <5>1. f[s] = 0
          BY <2>1, <4>1, <4>2
        <5>2. QED
          BY <4>1, <4>2, <5>1
      <4>3. CASE s # {}
        <5>1. f[s] = f[s \ {Max(s)}] + w[Max(s)]
          BY <2>1, <4>1, <4>3
        <5>2. g[s \ {Max(s)}] = f[s \ {Max(s)}]
          BY <2>4, <4>1
        <5>3. QED
          BY <4>1, <4>3, <5>1, <5>2
      <4>4. QED
        BY <4>2, <4>3
    <3>3. QED
      BY <3>1, <3>2
  <2>6. g = [s \in SUBSET (1..(k + 1)) |-> g[s]]
    BY <2>2
  <2>7. IsSum(g, w, k + 1)
    BY <2>5, <2>6 DEF IsSum
  <2>8. QED
    BY <2>7
<1> HIDE DEF T
<1>3. Nat \subseteq T
  BY <1>1, <1>2, Climb
<1>4. QED
  BY <1>3 DEF T

\* Along the positions a sum adds one weight after the other.
LEMMA SumSteps ==
    ASSUME NEW f, NEW w, NEW n \in Nat, IsSum(f, w, n)
    PROVE  /\ f[{}] = 0
           /\ \A k \in 1..n : f[1..k] = f[1..(k - 1)] + w[k]
<1>1. \A s \in SUBSET (1..n) : f[s] = IF s = {} THEN 0 ELSE f[s \ {Max(s)}] + w[Max(s)]
  BY DEF IsSum
<1>2. f[{}] = 0
  BY <1>1
<1>3. ASSUME NEW k \in 1..n PROVE f[1..k] = f[1..(k - 1)] + w[k]
  <2>1. 1..k \in SUBSET (1..n) /\ 1..k # {} /\ k \in 1..k
    OBVIOUS
  <2>2. Max(1..k) \in 1..k /\ Max(1..k) >= k
    BY <2>1, MaxOfPositions
  <2>3. Max(1..k) = k
    BY <2>2
  <2>4. (1..k) \ {k} = 1..(k - 1)
    OBVIOUS
  <2>5. f[1..k] = f[(1..k) \ {Max(1..k)}] + w[Max(1..k)]
    BY <1>1, <2>1
  <2>6. QED
    BY <2>3, <2>4, <2>5
<1>4. QED
  BY <1>2, <1>3

\* The weights decide the sum.
LEMMA SumsSame ==
    ASSUME NEW f, NEW v, NEW g, NEW w, NEW n \in Nat, IsSum(f, v, n), IsSum(g, w, n),
           \A i \in 1..n : v[i] = w[i]
    PROVE  f[1..n] = g[1..n]
<1> DEFINE T == {k \in Nat : k <= n => f[1..k] = g[1..k]}
<1>1. 0 \in T
  <2>1. 1..0 = {}
    OBVIOUS
  <2>2. f[{}] = 0 /\ g[{}] = 0
    BY SumSteps
  <2>3. QED
    BY <2>1, <2>2
<1>2. ASSUME NEW k \in Nat, k \in T PROVE k + 1 \in T
  <2>1. CASE k + 1 <= n
    <3>1. k + 1 \in 1..n /\ (k + 1) - 1 = k /\ f[1..k] = g[1..k]
      BY <1>2, <2>1
    <3>2. f[1..(k + 1)] = f[1..((k + 1) - 1)] + v[k + 1]
      BY <3>1, SumSteps
    <3>3. g[1..(k + 1)] = g[1..((k + 1) - 1)] + w[k + 1]
      BY <3>1, SumSteps
    <3>4. f[1..(k + 1)] = g[1..(k + 1)]
      BY <3>1, <3>2, <3>3
    <3>5. QED
      BY <3>4
  <2>2. QED
    BY <2>1
<1> HIDE DEF T
<1>3. n \in T
  BY <1>1, <1>2, Climb
<1>4. QED
  BY <1>3 DEF T

\* The total is what any such sum has for all positions.
LEMMA TotalIs ==
    ASSUME NEW f, NEW w, NEW n \in Nat, IsSum(f, w, n)
    PROVE  f[1..n] = Total(w, n)
<1>1. PICK g : g = CHOOSE h : IsSum(h, w, n)
  OBVIOUS
<1>2. IsSum(g, w, n)
  BY <1>1
<1>3. f[1..n] = g[1..n]
  BY <1>2, SumsSame
<1>4. QED
  BY <1>1, <1>3 DEF Total

\* Equal weights have equal totals.
LEMMA TotalSame ==
    ASSUME NEW v, NEW w, NEW n \in Nat, \A i \in 1..n : v[i] = w[i]
    PROVE  Total(v, n) = Total(w, n)
<1>1. PICK f : IsSum(f, v, n)
  BY SumExists
<1>2. PICK g : IsSum(g, w, n)
  BY SumExists
<1>3. f[1..n] = g[1..n]
  BY <1>1, <1>2, SumsSame
<1>4. f[1..n] = Total(v, n) /\ g[1..n] = Total(w, n)
  BY <1>1, <1>2, TotalIs
<1>5. QED
  BY <1>3, <1>4

\* The total of integers is one.
LEMMA TotalIsInteger ==
    ASSUME NEW w, NEW n \in Nat, \A i \in 1..n : w[i] \in Int
    PROVE  Total(w, n) \in Int
<1>1. PICK f : IsSum(f, w, n)
  BY SumExists
<1> DEFINE T == {k \in Nat : k <= n => f[1..k] \in Int}
<1>2. 0 \in T
  <2>1. 1..0 = {}
    OBVIOUS
  <2>2. f[{}] = 0
    BY <1>1, SumSteps
  <2>3. QED
    BY <2>1, <2>2
<1>3. ASSUME NEW k \in Nat, k \in T PROVE k + 1 \in T
  <2>1. CASE k + 1 <= n
    <3>1. k + 1 \in 1..n /\ (k + 1) - 1 = k /\ f[1..k] \in Int
      BY <1>3, <2>1
    <3>2. f[1..(k + 1)] = f[1..((k + 1) - 1)] + w[k + 1]
      BY <1>1, <3>1, SumSteps
    <3>3. f[1..(k + 1)] \in Int
      BY <3>1, <3>2
    <3>4. QED
      BY <3>3
  <2>2. QED
    BY <2>1
<1> HIDE DEF T
<1>4. n \in T
  BY <1>2, <1>3, Climb
<1>5. f[1..n] \in Int
  BY <1>4 DEF T
<1>6. QED
  BY <1>1, <1>5, TotalIs

\* A sequence of terms, as IsLine has it.
AreTerms(terms) ==
    /\ DOMAIN terms = 1..Len(terms) /\ Len(terms) \in Nat
    /\ \A i \in DOMAIN terms : IsTerm(terms[i])

Weights(terms, id) ==
    [i \in 1..Len(terms) |-> IF terms[i].kind = "nodeid" THEN id ELSE terms[i].n]

\* What eval_int_expr adds up.
LEMMA EvaluateIsTotal ==
    ASSUME NEW terms, NEW id, DOMAIN terms = 1..Len(terms), Len(terms) \in Nat
    PROVE  Evaluate(terms, id) = Total(Weights(terms, id), Len(terms))
<1>1. PICK n \in Nat : n = Len(terms)
  OBVIOUS
<1>2. PICK w : w = Weights(terms, id)
  OBVIOUS
<1> DEFINE Folds(f) ==
        f = [s \in SUBSET DOMAIN terms |->
                IF s = {} THEN 0
                ELSE f[s \ {Max(s)}]
                     + (IF terms[Max(s)].kind = "nodeid" THEN id ELSE terms[Max(s)].n)]
<1>3. ASSUME NEW f PROVE Folds(f) <=> IsSum(f, w, n)
  <2>1. ASSUME NEW s \in SUBSET (1..n), s # {}
        PROVE  (IF terms[Max(s)].kind = "nodeid" THEN id ELSE terms[Max(s)].n) = w[Max(s)]
    <3>1. Max(s) \in 1..n
      BY <2>1, MaxOfPositions
    <3>2. QED
      BY <1>1, <1>2, <3>1 DEF Weights
  <2>2. DOMAIN terms = 1..n
    BY <1>1
  <2>3. QED
    BY <2>1, <2>2 DEF IsSum
<1>4. Evaluate(terms, id) = (CHOOSE f : Folds(f))[DOMAIN terms]
  BY DEF Evaluate, FoldLeft, MapThenFoldSet
<1> HIDE DEF Folds
<1>5. PICK g : g = CHOOSE f : Folds(f)
  OBVIOUS
<1>6. \E f : Folds(f)
  BY <1>3, SumExists
<1>7. Folds(g)
  BY <1>5, <1>6
<1>8. g[1..n] = Total(w, n)
  BY <1>3, <1>7, TotalIs
<1>9. QED
  BY <1>1, <1>2, <1>4, <1>5, <1>8

Parts(terms, id) ==
    [i \in 1..Len(terms) |-> terms[i].n + (IF terms[i] = NodeIdTerm THEN id ELSE 0)]

\* What SumWith adds up.
LEMMA SumWithIsTotal ==
    ASSUME NEW terms, NEW id, DOMAIN terms = 1..Len(terms), Len(terms) \in Nat
    PROVE  SumWith(terms, id) = Total(Parts(terms, id), Len(terms))
<1>1. PICK n \in Nat : n = Len(terms)
  OBVIOUS
<1>2. PICK w : w = Parts(terms, id)
  OBVIOUS
<1> DEFINE Folds(f) ==
        f = [s \in SUBSET DOMAIN terms |->
                IF s = {} THEN 0
                ELSE f[s \ {Max(s)}]
                     + (terms[Max(s)].n + (IF terms[Max(s)] = NodeIdTerm THEN id ELSE 0))]
<1>3. ASSUME NEW f PROVE Folds(f) <=> IsSum(f, w, n)
  <2>1. ASSUME NEW s \in SUBSET (1..n), s # {}
        PROVE  terms[Max(s)].n + (IF terms[Max(s)] = NodeIdTerm THEN id ELSE 0) = w[Max(s)]
    <3>1. Max(s) \in 1..n
      BY <2>1, MaxOfPositions
    <3>2. QED
      BY <1>1, <1>2, <3>1 DEF Parts
  <2>2. DOMAIN terms = 1..n
    BY <1>1
  <2>3. QED
    BY <2>1, <2>2 DEF IsSum
<1>4. SumWith(terms, id) = (CHOOSE f : Folds(f))[DOMAIN terms]
  BY DEF SumWith, FoldLeft, MapThenFoldSet
<1> HIDE DEF Folds
<1>5. PICK g : g = CHOOSE f : Folds(f)
  OBVIOUS
<1>6. \E f : Folds(f)
  BY <1>3, SumExists
<1>7. Folds(g)
  BY <1>5, <1>6
<1>8. g[1..n] = Total(w, n)
  BY <1>3, <1>7, TotalIs
<1>9. QED
  BY <1>1, <1>2, <1>4, <1>5, <1>8

\* The node-id is the only term of its kind, and is 0 otherwise.
LEMMA TermKinds ==
    ASSUME NEW t, IsTerm(t)
    PROVE  \/ t = NodeIdTerm /\ t.kind = "nodeid" /\ t.n = 0
           \/ t # NodeIdTerm /\ t.kind # "nodeid" /\ t.n \in Int
<1>1. NodeIdTerm.kind = "nodeid" /\ NodeIdTerm.n = 0
  BY DEF NodeIdTerm
<1>2. PICK m, x : m = t.n /\ x = t.text
  OBVIOUS
<1>3. Number(m).kind = "number" /\ Word(x).kind = "word" /\ Word(x).n = 0
  BY DEF Number, Word
<1>4. CASE t = Number(m) /\ m \in Int
  BY <1>1, <1>2, <1>3, <1>4
<1>5. CASE t = Word(x)
  BY <1>1, <1>3, <1>5
<1>6. CASE t = NodeIdTerm
  BY <1>1, <1>6
<1>7. QED
  BY <1>2, <1>4, <1>5, <1>6 DEF IsTerm

\* The code's sum is the reference sum, and a number.
LEMMA EvaluateIsSumWith ==
    ASSUME NEW terms, NEW id \in Int, AreTerms(terms)
    PROVE  Evaluate(terms, id) = SumWith(terms, id) /\ Evaluate(terms, id) \in Int
<1>1. DOMAIN terms = 1..Len(terms) /\ Len(terms) \in Nat
  BY DEF AreTerms
<1>2. ASSUME NEW i \in 1..Len(terms)
      PROVE  Weights(terms, id)[i] = Parts(terms, id)[i] /\ Weights(terms, id)[i] \in Int
  <2>1. IsTerm(terms[i])
    BY <1>1 DEF AreTerms
  <2>2. /\ Weights(terms, id)[i] = IF terms[i].kind = "nodeid" THEN id ELSE terms[i].n
        /\ Parts(terms, id)[i] = terms[i].n + (IF terms[i] = NodeIdTerm THEN id ELSE 0)
    BY <1>2 DEF Weights, Parts
  <2>3. CASE terms[i] = NodeIdTerm /\ terms[i].kind = "nodeid" /\ terms[i].n = 0
    <3>1. Weights(terms, id)[i] = id /\ Parts(terms, id)[i] = 0 + id
      BY <2>2, <2>3
    <3>2. QED
      BY <3>1
  <2>4. CASE terms[i] # NodeIdTerm /\ terms[i].kind # "nodeid" /\ terms[i].n \in Int
    <3>1. Weights(terms, id)[i] = terms[i].n /\ Parts(terms, id)[i] = terms[i].n + 0
      BY <2>2, <2>4
    <3>2. QED
      BY <2>4, <3>1
  <2>5. QED
    BY <2>1, <2>3, <2>4, TermKinds
<1>3. Total(Weights(terms, id), Len(terms)) = Total(Parts(terms, id), Len(terms))
  BY <1>1, <1>2, TotalSame
<1>4. Total(Weights(terms, id), Len(terms)) \in Int
  BY <1>1, <1>2, TotalIsInteger
<1>5. QED
  BY <1>1, <1>3, <1>4, EvaluateIsTotal, SumWithIsTotal

-----------------------------------------------------------------------------
(* Orders                                                                  *)

\* A strict total order.
Orders(R, S) ==
    /\ \A x \in S : <<x, x>> \notin R
    /\ \A x, y, z \in S : <<x, y>> \in R /\ <<y, z>> \in R => <<x, z>> \in R
    /\ \A x, y \in S : x # y => <<x, y>> \in R \/ <<y, x>> \in R

\* In the order of a finite set every rank is taken.
LEMMA Ranks ==
    ASSUME NEW S, IsFiniteSet(S), NEW R, Orders(R, S), NEW k \in 1..Cardinality(S)
    PROVE  \E x \in S : Cardinality({y \in S : <<y, x>> \in R}) = k - 1
<1> USE DEF Orders
<1> DEFINE Below(x) == {y \in S : <<y, x>> \in R}
<1>1. PICK n \in Nat : n = Cardinality(S)
  BY FS_CardinalityType
<1>2. ASSUME NEW x \in S
      PROVE  /\ IsFiniteSet(Below(x)) /\ Cardinality(Below(x)) \in Nat
             /\ Cardinality(Below(x)) + 1 \in 1..n
  <2>1. IsFiniteSet(S \ {x}) /\ Cardinality(S \ {x}) = n - 1
    BY <1>1, FS_RemoveElement
  <2>2. Below(x) \in SUBSET (S \ {x})
    OBVIOUS
  <2> HIDE DEF Below
  <2>3. IsFiniteSet(Below(x)) /\ Cardinality(Below(x)) <= Cardinality(S \ {x})
    BY <2>1, <2>2, FS_Subset
  <2>4. Cardinality(Below(x)) \in Nat
    BY <2>3, FS_CardinalityType
  <2>5. QED
    BY <2>1, <2>3, <2>4
<1>3. ASSUME NEW x \in S, NEW y \in S, <<x, y>> \in R
      PROVE  Cardinality(Below(x)) # Cardinality(Below(y))
  <2>1. Below(x) \in SUBSET Below(y)
    BY <1>3
  <2>2. x \in Below(y) /\ x \notin Below(x)
    BY <1>3
  <2>3. IsFiniteSet(Below(y))
    BY <1>2
  <2> HIDE DEF Below
  <2>4. Cardinality(Below(y)) = Cardinality(Below(x)) => Below(y) = Below(x)
    BY <2>1, <2>3, FS_Subset
  <2>5. QED
    BY <2>2, <2>4
<1>4. ASSUME NEW x \in S, NEW y \in S, x # y
      PROVE  Cardinality(Below(x)) # Cardinality(Below(y))
  <2>1. CASE <<x, y>> \in R
    BY <1>3, <2>1
  <2>2. CASE <<y, x>> \in R
    BY <1>3, <2>2
  <2>3. QED
    BY <1>4, <2>1, <2>2
<1>5. PICK rank : rank = [x \in S |-> Cardinality(Below(x)) + 1]
  OBVIOUS
<1> HIDE DEF Below
<1>6. rank \in Injection(S, 1..n)
  <2>1. rank \in [S -> 1..n]
    BY <1>2, <1>5
  <2>2. ASSUME NEW x \in S, NEW y \in S, rank[x] = rank[y] PROVE x = y
    BY <1>2, <1>4, <1>5, <2>2
  <2>3. QED
    BY <2>1, <2>2 DEF Injection, IsInjective
<1>7. IsFiniteSet(1..n) /\ Cardinality(1..n) = n
  BY RangeIsFinite
<1>8. rank \in Surjection(S, 1..n)
  BY <1>1, <1>6, <1>7, FS_Injection
<1>9. PICK x \in S : rank[x] = k
  BY <1>1, <1>8 DEF Surjection
<1>10. Cardinality(Below(x)) = k - 1
  BY <1>2, <1>5, <1>9
<1>11. QED
  BY <1>10 DEF Below

\* The name of an object, as its digits in the file have it, is the object's.
LEMMA HexDigitsAreInjective ==
    ASSUME NEW s \in Int, -1 <= s, s < 256, NEW t \in Int, -1 <= t, t < 256
    PROVE  /\ HexDigits(s)[1] \in Int /\ HexDigits(s)[2] \in Int
           /\ HexDigits(s)[1] = HexDigits(t)[1] /\ HexDigits(s)[2] = HexDigits(t)[2] => s = t
<1>1. /\ s < 16 => HexDigits(s)[1] = s /\ HexDigits(s)[2] = -1
      /\ s >= 16 => HexDigits(s)[1] = s \div 16 /\ HexDigits(s)[2] = s % 16
  BY DEF HexDigits, None
<1>2. /\ t < 16 => HexDigits(t)[1] = t /\ HexDigits(t)[2] = -1
      /\ t >= 16 => HexDigits(t)[1] = t \div 16 /\ HexDigits(t)[2] = t % 16
  BY DEF HexDigits, None
<1>3. s >= 16 => /\ s = 16 * (s \div 16) + (s % 16) /\ s % 16 >= 0
                /\ s \div 16 \in Int /\ s % 16 \in Int
  OBVIOUS
<1>4. t >= 16 => /\ t = 16 * (t \div 16) + (t % 16) /\ t % 16 >= 0
                /\ t \div 16 \in Int /\ t % 16 \in Int
  OBVIOUS
<1>5. s \in Int /\ t \in Int
  OBVIOUS
<1>6. HexDigits(s)[1] \in Int /\ HexDigits(s)[2] \in Int
  BY <1>1, <1>3, <1>5
<1>7. ASSUME HexDigits(s)[1] = HexDigits(t)[1], HexDigits(s)[2] = HexDigits(t)[2] PROVE s = t
  <2>1. CASE s < 16 /\ t < 16
    BY <1>1, <1>2, <1>7, <2>1
  <2>2. CASE s < 16 /\ t >= 16
    BY <1>1, <1>2, <1>4, <1>7, <2>2
  <2>3. CASE s >= 16 /\ t < 16
    BY <1>1, <1>2, <1>3, <1>7, <2>3
  <2>4. CASE s >= 16 /\ t >= 16
    BY <1>1, <1>2, <1>3, <1>4, <1>7, <2>4
  <2>5. QED
    BY <1>5, <2>1, <2>2, <2>3, <2>4
<1>8. QED
  BY <1>6, <1>7

IsObjectName(name) == IsName(name) /\ name.object

\* An object name is its index and subindex.
LEMMA ObjectNameFields ==
    ASSUME NEW name, IsObjectName(name)
    PROVE  /\ name = ObjectName(name.index, name.sub)
           /\ name.index \in Int /\ name.sub \in Int /\ -1 <= name.sub /\ name.sub < 256
<1>1. name = ObjectName(name.index, name.sub) /\ name.index \in Int
  BY DEF IsObjectName, IsName
<1>2. name.sub \in Int /\ -1 <= name.sub /\ name.sub < 256
  BY DEF IsObjectName, IsName, None
<1>3. QED
  BY <1>1, <1>2

\* Object names are in a strict total order.
LEMMA NamesAreOrdered ==
    /\ \A a : IsObjectName(a) => ~NameBefore(a, a)
    /\ \A a, b, c :
          IsObjectName(a) /\ IsObjectName(b) /\ IsObjectName(c)
          /\ NameBefore(a, b) /\ NameBefore(b, c) => NameBefore(a, c)
    /\ \A a, b : IsObjectName(a) /\ IsObjectName(b) /\ a # b
                       => NameBefore(a, b) \/ NameBefore(b, a)
<1> DEFINE H1(a) == HexDigits(a.sub)[1]
           H2(a) == HexDigits(a.sub)[2]
<1>1. ASSUME NEW a, IsObjectName(a)
      PROVE  a.index \in Int /\ H1(a) \in Int /\ H2(a) \in Int /\ a.object
  BY <1>1, ObjectNameFields, HexDigitsAreInjective DEF IsObjectName
<1>2. ASSUME NEW a, NEW b, IsObjectName(a), IsObjectName(b)
      PROVE  NameBefore(a, b) <=>
                \/ a.index < b.index
                \/ /\ a.index = b.index
                   /\ H1(a) < H1(b) \/ (H1(a) = H1(b) /\ H2(a) < H2(b))
  BY <1>1, <1>2 DEF NameBefore, Precedes
<1>3. ASSUME NEW a, NEW b, IsObjectName(a), IsObjectName(b),
             a.index = b.index, H1(a) = H1(b), H2(a) = H2(b)
      PROVE  a = b
  <2>1. a.sub = b.sub
    BY <1>3, ObjectNameFields, HexDigitsAreInjective
  <2>2. a = ObjectName(a.index, a.sub) /\ b = ObjectName(b.index, b.sub)
    BY <1>3, ObjectNameFields
  <2>3. QED
    BY <1>3, <2>1, <2>2
<1> HIDE DEF H1, H2
<1>4. ASSUME NEW a, IsObjectName(a) PROVE ~NameBefore(a, a)
  BY <1>1, <1>2, <1>4
<1>5. ASSUME NEW a, NEW b, NEW c, IsObjectName(a), IsObjectName(b), IsObjectName(c),
             NameBefore(a, b), NameBefore(b, c)
      PROVE  NameBefore(a, c)
  BY <1>1, <1>2, <1>5
<1>6. ASSUME NEW a, NEW b, IsObjectName(a), IsObjectName(b), a # b
      PROVE  NameBefore(a, b) \/ NameBefore(b, a)
  <2>1. a.index # b.index \/ H1(a) # H1(b) \/ H2(a) # H2(b)
    BY <1>3, <1>6
  <2>2. QED
    BY <1>1, <1>2, <1>6, <2>1
<1>7. \A a : IsObjectName(a) => ~NameBefore(a, a)
  BY <1>4
<1>8. \A a, b, c :
         IsObjectName(a) /\ IsObjectName(b) /\ IsObjectName(c)
         /\ NameBefore(a, b) /\ NameBefore(b, c) => NameBefore(a, c)
  BY <1>5
<1>9. \A a, b : IsObjectName(a) /\ IsObjectName(b) /\ a # b
                   => NameBefore(a, b) \/ NameBefore(b, a)
  BY <1>6
<1>10. QED
  BY <1>7, <1>8, <1>9

\* The list of ordered names holds those names.
LEMMA OrderedNamesAreNames ==
    ASSUME NEW S, IsFiniteSet(S), \A a \in S : IsObjectName(a)
    PROVE  /\ DOMAIN Ordered(S, NameBefore) = 1..Cardinality(S)
           /\ \A i \in DOMAIN Ordered(S, NameBefore) : Ordered(S, NameBefore)[i] \in S
<1>1. PICK R : R = {r \in S \X S : NameBefore(r[1], r[2])}
  OBVIOUS
<1>2. \A a, b \in S : <<a, b>> \in R <=> NameBefore(a, b)
  BY <1>1
<1>3. Orders(R, S)
  BY <1>2, NamesAreOrdered DEF Orders
<1>4. \A x \in S : {y \in S : <<y, x>> \in R} = {y \in S : NameBefore(y, x)}
  BY <1>2
<1>5. ASSUME NEW k \in 1..Cardinality(S)
      PROVE  \E x \in S : Cardinality({y \in S : NameBefore(y, x)}) = k - 1
  <2>1. PICK x \in S : Cardinality({y \in S : <<y, x>> \in R}) = k - 1
    BY <1>3, Ranks
  <2>2. QED
    BY <1>4, <2>1
<1>6. QED
  BY <1>5 DEF Ordered

\* Sorting a list of objects keeps the objects.
LEMMA SortedKeepsObjects ==
    ASSUME NEW list, NEW n \in Nat, DOMAIN list = 1..n,
           NEW f, NEW g,
           \A i \in 1..n : /\ list[i].address = Address(f[i], g[i])
                           /\ f[i] \in Int /\ g[i] \in Int
    PROVE  /\ DOMAIN SortedByAddress(list) = 1..n
           /\ \A i \in 1..n : \E j \in 1..n : SortedByAddress(list)[i] = list[j]
<1> DEFINE Before(i, j) == \/ Precedes(list[i].address, list[j].address)
                           \/ list[i].address = list[j].address /\ i < j
           order == [i \in 1..Cardinality(1..n) |->
                        CHOOSE x \in 1..n : Cardinality({y \in 1..n : Before(y, x)}) = i - 1]
<1>1. SortedByAddress(list) = [i \in 1..n |-> list[order[i]]]
  BY DEF SortedByAddress, Ordered
<1>2. IsFiniteSet(1..n) /\ Cardinality(1..n) = n
  BY RangeIsFinite
<1>3. PICK R : R = {r \in (1..n) \X (1..n) : Before(r[1], r[2])}
  OBVIOUS
<1>4. \A i, j \in 1..n : <<i, j>> \in R <=> Before(i, j)
  BY <1>3
<1>5. ASSUME NEW i \in 1..n, NEW j \in 1..n
      PROVE  /\ Precedes(list[i].address, list[j].address) <=>
                    f[i] < f[j] \/ (f[i] = f[j] /\ g[i] < g[j])
             /\ list[i].address = list[j].address <=> f[i] = f[j] /\ g[i] = g[j]
  <2>1. PICK a, b, c, d : a = f[i] /\ b = g[i] /\ c = f[j] /\ d = g[j]
    OBVIOUS
  <2>2. list[i].address = <<a, b>> /\ list[j].address = <<c, d>>
    BY <2>1 DEF Address
  <2>3. <<a, b>> = <<c, d>> <=> a = c /\ b = d
    OBVIOUS
  <2>4. Precedes(<<a, b>>, <<c, d>>) <=> a < c \/ (a = c /\ b < d)
    BY DEF Precedes
  <2>5. QED
    BY <2>1, <2>2, <2>3, <2>4
<1>6. ASSUME NEW i \in 1..n, NEW j \in 1..n
      PROVE  Before(i, j) <=> \/ f[i] < f[j] \/ (f[i] = f[j] /\ g[i] < g[j])
                              \/ f[i] = f[j] /\ g[i] = g[j] /\ i < j
  BY <1>5
<1> HIDE DEF Before
<1>7. Orders(R, 1..n)
  <2>1. ASSUME NEW x \in 1..n PROVE ~Before(x, x)
    BY <1>6
  <2>2. ASSUME NEW x \in 1..n, NEW y \in 1..n, NEW z \in 1..n, Before(x, y), Before(y, z)
        PROVE  Before(x, z)
    BY <1>6, <2>2
  <2>3. ASSUME NEW x \in 1..n, NEW y \in 1..n, x # y PROVE Before(x, y) \/ Before(y, x)
    BY <1>6, <2>3
  <2>4. QED
    BY <1>4, <2>1, <2>2, <2>3 DEF Orders
<1>8. \A x \in 1..n : {y \in 1..n : <<y, x>> \in R} = {y \in 1..n : Before(y, x)}
  BY <1>4
<1>9. ASSUME NEW k \in 1..n PROVE order[k] \in 1..n
  <2>1. PICK S : S = 1..n
    OBVIOUS
  <2>2. IsFiniteSet(S) /\ Orders(R, S) /\ k \in 1..Cardinality(S)
    BY <1>2, <1>7, <2>1
  <2>3. \E x \in S : Cardinality({y \in S : <<y, x>> \in R}) = k - 1
    BY ONLY <2>2, Ranks
  <2>4. PICK x \in 1..n : Cardinality({y \in 1..n : <<y, x>> \in R}) = k - 1
    BY <2>1, <2>3
  <2>5. Cardinality({y \in 1..n : Before(y, x)}) = k - 1
    BY <1>8, <2>4
  <2>6. QED
    BY <1>2, <2>5
<1> HIDE DEF order
<1>10. QED
  BY <1>1, <1>9

-----------------------------------------------------------------------------
(* The objects of a data sheet                                             *)

\* The sections have names, and their fields are terms.
LEMMA SectionNames ==
    ASSUME NEW map, NEW lines \in Texts, NEW p \in 0..Len(lines), AsWritten(map, lines, p),
           NEW name \in DOMAIN map
    PROVE  IsName(name) /\ \E i \in 1..p : lines[i] = Section(name)
<1>1. PICK i \in 1..p : lines[i].kind = "section" /\ name = lines[i].name
  BY DEF AsWritten, NamesOf
<1>2. IsLine(lines[i])
  BY TextHasLines
<1>3. lines[i] = Section(lines[i].name) /\ IsName(lines[i].name)
  BY <1>1, <1>2 DEF IsLine, Other, Pair
<1>4. QED
  BY <1>1, <1>3

\* Every section of the text is there.
LEMMA SectionIsNamed ==
    ASSUME NEW map, NEW lines, NEW p, AsWritten(map, lines, p), NEW name,
           NEW i \in 1..p, lines[i] = Section(name)
    PROVE  name \in DOMAIN map
<1>1. lines[i].kind = "section" /\ lines[i].name = name
  BY DEF Section
<1>2. QED
  BY <1>1 DEF AsWritten, NamesOf

\* What the sections hold can be summed up.
LEMMA FieldsAreTerms ==
    ASSUME NEW map, NEW lines \in Texts, NEW p \in 0..Len(lines), AsWritten(map, lines, p),
           NEW name \in DOMAIN map, NEW key \in Keys, key \in DOMAIN map[name]
    PROVE  AreTerms(map[name][key])
<1>1. PICK S : S = PairsOf(lines, p, name, key)
  OBVIOUS
<1>2. S # {} /\ map[name][key] = lines[Greatest(S)].value
  BY <1>1 DEF AsWritten, FieldAsWritten
<1>3. S \in SUBSET (1..p) /\ p \in Nat
  BY <1>1, TextHasLines DEF PairsOf
<1>4. Max(S) \in S /\ \A y \in S : Max(S) >= y
  BY <1>2, <1>3, MaxOfPositions
<1>5. \A y \in S : y <= Max(S)
  BY <1>3, <1>4
<1>6. Greatest(S) \in S
  BY <1>4, <1>5 DEF Greatest
<1>7. PICK i : i = Greatest(S)
  OBVIOUS
<1>8. i \in 1..p /\ lines[i].kind = "pair"
  BY <1>1, <1>3, <1>6, <1>7 DEF PairsOf
<1>9. IsLine(lines[i])
  BY <1>8, TextHasLines
<1>10. AreTerms(lines[i].value)
  BY <1>8, <1>9 DEF IsLine, AreTerms, Other, Section
<1>11. QED
  BY <1>2, <1>7, <1>10

\* FileNodeId and WrittenNumber, with the text as a parameter.
NodeOf(lines, p) ==
    LET title == IF \E i \in 1..p : lines[i] = Section(Title("devicecomissioning"))
                 THEN Title("devicecomissioning") ELSE Title("devicecommissioning")
        terms == lines[Greatest(PairsOf(lines, p, title, "nodeid"))].value
    IN IF \/ PairsOf(lines, p, title, "nodeid") = {}
          \/ \E i \in DOMAIN terms : terms[i].kind = "word"
          \/ SumWith(terms, 0) \notin 0..255
       THEN 0 ELSE SumWith(terms, 0)
NumberOf(lines, p, name) ==
    LET key == IF PairsOf(lines, p, name, "parametervalue") # {}
               THEN "parametervalue" ELSE "defaultvalue"
    IN IF PairsOf(lines, p, name, key) = {} THEN 0
       ELSE SumWith(lines[Greatest(PairsOf(lines, p, name, key))].value, NodeOf(lines, p))

\* WrittenNumber is the number of the text so far.
LEMMA NumberIs == \A name : WrittenNumber(name) = NumberOf(text, pos, name)
BY DEF WrittenNumber, FileNodeId, Pairs, Written, NumberOf, NodeOf, PairsOf

\* Eds::parse finds the node-id that the text has.
LEMMA NodeIdIsWritten ==
    ASSUME NEW map, NEW lines \in Texts, NEW p \in 0..Len(lines), AsWritten(map, lines, p)
    PROVE  ForExpressions(NodeId(map)) = NodeOf(lines, p) /\ NodeOf(lines, p) \in Int
<1> DEFINE right == Title("devicecomissioning")
           wrong == Title("devicecommissioning")
<1>1. right \in DOMAIN map <=> \E i \in 1..p : lines[i] = Section(right)
  BY SectionNames, SectionIsNamed
<1>2. PICK title : title = IF right \in DOMAIN map THEN right ELSE wrong
  OBVIOUS
<1>3. PICK S : S = PairsOf(lines, p, title, "nodeid")
  OBVIOUS
<1>4. PICK terms : terms = lines[Greatest(S)].value
  OBVIOUS
<1>5. NodeOf(lines, p) = IF \/ S = {} \/ \E i \in DOMAIN terms : terms[i].kind = "word"
                            \/ SumWith(terms, 0) \notin 0..255
                         THEN 0 ELSE SumWith(terms, 0)
  BY <1>1, <1>2, <1>3, <1>4 DEF NodeOf
<1>6. PICK read : read = IF title \in DOMAIN map THEN Field(map[title], "nodeid", <<Word("")>>)
                         ELSE <<Word("")>>
  OBVIOUS
<1>7. NodeId(map) = IF IsExpression(read) /\ Evaluate(read, 0) \in 0..255
                    THEN Evaluate(read, 0) ELSE None
  BY <1>2, <1>6 DEF NodeId
<1>8. "nodeid" \in Keys
  BY DEF Keys
<1>9. CASE S = {}
  <2>1. read = <<Word("")>>
    BY <1>3, <1>6, <1>8, <1>9 DEF Field, AsWritten, FieldAsWritten
  <2>2. ~IsExpression(read)
    <3>1. 1 \in DOMAIN <<Word("")>> /\ <<Word("")>>[1] = Word("")
      OBVIOUS
    <3>2. Word("").kind = "word"
      BY DEF Word
    <3>3. QED
      BY <2>1, <3>1, <3>2 DEF IsExpression
  <2>3. NodeId(map) = None
    BY <1>7, <2>2
  <2>4. QED
    BY <1>5, <1>9, <2>3 DEF ForExpressions, None
<1>10. CASE S # {}
  <2>1. title \in DOMAIN map
    <3>1. PICK k \in S : TRUE
      BY <1>10
    <3>2. k \in 1..p /\ \E j \in 1..(k - 1) : lines[j] = Section(title)
      BY <1>3, <3>1 DEF PairsOf
    <3>3. PICK j \in 1..p : lines[j] = Section(title)
      BY <3>2, TextHasLines
    <3>4. QED
      BY <3>3, SectionIsNamed
  <2>2. "nodeid" \in DOMAIN map[title] /\ map[title]["nodeid"] = terms
    BY <1>3, <1>4, <1>8, <1>10, <2>1 DEF AsWritten, FieldAsWritten
  <2>3. read = terms
    BY <1>6, <2>1, <2>2 DEF Field
  <2>4. AreTerms(terms)
    BY <1>8, <2>1, <2>2, FieldsAreTerms
  <2>5. PICK n : n = Evaluate(terms, 0)
    OBVIOUS
  <2>6. n = SumWith(terms, 0) /\ n \in Int
    BY <2>4, <2>5, EvaluateIsSumWith
  <2>7. IsExpression(terms) <=> ~\E i \in DOMAIN terms : terms[i].kind = "word"
    BY DEF IsExpression
  <2>8. NodeId(map) = IF IsExpression(terms) /\ n \in 0..255 THEN n ELSE None
    BY <1>7, <2>3, <2>5
  <2>9. NodeOf(lines, p) = IF IsExpression(terms) /\ n \in 0..255 THEN n ELSE 0
    BY <1>5, <1>10, <2>6, <2>7
  <2>10. \A k \in 0..255 : k # None /\ k \in Int
    BY DEF None
  <2>11. CASE IsExpression(terms) /\ n \in 0..255
    <3>1. NodeId(map) = n /\ NodeOf(lines, p) = n
      BY <2>8, <2>9, <2>11
    <3>2. n # None
      BY <2>10, <2>11
    <3>3. QED
      BY <2>6, <3>1, <3>2 DEF ForExpressions
  <2>12. CASE ~(IsExpression(terms) /\ n \in 0..255)
    <3>1. NodeId(map) = None /\ NodeOf(lines, p) = 0
      BY <2>8, <2>9, <2>12
    <3>2. QED
      BY <3>1 DEF ForExpressions
  <2>13. QED
    BY <2>11, <2>12
<1>11. QED
  BY <1>9, <1>10

-----------------------------------------------------------------------------
(* Numbers                                                                 *)

\* The powers of two in value_from_str.
LEMMA Widths == 2 ^ 7 = 128 /\ 2 ^ 8 = 256 /\ 2 ^ 15 = 32768 /\ 2 ^ 16 = 65536
OBVIOUS

\* The low bits are in range, and differ by whole bytes.
LEMMA CutUnsigned ==
    ASSUME NEW e \in Int
    PROVE  /\ 0 <= e % 256 /\ e % 256 <= 255 /\ e % 256 \in Int
           /\ ((e % 256) - e) % 256 = 0
           /\ 0 <= e % 65536 /\ e % 65536 <= 65535 /\ e % 65536 \in Int
           /\ ((e % 65536) - e) % 256 = 0
OBVIOUS

\* So are those of a two's complement number.
LEMMA CutSigned ==
    ASSUME NEW e \in Int
    PROVE  /\ -128 <= SignExtended(e, 8) /\ SignExtended(e, 8) <= 127
           /\ SignExtended(e, 8) \in Int /\ (SignExtended(e, 8) - e) % 256 = 0
           /\ -32768 <= SignExtended(e, 16) /\ SignExtended(e, 16) <= 32767
           /\ SignExtended(e, 16) \in Int /\ (SignExtended(e, 16) - e) % 256 = 0
<1>1. SignExtended(e, 8) = ((e + 128) % 256) - 128
  BY Widths DEF SignExtended
<1>2. SignExtended(e, 16) = ((e + 32768) % 65536) - 32768
  BY Widths DEF SignExtended
<1>3. (((e + 128) % 256) - 128 - e) % 256 = 0
  OBVIOUS
<1>4. (((e + 32768) % 65536) - 32768 - e) % 256 = 0
  OBVIOUS
<1>5. QED
  BY <1>1, <1>2, <1>3, <1>4

\* The sum of no terms.
LEMMA NoTerms == \A id \in Int : Evaluate(<<>>, id) = 0
<1> SUFFICES ASSUME NEW id \in Int PROVE Evaluate(<<>>, id) = 0
  OBVIOUS
<1>1. DOMAIN <<>> = 1..Len(<<>>) /\ Len(<<>>) = 0
  OBVIOUS
<1>2. Evaluate(<<>>, id) = Total(Weights(<<>>, id), 0)
  BY <1>1, EvaluateIsTotal
<1>3. PICK w : w = Weights(<<>>, id)
  OBVIOUS
<1>4. PICK f : IsSum(f, w, 0)
  BY SumExists
<1>5. f[1..0] = Total(w, 0)
  BY <1>4, TotalIs
<1>6. f = [s \in SUBSET (1..0) |-> IF s = {} THEN 0 ELSE f[s \ {Max(s)}] + w[Max(s)]]
  BY <1>4 DEF IsSum
<1>7. PICK T : T = 1..0
  OBVIOUS
<1>8. T = {} /\ T \in SUBSET (1..0)
  BY <1>7
<1>9. f[T] = 0
  BY <1>6, <1>8
<1>10. QED
  BY <1>2, <1>3, <1>5, <1>7, <1>9

\* What Eds::parse evaluates for an object is the number the text has for it:
\* the configured value before the default one, 0 without either.
LEMMA RawIsWritten ==
    ASSUME NEW map, NEW lines \in Texts, NEW p \in 0..Len(lines), AsWritten(map, lines, p),
           NEW name \in DOMAIN map
    PROVE  /\ Evaluate(RawValue(map[name]), NodeOf(lines, p)) = NumberOf(lines, p, name)
           /\ NumberOf(lines, p, name) \in Int
<1>1. PICK id : id = NodeOf(lines, p)
  OBVIOUS
<1>2. id \in Int
  BY <1>1, NodeIdIsWritten
<1>3. PICK fields : fields = map[name]
  OBVIOUS
<1>4. "parametervalue" \in Keys /\ "defaultvalue" \in Keys
  BY DEF Keys
<1>5. \A key \in Keys :
         /\ key \in DOMAIN fields <=> PairsOf(lines, p, name, key) # {}
         /\ key \in DOMAIN fields =>
               /\ fields[key] = lines[Greatest(PairsOf(lines, p, name, key))].value
               /\ AreTerms(fields[key])
  BY <1>3, FieldsAreTerms DEF AsWritten, FieldAsWritten
<1>6. PICK key : key = IF "parametervalue" \in DOMAIN fields
                       THEN "parametervalue" ELSE "defaultvalue"
  OBVIOUS
<1>7. key \in Keys
  BY <1>4, <1>6
<1>8. NumberOf(lines, p, name) =
          IF PairsOf(lines, p, name, key) = {} THEN 0
          ELSE SumWith(lines[Greatest(PairsOf(lines, p, name, key))].value, id)
  BY <1>1, <1>4, <1>5, <1>6 DEF NumberOf
<1>9. CASE key \in DOMAIN fields
  <2>1. RawValue(fields) = fields[key]
    BY <1>6, <1>9 DEF RawValue, Field
  <2>2. PICK terms : terms = fields[key]
    OBVIOUS
  <2>3. AreTerms(terms) /\ NumberOf(lines, p, name) = SumWith(terms, id)
    BY <1>5, <1>7, <1>8, <1>9, <2>2
  <2>4. Evaluate(terms, id) = SumWith(terms, id) /\ Evaluate(terms, id) \in Int
    BY <1>2, <2>3, EvaluateIsSumWith
  <2>5. QED
    BY <1>1, <1>3, <2>1, <2>2, <2>3, <2>4
<1>10. CASE key \notin DOMAIN fields
  <2>1. RawValue(fields) = <<>>
    BY <1>6, <1>10 DEF RawValue, Field
  <2>2. NumberOf(lines, p, name) = 0
    BY <1>5, <1>7, <1>8, <1>10
  <2>3. QED
    BY <1>1, <1>2, <1>3, <2>1, <2>2, NoTerms
<1>11. QED
  BY <1>9, <1>10

\* NumbersAsWritten, for one object of a list.
ObjectAsWritten(object, map, lines, p) ==
    object.entry.type \in DOMAIN Numbers =>
        /\ object.entry.value.n \in Numbers[object.entry.type]
        /\ \E name \in DOMAIN map :
              /\ name.object /\ AddressOf(name) = object.address
              /\ PairsOf(lines, p, name, "datatype") # {}
              /\ (object.entry.value.n - NumberOf(lines, p, name)) % 256 = 0

\* Membership in a range, by its bounds.
LEMMA SignedRange ==
    ASSUME NEW b, NEW v \in Int, NEW w \in Int, 2 ^ (b - 1) = w, -w <= v, v < w
    PROVE  v \in Signed(b)
<1>1. Signed(b) = (-w)..(w - 1)
  BY DEF Signed
<1>2. v \in (-w)..(w - 1)
  OBVIOUS
<1>3. QED
  BY <1>1, <1>2

\* The same for the unsigned types.
LEMMA UnsignedRange ==
    ASSUME NEW b, NEW v \in Int, NEW w \in Int, 2 ^ b = w, 0 <= v, v < w
    PROVE  v \in Unsigned(b)
<1>1. Unsigned(b) = 0..(w - 1)
  BY DEF Unsigned
<1>2. v \in 0..(w - 1)
  OBVIOUS
<1>3. QED
  BY <1>1, <1>2

\* The value of an integer type is in its range, and ends in the bits of the number.
LEMMA ValueIsCut ==
    ASSUME NEW type \in DOMAIN Numbers, NEW terms, NEW id, NEW e \in Int,
           e = Evaluate(terms, id)
    PROVE  /\ FromText(type, terms, id).n \in Numbers[type]
           /\ (FromText(type, terms, id).n - e) % 256 = 0
<1>1. /\ DOMAIN Numbers = {"Integer8", "Integer16", "Unsigned8", "Unsigned16"}
      /\ Numbers["Integer8"] = Signed(8) /\ Numbers["Integer16"] = Signed(16)
      /\ Numbers["Unsigned8"] = Unsigned(8) /\ Numbers["Unsigned16"] = Unsigned(16)
  BY DEF Numbers
<1>2. \A k : Numeric(k).n = k
  BY DEF Numeric
<1>3. CASE type = "Integer8"
  <2>1. PICK v : v = SignExtended(e, 8)
    OBVIOUS
  <2>2. v \in Int /\ -128 <= v /\ v < 128 /\ (v - e) % 256 = 0
    BY <2>1, CutSigned
  <2>3. v \in Signed(8)
    <3>1. PICK b, w : b = 8 /\ w = 128
      OBVIOUS
    <3>2. 2 ^ (b - 1) = w /\ w \in Int
      BY <3>1, Widths
    <3>3. v \in Int /\ -w <= v /\ v < w
      BY <2>2, <3>1
    <3>4. v \in Signed(b)
      BY ONLY <3>2, <3>3, SignedRange
    <3>5. QED
      BY ONLY <3>1, <3>4
  <2>4. FromText(type, terms, id) = Numeric(v)
    BY <1>3, <2>1 DEF FromText
  <2>5. QED
    BY <1>1, <1>2, <1>3, <2>2, <2>3, <2>4
<1>4. CASE type = "Integer16"
  <2>1. PICK v : v = SignExtended(e, 16)
    OBVIOUS
  <2>2. v \in Int /\ -32768 <= v /\ v < 32768 /\ (v - e) % 256 = 0
    BY <2>1, CutSigned
  <2>3. v \in Signed(16)
    <3>1. PICK b, w : b = 16 /\ w = 32768
      OBVIOUS
    <3>2. 2 ^ (b - 1) = w /\ w \in Int
      BY <3>1, Widths
    <3>3. v \in Int /\ -w <= v /\ v < w
      BY <2>2, <3>1
    <3>4. v \in Signed(b)
      BY ONLY <3>2, <3>3, SignedRange
    <3>5. QED
      BY ONLY <3>1, <3>4
  <2>4. FromText(type, terms, id) = Numeric(v)
    BY <1>4, <2>1 DEF FromText
  <2>5. QED
    BY <1>1, <1>2, <1>4, <2>2, <2>3, <2>4
<1>5. CASE type = "Unsigned8"
  <2>1. PICK v : v = e % 256
    OBVIOUS
  <2>2. v \in Int /\ 0 <= v /\ v < 256 /\ (v - e) % 256 = 0
    BY <2>1, CutUnsigned
  <2>3. v \in Unsigned(8)
    <3>1. PICK b, w : b = 8 /\ w = 256
      OBVIOUS
    <3>2. 2 ^ b = w /\ w \in Int
      BY <3>1, Widths
    <3>3. v \in Int /\ 0 <= v /\ v < w
      BY <2>2, <3>1
    <3>4. v \in Unsigned(b)
      BY ONLY <3>2, <3>3, UnsignedRange
    <3>5. QED
      BY ONLY <3>1, <3>4
  <2>4. FromText(type, terms, id) = Numeric(v)
    BY <1>5, <2>1, Widths DEF FromText
  <2>5. QED
    BY <1>1, <1>2, <1>5, <2>2, <2>3, <2>4
<1>6. CASE type = "Unsigned16"
  <2>1. PICK v : v = e % 65536
    OBVIOUS
  <2>2. v \in Int /\ 0 <= v /\ v < 65536 /\ (v - e) % 256 = 0
    BY <2>1, CutUnsigned
  <2>3. v \in Unsigned(16)
    <3>1. PICK b, w : b = 16 /\ w = 65536
      OBVIOUS
    <3>2. 2 ^ b = w /\ w \in Int
      BY <3>1, Widths
    <3>3. v \in Int /\ 0 <= v /\ v < w
      BY <2>2, <3>1
    <3>4. v \in Unsigned(b)
      BY ONLY <3>2, <3>3, UnsignedRange
    <3>5. QED
      BY ONLY <3>1, <3>4
  <2>4. FromText(type, terms, id) = Numeric(v)
    BY <1>6, <2>1, Widths DEF FromText
  <2>5. QED
    BY <1>1, <1>2, <1>6, <2>2, <2>3, <2>4
<1>7. QED
  BY <1>1, <1>3, <1>4, <1>5, <1>6

\* An object that Eds::parse describes has the number of its section.
LEMMA DescriptionAsWritten ==
    ASSUME NEW map, NEW lines \in Texts, NEW p \in 0..Len(lines), AsWritten(map, lines, p),
           NEW name \in DOMAIN map, Describes(name, map[name]),
           NEW id, id = NodeOf(lines, p)
    PROVE  ObjectAsWritten(Description(name, map[name], id), map, lines, p)
<1>1. PICK type : type = TypeOf(map[name], id)
  OBVIOUS
<1>2. PICK terms : terms = RawValue(map[name])
  OBVIOUS
<1>3. PICK access : access = AccessWords[RawAccess(map[name])[1].text]
  OBVIOUS
<1>4. PICK value : value = FromText(type, terms, id)
  OBVIOUS
<1>5. Description(name, map[name], id) =
          [address |-> AddressOf(name), entry |-> Entry(type, value, access)]
  BY <1>1, <1>2, <1>3, <1>4 DEF Description
<1>6. PICK object : object = Description(name, map[name], id)
  OBVIOUS
<1>7. /\ object.address = AddressOf(name)
      /\ object.entry.type = type /\ object.entry.value = value
  BY <1>5, <1>6 DEF Entry
<1>8. PICK e : e = NumberOf(lines, p, name)
  OBVIOUS
<1>9. e \in Int /\ e = Evaluate(terms, id)
  BY <1>2, <1>8, RawIsWritten
<1>10. name.object /\ PairsOf(lines, p, name, "datatype") # {}
  BY DEF Describes, AsWritten, FieldAsWritten, Keys
<1>11. ASSUME type \in DOMAIN Numbers
       PROVE  value.n \in Numbers[type] /\ (value.n - e) % 256 = 0
  BY <1>4, <1>9, <1>11, ValueIsCut
<1>12. ObjectAsWritten(object, map, lines, p)
  BY <1>7, <1>8, <1>10, <1>11 DEF ObjectAsWritten
<1>13. QED
  BY <1>6, <1>12

\* Every object that Eds::parse lists is as the text has it.
LEMMA ParsedAsWritten ==
    ASSUME ReadInv, Parse, phase' = "parsed"
    PROVE  \A i \in DOMAIN objects' : ObjectAsWritten(objects'[i], sections, text, pos)
<1>1. PICK map, lines, p, id :
          map = sections /\ lines = text /\ p = pos /\ id = ForExpressions(NodeId(sections))
  OBVIOUS
<1>2. lines \in Texts /\ p \in 0..Len(lines) /\ AsWritten(map, lines, p)
  BY <1>1, ReadAsWrittenIs DEF ReadInv
<1>3. id = NodeOf(lines, p)
  BY <1>1, <1>2, NodeIdIsWritten
<1>4. PICK described : described = {n \in DOMAIN map : Describes(n, map[n])}
  OBVIOUS
<1>5. PICK S : S = {n \in described : TypeOf(map[n], id) # Unmodelled}
  OBVIOUS
<1>6. PICK names : names = Ordered(S, NameBefore)
  OBVIOUS
<1>7. PICK list : list = [i \in DOMAIN names |-> Description(names[i], map[names[i]], id)]
  OBVIOUS
<1>8. phase = "reading"
  BY DEF Parse
<1>9. objects' = SortedByAddress(list)
  <2>1. phase' # "failed"
    OBVIOUS
  <2>2. QED
    BY <1>1, <1>4, <1>5, <1>6, <1>7, <2>1 DEF Parse
<1>10. IsFiniteSet(S) /\ S \subseteq DOMAIN map
  BY <1>1, <1>4, <1>5, SectionsAreFinite, FS_Subset
<1>11. \A n \in S : IsObjectName(n) /\ n \in DOMAIN map /\ Describes(n, map[n])
  BY <1>2, <1>4, <1>5, SectionNames DEF Describes, IsObjectName
<1>12. PICK c \in Nat : c = Cardinality(S)
  BY <1>10, FS_CardinalityType
<1>13. DOMAIN names = 1..c /\ \A i \in 1..c : names[i] \in S
  BY <1>6, <1>10, <1>11, <1>12, OrderedNamesAreNames
<1>14. DOMAIN list = 1..c /\ \A i \in 1..c : list[i] = Description(names[i], map[names[i]], id)
  BY <1>7, <1>13
<1>15. PICK f, g : /\ f = [i \in 1..c |-> names[i].index]
                   /\ g = [i \in 1..c |-> IF names[i].sub = None THEN 0 ELSE names[i].sub]
  OBVIOUS
<1>16. ASSUME NEW i \in 1..c
       PROVE  list[i].address = Address(f[i], g[i]) /\ f[i] \in Int /\ g[i] \in Int
  <2>1. names[i].index \in Int /\ names[i].sub \in Int
    BY <1>11, <1>13, ObjectNameFields
  <2>2. list[i].address = AddressOf(names[i])
    BY <1>14 DEF Description
  <2>3. QED
    BY <1>15, <2>1, <2>2 DEF AddressOf
<1>17. /\ DOMAIN SortedByAddress(list) = 1..c
       /\ \A i \in 1..c : \E j \in 1..c : SortedByAddress(list)[i] = list[j]
  <2>1. c \in Nat /\ DOMAIN list = 1..c
    BY <1>14
  <2>2. \A i \in 1..c : /\ list[i].address = Address(f[i], g[i])
                        /\ f[i] \in Int /\ g[i] \in Int
    BY <1>16
  <2>3. QED
    BY ONLY <2>1, <2>2, SortedKeepsObjects
<1>18. ASSUME NEW j \in 1..c PROVE ObjectAsWritten(list[j], map, lines, p)
  <2>1. names[j] \in DOMAIN map /\ Describes(names[j], map[names[j]])
    BY <1>11, <1>13
  <2>2. ObjectAsWritten(Description(names[j], map[names[j]], id), map, lines, p)
    BY <1>2, <1>3, <2>1, DescriptionAsWritten
  <2>3. QED
    BY <1>14, <2>2
<1>19. QED
  BY <1>1, <1>9, <1>17, <1>18

\* The objects are as the text has them, from the moment they are parsed.
NumbersInv ==
    /\ phase = "reading" => objects = <<>>
    /\ \A i \in DOMAIN objects : ObjectAsWritten(objects[i], sections, text, pos)

\* It holds in every reachable state.
LEMMA NumbersInvariance == Spec => []NumbersInv
<1>1. Init => NumbersInv
  <2>1. DOMAIN <<>> = {}
    OBVIOUS
  <2>2. QED
    BY <2>1 DEF Init, NumbersInv
<1>2. ReadInv /\ NumbersInv /\ [Next]_vars => NumbersInv'
  <2> SUFFICES ASSUME ReadInv, NumbersInv, [Next]_vars PROVE NumbersInv'
    OBVIOUS
  <2>1. CASE ReadLine
    <3>1. objects' = <<>> /\ DOMAIN <<>> = {}
      BY <2>1 DEF ReadLine, NumbersInv
    <3>2. QED
      BY <3>1 DEF NumbersInv
  <2>2. CASE Parse
    <3>1. UNCHANGED <<text, pos, sections>> /\ phase = "reading" /\ objects = <<>>
      BY <2>2 DEF Parse, NumbersInv
    <3>2. CASE phase' = "failed" /\ UNCHANGED objects
      BY <3>1, <3>2 DEF NumbersInv
    <3>3. CASE phase' = "parsed"
      BY <2>2, <3>1, <3>3, ParsedAsWritten DEF NumbersInv
    <3>4. QED
      BY <2>2, <3>2, <3>3, ParseMakesList
  <2>3. CASE BuildNext \/ ExecuteNext \/ UNCHANGED vars
    <3>1. UNCHANGED <<text, pos, sections, objects>>
      BY <2>3 DEF BuildNext, ExecuteNext, vars
    <3>2. phase' = "reading" => phase = "reading"
      BY <2>3 DEF BuildNext, ExecuteNext, vars
    <3>3. QED
      BY <3>1, <3>2 DEF NumbersInv
  <2>4. QED
    BY <2>1, <2>2, <2>3 DEF Next
<1>3. QED
  BY <1>1, <1>2, BuildInvariance, PTL DEF Spec

\* value_from_str gives every object of an integer type the number that the text
\* gives it, in its range: the configured value before the default one, and the
\* node-id of the file wherever in the file that stands.
THEOREM AlwaysNumbersAsWritten == Spec => []NumbersAsWritten
<1>1. BuildInv /\ NumbersInv => NumbersAsWritten
  <2> SUFFICES ASSUME BuildInv, NumbersInv, NEW a \in DOMAIN od,
                      od[a].type \in DOMAIN Numbers
               PROVE  /\ od[a].value.n \in Numbers[od[a].type]
                      /\ \E name \in DOMAIN sections :
                            /\ name.object /\ AddressOf(name) = a
                            /\ Pairs(name, "datatype") # {}
                            /\ (od[a].value.n - WrittenNumber(name)) % 256 = 0
    BY DEF NumbersAsWritten
  <2>1. PICK i \in 1..built : objects[i].address = a /\ od[a] = objects[i].entry
    <3>1. Holds(od, objects, built)
      BY DEF BuildInv
    <3>2. QED
      BY <3>1 DEF Holds
  <2>2. i \in DOMAIN objects
    BY <2>1 DEF BuildInv
  <2>3. ObjectAsWritten(objects[i], sections, text, pos)
    BY <2>2 DEF NumbersInv
  <2>4. \A name : Pairs(name, "datatype") = PairsOf(text, pos, name, "datatype")
    BY DEF Pairs, PairsOf
  <2>5. QED
    BY <2>1, <2>3, <2>4, NumberIs DEF ObjectAsWritten
<1>2. QED
  BY <1>1, BuildInvariance, NumbersInvariance, PTL
=============================================================================

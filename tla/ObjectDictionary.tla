--------------------------- MODULE ObjectDictionary ---------------------------
(***************************************************************************)
(* The object dictionary as a value (core/src/object_dictionary.rs): a     *)
(* finite function from addresses to typed entries, of limited capacity.   *)
(***************************************************************************)
EXTENDS FiniteSets, Integers, Sequences

AccessType == {"Ro", "Wo", "Rw", "Const"}
Readable(access) == access \in {"Ro", "Rw", "Const"}
Writable(access) == access \in {"Wo", "Rw"}

Address(index, subindex) == <<index, subindex>>

\* Addresses are ordered by index, then by subindex.
Precedes(a, b) == a[1] < b[1] \/ (a[1] = b[1] /\ a[2] < b[2])

Entry(type, value, access) == [type |-> type, value |-> value, access |-> access]

Empty == <<>>

Has(od, addr) == addr \in DOMAIN od

\* Fault: an address that is there counts as a new one.
FullAtCapacity(od, addr, capacity) == Cardinality(DOMAIN od) >= capacity
DictionaryFull(od, addr, capacity) ==
    ~Has(od, addr) /\ Cardinality(DOMAIN od) >= capacity

\* ObjectDictionary::insert, when the dictionary is not full.
Insert(od, addr, entry) ==
    [a \in DOMAIN od \cup {addr} |-> IF a = addr THEN entry ELSE od[a]]

CanRead(od, addr) == Has(od, addr) /\ Readable(od[addr].access)

CanWrite(od, addr, type) ==
    Has(od, addr) /\ Writable(od[addr].access) /\ od[addr].type = type

Write(od, addr, type, value) ==
    IF CanWrite(od, addr, type) THEN [od EXCEPT ![addr].value = value] ELSE od

\* ObjectDictionary::set, from the device's side; an error leaves everything.
Set(od, addr, type, value) ==
    IF Has(od, addr) /\ od[addr].type = type
    THEN [od EXCEPT ![addr].value = value] ELSE od
=============================================================================

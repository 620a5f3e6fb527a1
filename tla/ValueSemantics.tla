--------------------------- MODULE ValueSemantics ---------------------------
(***************************************************************************)
(* How values are compared (compile/comparison.c, sss_hashmap_compare) and *)
(* hashed (compile/hashing.c, sss_hashmap_hash).  A value is               *)
(*   [n, rep, nan]   a number, truth value or address: n is what it counts *)
(*                   as, rep tells representations apart (0.0 and -0.0)    *)
(*   [at, items]     an array, with its place in memory                    *)
(*   [fields]        a struct                                              *)
(*   [member, data]  of a union, data being a sequence of at most one value*)
(*   [at, entries, fallback, default]  a table: a sequence of [key, value],*)
(*                   and sequences of at most one table and one value      *)
(* Hashes are taken to be injective: a hash is what was hashed.            *)
(***************************************************************************)
EXTENDS Types

Sign(x) == IF x > 0 THEN 1 ELSE IF x < 0 THEN -1 ELSE 0
IsLeaf(t) == t.tag \notin {"struct", "union", "array", "table"}

(* The first comparison that is not zero, or the last. *)
FirstDifference(cmps, otherwise) ==
  LET found[i \in 1..Len(cmps) + 1] ==
        IF i > Len(cmps) THEN otherwise ELSE IF cmps[i] # 0 THEN cmps[i] ELSE found[i + 1]
  IN  found[1]

-----------------------------------------------------------------------------
(* The memory of a value: an array or a table is where its items are. *)
RECURSIVE Memory(_, _)
Memory(type, v) ==
  LET t == Base(type)
  IN  CASE t.tag = "struct" -> [i \in DOMAIN t.fields |-> Memory(t.fields[i], v.fields[i])]
        [] t.tag = "array" -> <<v.at, Len(v.items)>>
        [] t.tag = "table" -> <<v.at, Len(v.entries)>>
        [] t.tag = "union" -> <<v.member, IF v.data = <<>> THEN <<>> ELSE Memory(t.members[v.member], v.data[1])>>
        [] OTHER -> <<v.n, v.rep>>

RECURSIVE Hash(_, _), HashTable(_, _)

(* xor of the hashes of the entries; the fallback's are hashed with it. *)
HashTable(t, v) ==
  LET entry == [tag |-> "struct", names |-> <<"key", "value">>, fields |-> <<t.key, t.value>>, units |-> ""]
      own == {Hash(entry, [fields |-> <<e.key, e.value>>]) : e \in Range(v.entries)}
      other == IF v.fallback = <<>> THEN {} ELSE HashTable(t, v.fallback[1])
  IN  (own \ other) \cup (other \ own)

(* get_hash_func.  Only arrays and tables right inside of a struct have    *)
(* their contents hashed; elsewhere it is the memory that is.              *)
Hash(type, v) ==
  LET t == Base(type)
      inside == t.tag = "struct" /\ \E i \in DOMAIN t.fields : t.fields[i].tag \in {"array", "table"}
      field(i) == IF t.fields[i].tag \in {"array", "table"} THEN Hash(t.fields[i], v.fields[i])
                  ELSE Memory(t.fields[i], v.fields[i])
  IN  CASE inside -> [i \in DOMAIN t.fields |-> field(i)]
        [] t.tag = "union" -> <<v.member, IF v.data = <<>> THEN <<>> ELSE <<Hash(t.members[v.member], v.data[1])>>>>
        [] t.tag = "array" -> [i \in DOMAIN v.items |-> Memory(t.item, v.items[i])]
        [] t.tag = "table" -> HashTable(t, v)
        [] OTHER -> Memory(t, v)

-----------------------------------------------------------------------------
RECURSIVE Compare(_, _, _), CompareTables(_, _, _), Lookup(_, _, _)

(* sss_hashmap_get: an entry with the hash of the key that compares equal  *)
(* to it, here or in a fallback, and otherwise the first default.          *)
Lookup(t, h, key) ==
  LET found == SelectSeq(h.entries, LAMBDA e : Hash(t.key, e.key) = Hash(t.key, key) /\ Compare(t.key, e.key, key) = 0)
      inherited == IF h.fallback = <<>> THEN [is |-> "none"] ELSE Lookup(t, h.fallback[1], key)
  IN  IF found # <<>> THEN [is |-> "entry", value |-> found[1].value]
      ELSE IF inherited.is = "entry" \/ h.default = <<>> THEN inherited
      ELSE [is |-> "default", value |-> h.default[1]]

(* sss_hashmap_compare *)
CompareTables(t, a, b) ==
  LET entry(e) == LET found == Lookup(t, b, e.key)
                  IN  IF found.is = "none" THEN 1 ELSE Compare(t.value, e.value, found.value)
      fallbacks == IF a.fallback = <<>> /\ b.fallback = <<>> THEN 0
                   ELSE IF a.fallback = <<>> \/ b.fallback = <<>> THEN 1
                   ELSE IF a.fallback[1].at = b.fallback[1].at THEN 0
                   ELSE CompareTables(t, a.fallback[1], b.fallback[1])
      defaults == IF a.default = <<>> /\ b.default = <<>> THEN 0
                  ELSE IF a.default = <<>> \/ b.default = <<>> THEN 1
                  ELSE Compare(t.value, a.default[1], b.default[1])
  IN  IF Len(a.entries) # Len(b.entries) THEN Len(a.entries) - Len(b.entries)
      ELSE FirstDifference([i \in DOMAIN a.entries |-> entry(a.entries[i])] \o <<fallbacks, defaults>>, 0)

(* Bug: which array is longer decides before the items do. *)
BugCompareItems(a, b, cmps) ==
  IF Len(a) # Len(b) THEN Len(a) - Len(b) ELSE FirstDifference(cmps, 0)
CompareItems(a, b, cmps) == FirstDifference(cmps, Len(a) - Len(b))

(* compare_values, get_compare_func; not a number is neither less nor more *)
(* than any.                                                               *)
Compare(type, a, b) ==
  LET t == Base(type)
      both == IF t.tag = "array" THEN (DOMAIN a.items) \cap (DOMAIN b.items) ELSE {}
  IN  CASE t.tag = "struct" ->
             FirstDifference([i \in DOMAIN t.fields |-> Compare(t.fields[i], a.fields[i], b.fields[i])], 0)
        [] t.tag = "union" -> IF a.member # b.member THEN Sign(a.member - b.member)
                              ELSE IF a.data = <<>> THEN 0
                              ELSE Compare(t.members[a.member], a.data[1], b.data[1])
        [] t.tag = "array" -> IF a.at = b.at THEN Len(a.items) - Len(b.items)
                              ELSE CompareItems(a.items, b.items,
                                                [i \in both |-> Compare(t.item, a.items[i], b.items[i])])
        [] t.tag = "table" -> CompareTables(t, a, b)
        [] OTHER -> IF a.nan \/ b.nan THEN 0 ELSE Sign(a.n - b.n)

(* a == b, a < b: a number is compared by itself, all else to zero. *)
Is(op, type, a, b) ==
  LET t == Base(type)
      alone == IsNumeric(t) \/ type.tag = "pointer"
      c == Compare(t, a, b)
      holds == CASE op = "==" -> c = 0 [] op = "<" -> c < 0 [] op = "<=" -> c <= 0
  IN  holds /\ (alone => ~a.nan /\ ~b.nan)

-----------------------------------------------------------------------------
(* Values with the same contents. *)
RECURSIVE SameContents(_, _, _)
SameContents(type, a, b) ==
  LET t == Base(type)
      within(x, y) == \A e \in Range(x) : \E f \in Range(y) :
                        SameContents(t.key, e.key, f.key) /\ SameContents(t.value, e.value, f.value)
  IN  CASE t.tag = "struct" -> \A i \in DOMAIN t.fields : SameContents(t.fields[i], a.fields[i], b.fields[i])
        [] t.tag = "array" -> /\ Len(a.items) = Len(b.items)
                              /\ \A i \in DOMAIN a.items : SameContents(t.item, a.items[i], b.items[i])
        [] t.tag = "union" -> /\ a.member = b.member
                              /\ a.data # <<>> => SameContents(t.members[a.member], a.data[1], b.data[1])
        [] t.tag = "table" -> within(a.entries, b.entries) /\ within(b.entries, a.entries)
        [] OTHER -> a.n = b.n

(* A type without contents that are not hashed: of arrays and tables those *)
(* at the top or right inside of a struct there.                           *)
RECURSIVE Flat(_), Hashed(_)
Flat(type) ==
  LET t == Base(type)
  IN  CASE t.tag = "struct" -> \A i \in DOMAIN t.fields : Flat(t.fields[i])
        [] OTHER -> IsLeaf(t)
Hashed(type) ==
  LET t == Base(type)
  IN  CASE t.tag = "array" -> Flat(t.item)
        [] t.tag = "struct" -> \A i \in DOMAIN t.fields :
                                 Flat(t.fields[i]) \/ (t.fields[i].tag \in {"array", "table"} /\ Hashed(t.fields[i]))
        [] t.tag = "union" -> \A i \in DOMAIN t.members : Hashed(t.members[i])
        [] t.tag = "table" -> LET field(u) == Flat(u) \/ (u.tag \in {"array", "table"} /\ Hashed(u))
                              IN  field(t.key) /\ field(t.value) /\ Hashed(t.key)
        [] OTHER -> TRUE

(* A value with neither NaN nor -0.0 in it, nor tables that have more than *)
(* their own entries.                                                      *)
RECURSIVE Ordinary(_, _)
Ordinary(type, v) ==
  LET t == Base(type)
  IN  CASE t.tag = "struct" -> \A i \in DOMAIN t.fields : Ordinary(t.fields[i], v.fields[i])
        [] t.tag = "array" -> \A x \in Range(v.items) : Ordinary(t.item, x)
        [] t.tag = "union" -> v.data # <<>> => Ordinary(t.members[v.member], v.data[1])
        [] t.tag = "table" -> /\ v.fallback = <<>> /\ v.default = <<>>
                              /\ \A e \in Range(v.entries) : Ordinary(t.key, e.key) /\ Ordinary(t.value, e.value)
        [] OTHER -> ~v.nan /\ v.rep = 0

(* The promises of docs/features.md: values are equal exactly if their     *)
(* contents are, a value that is less is not more, and equal values are    *)
(* the same key of a table.                                                *)
HashesAsItCompares(t, a, b) == Is("==", t, a, b) => Hash(t, a) = Hash(t, b)
Promises(t, a, b) ==
  Ordinary(t, a) /\ Ordinary(t, b) =>
    /\ Hashed(t) => HashesAsItCompares(t, a, b) /\ (Is("==", t, a, b) <=> SameContents(t, a, b))
    /\ IsOrderable(t) =>
         /\ Is("<", t, a, b) => ~Is("<=", t, b, a)
         /\ Is("<=", t, a, b) /\ Is("<=", t, b, a) <=> SameContents(t, a, b)
         /\ t.tag = "array" /\ a.items # <<>> /\ b.items # <<>> /\ ~SameContents(t.item, a.items[1], b.items[1])
              => (Is("<", t, a, b) <=> Is("<", t.item, a.items[1], b.items[1]))
=============================================================================

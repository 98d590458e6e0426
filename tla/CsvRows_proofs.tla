---------------------------- MODULE CsvRows_proofs ----------------------------
(***************************************************************************)
(* What the importer reads back of a row that the exporter wrote, for      *)
(* records with lists of any length and any gaps in them.                  *)
(***************************************************************************)
EXTENDS OnixRecords_proofs, CsvRows

-----------------------------------------------------------------------------
(* Lists.                                                                  *)

(* All of a list is the list, and nothing of it is empty. *)
LEMMA KeptAll ==
    ASSUME NEW list, IsList(list)
    PROVE  Kept(list, DOMAIN list) = list
<1> DEFINE places == DOMAIN list
           before == { p \in places \X places : p[1] < p[2] }
           places_in_order == [i \in 1..Len(list) |-> i]
<1>1. Len(list) \in Nat /\ places = 1..Len(list) /\ list = [i \in 1..Len(list) |-> list[i]]
  BY ListIs
<1>2. IsList(places_in_order) /\ Len(places_in_order) = Len(list)
  BY <1>1, MadeList
<1>3. \A i, j \in 1..Len(list) :
          << places_in_order[i], places_in_order[j] >> \in before <=> i < j
  BY <1>1
<1>4. /\ \A i \in 1..Len(list) : places_in_order[i] \in places
      /\ \A x \in places : \E i \in 1..Len(list) : x = places_in_order[i]
  BY <1>1
<1>5. Kept(list, places) = [n \in DOMAIN InOrder(places, before) |-> list[InOrder(places, before)[n]]]
  BY DEF Kept
<1>6. /\ DOMAIN places_in_order = 1..Len(list)
      /\ \A i \in 1..Len(list) : places_in_order[i] = i
  OBVIOUS
<1> HIDE DEF places_in_order, before, places
<1>7. InOrder(places, before) = places_in_order
  BY <1>2, <1>3, <1>4, InOrderIs
<1>8. Kept(list, places) = [n \in 1..Len(list) |-> list[n]]
  BY <1>5, <1>6, <1>7
<1>9. QED
  BY <1>1, <1>8 DEF places

LEMMA KeptNone ==
    ASSUME NEW list
    PROVE  Kept(list, {}) = << >>
<1> DEFINE before == { p \in {} \X {} : p[1] < p[2] }
<1>1. Kept(list, {}) = [n \in DOMAIN InOrder({}, before) |-> list[InOrder({}, before)[n]]]
  BY DEF Kept
<1>2. Cardinality({}) = 0
  BY FS_EmptySet
<1>3. DOMAIN InOrder({}, before) = {}
  BY <1>2 DEF InOrder
<1>4. QED
  BY <1>1, <1>3

(* What is kept was there. *)
LEMMA KeptWasThere ==
    ASSUME NEW list, IsList(list), NEW places, places \subseteq DOMAIN list,
           NEW kept, kept = Kept(list, places)
    PROVE  IsList(kept) /\ \A i \in DOMAIN kept : \E j \in places : kept[i] = list[j]
<1>1. Len(list) \in Nat /\ places \in SUBSET (1..Len(list))
  BY ListIs
<1>2. SUFFICES IsList(Kept(list, places)) /\
               { Kept(list, places)[i] : i \in DOMAIN Kept(list, places) } = { list[i] : i \in places }
  OBVIOUS
<1>3. QED
  BY <1>1, KeptIs

(* An empty list. *)
LEMMA NothingListed ==
    ASSUME NEW s, IsList(s)
    PROVE  s = << >> <=> DOMAIN s = {}
<1>1. Len(s) \in Nat /\ DOMAIN s = 1..Len(s) /\ s = [i \in 1..Len(s) |-> s[i]]
  BY ListIs
<1>2. ASSUME DOMAIN s = {} PROVE s = << >>
  BY <1>1, <1>2
<1>3. QED
  BY <1>2

(* Two lists of one length that agree everywhere are one. *)
LEMMA SameList ==
    ASSUME NEW s, NEW t, IsList(s), IsList(t), DOMAIN s = DOMAIN t,
           \A i \in DOMAIN s : s[i] = t[i]
    PROVE  s = t
<1>1. /\ DOMAIN s = 1..Len(s) /\ s = [i \in 1..Len(s) |-> s[i]]
      /\ DOMAIN t = 1..Len(t) /\ t = [i \in 1..Len(t) |-> t[i]]
  BY ListIs
<1>2. s = [i \in DOMAIN s |-> s[i]] /\ t = [i \in DOMAIN t |-> t[i]]
  BY <1>1
<1>3. QED
  BY <1>2

-----------------------------------------------------------------------------
(* Rows.                                                                   *)

(* The columns of a group that a row has are those of these cells that are *)
(* not blank; each is a name and a key.                                    *)
HasGroup(row, prefix, cells) ==
    /\ \A c \in DOMAIN row : c = << c[1], c[2] >>
    /\ \A k : /\ << prefix, k >> \in DOMAIN row <=> k \in DOMAIN cells /\ cells[k] # << Blank >>
              /\ << prefix, k >> \in DOMAIN row => row[<< prefix, k >>] = cells[k]

(* What is written for a record is in the row that is read, in whatever    *)
(* file the record is.                                                     *)
LEMMA RowIs ==
    ASSUME NEW exported, IsList(exported), NEW n \in DOMAIN exported
    PROVE  LET row == CleanRow(ExportFile(exported)[n])
               written == ProcessDict(exported[n])
           IN  /\ DOMAIN row = { c \in DOMAIN written : written[c] # << Blank >> }
               /\ \A c \in DOMAIN row : row[c] = written[c]
<1> DEFINE rows == [i \in DOMAIN exported |-> ProcessDict(exported[i])]
           columns == UNION { DOMAIN rows[i] : i \in DOMAIN rows }
           cells == [c \in columns |-> IF c \in DOMAIN rows[n] THEN rows[n][c] ELSE << Blank >>]
           row == CleanRow(cells)
           written == ProcessDict(exported[n])
<1>1. rows[n] = written /\ DOMAIN written \subseteq columns
  OBVIOUS
<1>2. ExportFile(exported)[n] = cells
  BY DEF ExportFile
<1>3. DOMAIN cells = columns /\ \A c \in columns : cells[c] = IF c \in DOMAIN written THEN written[c] ELSE << Blank >>
  BY <1>1
<1> HIDE DEF cells, columns, rows, written
<1>4. DOMAIN row = { c \in DOMAIN cells : cells[c] # << Blank >> } /\ \A c \in DOMAIN row : row[c] = cells[c]
  BY DEF CleanRow
<1>5. DOMAIN row = { c \in DOMAIN written : written[c] # << Blank >> } /\ \A c \in DOMAIN row : row[c] = written[c]
  BY <1>1, <1>3, <1>4
<1>6. QED
  BY <1>2, <1>5 DEF written

(* The columns of a record are those of its groups and of its other fields. *)
LEMMA WrittenIs ==
    ASSUME NEW record, IsExported(record)
    PROVE  LET written == ProcessDict(record)
               groups == ExportGroups(record)
           IN  /\ \A c \in DOMAIN written : c = << c[1], c[2] >>
               /\ \A g \in DOMAIN groups : \A k :
                      /\ << g, k >> \in DOMAIN written <=> k \in DOMAIN groups[g]
                      /\ k \in DOMAIN groups[g] => written[<< g, k >>] = groups[g][k]
               /\ \A f : f \notin DOMAIN groups =>
                      /\ Plain(f) \in DOMAIN written <=> f \in DOMAIN record.flat
                      /\ f \in DOMAIN record.flat => written[Plain(f)] = << Line(record.flat[f]) >>
<1> DEFINE groups == ExportGroups(record)
           names == DOMAIN record.flat
           flat == { Plain(f) : f \in names }
           grouped == UNION { { << g, k >> : k \in DOMAIN groups[g] } : g \in DOMAIN groups }
           written == ProcessDict(record)
<1>1. names \cap DOMAIN groups = {}
  BY DEF IsExported
<1>2. /\ DOMAIN written = flat \cup grouped
      /\ \A c \in flat \cup grouped :
             written[c] = IF c \in flat THEN << Line(record.flat[c[1]]) >> ELSE groups[c[1]][c[2]]
  BY DEF ProcessDict
<1> HIDE DEF written, groups, names
<1>3. ASSUME NEW g \in DOMAIN groups, NEW k
      PROVE  /\ << g, k >> \in DOMAIN written <=> k \in DOMAIN groups[g]
             /\ k \in DOMAIN groups[g] => written[<< g, k >>] = groups[g][k]
  <2>1. << g, k >> \notin flat
    BY <1>1 DEF Plain
  <2>2. << g, k >> \in grouped <=> k \in DOMAIN groups[g]
    OBVIOUS
  <2>3. QED
    BY <1>2, <2>1, <2>2
<1>4. ASSUME NEW f, f \notin DOMAIN groups
      PROVE  /\ Plain(f) \in DOMAIN written <=> f \in names
             /\ f \in names => written[Plain(f)] = << Line(record.flat[f]) >>
  <2>1. Plain(f) \in flat <=> f \in names
    BY DEF Plain
  <2>2. Plain(f) \notin grouped
    BY <1>4 DEF Plain
  <2>3. Plain(f)[1] = f
    BY DEF Plain
  <2>4. QED
    BY <1>2, <2>1, <2>2, <2>3
<1>5. \A c \in DOMAIN written : c = << c[1], c[2] >>
  BY <1>2 DEF Plain
<1>6. QED
  BY <1>3, <1>4, <1>5 DEF written, groups, names

(* A row that was written for a record. *)
RowOf(row, record) ==
    LET groups == ExportGroups(record)
    IN  /\ \A g \in DOMAIN groups : HasGroup(row, g, groups[g])
        /\ \A f : f \notin DOMAIN groups =>
               /\ Plain(f) \in DOMAIN row <=> f \in DOMAIN record.flat
               /\ f \in DOMAIN record.flat => row[Plain(f)] = << Line(record.flat[f]) >>

LEMMA RowIsRead ==
    ASSUME NEW exported, IsList(exported), NEW n \in DOMAIN exported, IsExported(exported[n])
    PROVE  RowOf(CleanRow(ExportFile(exported)[n]), exported[n])
<1> DEFINE record == exported[n]
           groups == ExportGroups(record)
           written == ProcessDict(record)
           row == CleanRow(ExportFile(exported)[n])
<1>1. /\ DOMAIN row = { c \in DOMAIN written : written[c] # << Blank >> }
      /\ \A c \in DOMAIN row : row[c] = written[c]
  BY RowIs
<1>2. /\ \A c \in DOMAIN written : c = << c[1], c[2] >>
      /\ \A g \in DOMAIN groups : \A k :
             /\ << g, k >> \in DOMAIN written <=> k \in DOMAIN groups[g]
             /\ k \in DOMAIN groups[g] => written[<< g, k >>] = groups[g][k]
      /\ \A f : f \notin DOMAIN groups =>
             /\ Plain(f) \in DOMAIN written <=> f \in DOMAIN record.flat
             /\ f \in DOMAIN record.flat => written[Plain(f)] = << Line(record.flat[f]) >>
  BY WrittenIs
<1>3. \A f \in DOMAIN record.flat : << Line(record.flat[f]) >> # << Blank >>
  BY DEF IsExported, Line, Blank
<1> HIDE DEF row, written, groups
<1>4. ASSUME NEW g \in DOMAIN groups
      PROVE  HasGroup(row, g, groups[g])
  BY <1>1, <1>2 DEF HasGroup
<1>5. ASSUME NEW f, f \notin DOMAIN groups
      PROVE  /\ Plain(f) \in DOMAIN row <=> f \in DOMAIN record.flat
             /\ f \in DOMAIN record.flat => row[Plain(f)] = << Line(record.flat[f]) >>
  BY <1>1, <1>2, <1>3, <1>5
<1>6. QED
  BY <1>4, <1>5 DEF RowOf, groups, row

-----------------------------------------------------------------------------
(* Entries.                                                                *)

(* Entries that have something, and nothing blank. *)
AreEntries(entries) ==
    /\ IsList(entries)
    /\ \A i \in DOMAIN entries :
           /\ DOMAIN entries[i] # {} /\ << >> \notin DOMAIN entries[i]
           /\ \A k \in DOMAIN entries[i] : entries[i][k] # Blank

(***************************************************************************)
(* Each entry is read back at its place: what it has, it has again, and    *)
(* all else is blank.                                                      *)
(***************************************************************************)
LEMMA EntriesAreRead ==
    ASSUME NEW row, NEW prefix, NEW entries, AreEntries(entries),
           HasGroup(row, prefix, FlattenEntries(entries)),
           NEW items, items = ProcessGroupedFields(row, prefix)
    PROVE  /\ IsList(items) /\ DOMAIN items = DOMAIN entries
           /\ \A i \in DOMAIN entries :
                  /\ \A k : Value(items[i], k) = Value(entries[i], k)
                  /\ \A k : k \in DOMAIN items[i] /\ items[i][k] # Blank <=> k \in DOMAIN entries[i]
                  /\ \A k \in DOMAIN entries[i] : items[i][k] = entries[i][k]
<1> DEFINE keys == Subkeys(row, prefix)
           all == UNION { DOMAIN entries[i] : i \in DOMAIN entries }
           Cell(k) == row[<< prefix, k >>]
           places == UNION { DOMAIN Cell(k) : k \in keys }
           read == [i \in places |-> [k \in keys |-> IF i \in DOMAIN Cell(k) THEN Cell(k)[i] ELSE Blank]]
           here == { i \in DOMAIN read : \E k \in keys : read[i][k] # Blank }
<1>1. /\ DOMAIN FlattenEntries(entries) = all
      /\ \A k \in all : FlattenEntries(entries)[k] = Column(entries, k)
  BY DEF FlattenEntries
<1>2. ASSUME NEW k \in all
      PROVE  Column(entries, k) # << Blank >>
  <2>1. PICK i \in DOMAIN entries : k \in DOMAIN entries[i]
    OBVIOUS
  <2>2. Column(entries, k)[i] # Blank
    BY <2>1 DEF Column, AreEntries
  <2>3. i \in DOMAIN Column(entries, k)
    BY DEF Column
  <2>4. QED
    BY <2>2, <2>3
<1>3. \A k : << prefix, k >> \in DOMAIN row <=> k \in all
  BY <1>1, <1>2 DEF HasGroup
<1>4. keys = all
  <2>1. << >> \notin all
    BY DEF AreEntries
  <2>2. ASSUME NEW k
        PROVE  k \in keys <=> << prefix, k >> \in DOMAIN row /\ k # << >>
    BY DEF Subkeys, HasGroup
  <2>3. QED
    BY <1>3, <2>1, <2>2
<1>5. \A k \in keys : Cell(k) = Column(entries, k)
  BY <1>1, <1>3, <1>4 DEF HasGroup
<1>6. \A k \in keys : DOMAIN Cell(k) = DOMAIN entries
  BY <1>5 DEF Column
<1>7. \A i \in DOMAIN entries : \E k \in keys : k \in DOMAIN entries[i]
  BY <1>4 DEF AreEntries
<1>8. places = DOMAIN entries
  BY <1>6, <1>7
<1>9. \A i \in DOMAIN entries, k \in keys :
          Cell(k)[i] = IF k \in DOMAIN entries[i] THEN entries[i][k] ELSE Blank
  BY <1>5 DEF Column
<1>10. ProcessGroupedFields(row, prefix) = Kept(read, here)
  BY DEF ProcessGroupedFields
<1>11. /\ DOMAIN read = DOMAIN entries
       /\ \A i \in DOMAIN entries :
              /\ DOMAIN read[i] = keys
              /\ \A k \in keys : read[i][k] = IF k \in DOMAIN entries[i] THEN entries[i][k] ELSE Blank
  BY <1>6, <1>8, <1>9
<1>12. IsList(read)
  <2>1. DOMAIN entries = 1..Len(entries) /\ Len(entries) \in Nat
    BY ListIs DEF AreEntries
  <2>2. read = [i \in 1..Len(entries) |-> read[i]]
    BY <1>8, <2>1
  <2> HIDE DEF read
  <2>3. QED
    BY <2>1, <2>2, MadeList
<1>13. \A i \in DOMAIN entries : \A k \in DOMAIN entries[i] : k \in keys /\ entries[i][k] # Blank
  BY <1>4 DEF AreEntries
<1> HIDE DEF read, keys
<1>14. here = DOMAIN read
  BY <1>7, <1>11, <1>13
<1>15. items = read
  BY <1>10, <1>12, <1>14, KeptAll
<1>16. ASSUME NEW i \in DOMAIN entries
       PROVE  /\ \A k : Value(items[i], k) = Value(entries[i], k)
              /\ \A k : k \in DOMAIN items[i] /\ items[i][k] # Blank <=> k \in DOMAIN entries[i]
              /\ \A k \in DOMAIN entries[i] : items[i][k] = entries[i][k]
  BY <1>11, <1>13, <1>15 DEF Value
<1>17. QED
  BY <1>11, <1>12, <1>15, <1>16

(* What is there of some values. *)
LEMMA PresentIs ==
    ASSUME NEW values
    PROVE  /\ DOMAIN Present(values) = { k \in DOMAIN values : values[k] # None }
           /\ \A k \in DOMAIN Present(values) :
                  Present(values)[k] = Line(values[k]) /\ Present(values)[k] # Blank
           /\ \A k \in DOMAIN values : Value(Present(values), k) = Line(values[k])
           /\ \A k : k \notin DOMAIN values => Value(Present(values), k) = Blank
  BY DEF Present, Value, Line, Blank

(* What is made of each member of a list is a list. *)
LEMMA MappedList ==
    ASSUME NEW list, IsList(list), NEW s, s = [i \in DOMAIN list |-> s[i]]
    PROVE  IsList(s) /\ DOMAIN s = DOMAIN list /\ Len(s) = Len(list)
<1>1. DOMAIN list = 1..Len(list) /\ Len(list) \in Nat
  BY ListIs
<1>2. s = [i \in 1..Len(list) |-> s[i]]
  BY <1>1
<1>3. QED
  BY <1>1, <1>2, MadeList

(* Entries are what there is of these values, of each something. *)
HaveValues(entries, values) ==
    /\ IsList(entries)
    /\ \A i \in DOMAIN entries :
           /\ entries[i] = Present(values[i])
           /\ << >> \notin DOMAIN values[i]
           /\ \E k \in DOMAIN values[i] : values[i][k] # None

(* What is there of values is read back. *)
LEMMA ValuesAreRead ==
    ASSUME NEW row, NEW prefix, NEW entries, NEW values, HaveValues(entries, values),
           HasGroup(row, prefix, FlattenEntries(entries)),
           NEW items, items = ProcessGroupedFields(row, prefix)
    PROVE  /\ IsList(items) /\ DOMAIN items = DOMAIN entries
           /\ \A i \in DOMAIN entries :
                  /\ \A k \in DOMAIN values[i] : Value(items[i], k) = Line(values[i][k])
                  /\ \A k : k \notin DOMAIN values[i] => Value(items[i], k) = Blank
                  /\ Filled(items[i]) = Present(values[i])
<1>1. \A i \in DOMAIN entries : entries[i] = Present(values[i])
  BY DEF HaveValues
<1>3. AreEntries(entries)
  <2> SUFFICES ASSUME NEW i \in DOMAIN entries
               PROVE  /\ DOMAIN Present(values[i]) # {} /\ << >> \notin DOMAIN Present(values[i])
                      /\ \A k \in DOMAIN Present(values[i]) : Present(values[i])[k] # Blank
    BY <1>1 DEF AreEntries, HaveValues
  <2>1. QED
    BY PresentIs DEF HaveValues
<1>4. /\ IsList(items) /\ DOMAIN items = DOMAIN entries
      /\ \A i \in DOMAIN entries :
             /\ \A k : Value(items[i], k) = Value(entries[i], k)
             /\ \A k : k \in DOMAIN items[i] /\ items[i][k] # Blank <=> k \in DOMAIN entries[i]
             /\ \A k \in DOMAIN entries[i] : items[i][k] = entries[i][k]
  BY <1>3, EntriesAreRead
<1>5. ASSUME NEW i \in DOMAIN entries
      PROVE  /\ \A k \in DOMAIN values[i] : Value(items[i], k) = Line(values[i][k])
             /\ \A k : k \notin DOMAIN values[i] => Value(items[i], k) = Blank
             /\ Filled(items[i]) = Present(values[i])
  <2>1. /\ \A k \in DOMAIN values[i] : Value(Present(values[i]), k) = Line(values[i][k])
        /\ \A k : k \notin DOMAIN values[i] => Value(Present(values[i]), k) = Blank
    BY PresentIs
  <2>2. \A k : Value(items[i], k) = Value(Present(values[i]), k)
    BY <1>1, <1>4
  <2>3. /\ \A k : k \in DOMAIN items[i] /\ items[i][k] # Blank <=> k \in DOMAIN Present(values[i])
        /\ \A k \in DOMAIN Present(values[i]) : items[i][k] = Present(values[i])[k]
    BY <1>1, <1>4
  <2>4. Filled(items[i]) = [k \in DOMAIN Present(values[i]) |-> Present(values[i])[k]]
    BY <2>3 DEF Filled
  <2>5. Present(values[i]) = [k \in DOMAIN Present(values[i]) |-> Present(values[i])[k]]
    BY DEF Present
  <2>6. QED
    BY <2>1, <2>2, <2>4, <2>5
<1>6. QED
  BY <1>1, <1>4, <1>5

(* Records by some parts of which each has one. *)
LEMMA PartsAreRead ==
    ASSUME NEW row, NEW prefix, NEW s, IsList(s), NEW keys, NEW entries,
           entries = [i \in DOMAIN s |-> PartsOf(s[i], keys)],
           HasGroup(row, prefix, FlattenEntries(entries)),
           << >> \notin keys,
           \A i \in DOMAIN s : \E k \in keys : s[i][k[1]] # None,
           NEW items, items = ProcessGroupedFields(row, prefix)
    PROVE  /\ IsList(items) /\ DOMAIN items = DOMAIN s
           /\ \A i \in DOMAIN s : \A k \in keys : Value(items[i], k) = Line(s[i][k[1]])
<1> DEFINE Fields(e) == [k \in keys |-> e[k[1]]]
           values == [i \in DOMAIN s |-> Fields(s[i])]
<1>1. \A e : PartsOf(e, keys) = Present(Fields(e))
  BY DEF PartsOf
<1>2. \A e : DOMAIN Fields(e) = keys /\ \A k \in keys : Fields(e)[k] = e[k[1]]
  OBVIOUS
<1> HIDE DEF Fields
<1>3. \A i \in DOMAIN s : values[i] = Fields(s[i])
  OBVIOUS
<1> HIDE DEF values
<1>4. /\ IsList(entries) /\ DOMAIN entries = DOMAIN s
      /\ \A i \in DOMAIN entries : entries[i] = Present(values[i])
  BY <1>1, <1>3, MappedList
<1>5. \A i \in DOMAIN entries :
          << >> \notin DOMAIN values[i] /\ \E k \in DOMAIN values[i] : values[i][k] # None
  BY <1>2, <1>3, <1>4
<1>a. HaveValues(entries, values)
  BY <1>4, <1>5 DEF HaveValues
<1>6. /\ IsList(items) /\ DOMAIN items = DOMAIN entries
      /\ \A i \in DOMAIN entries : \A k \in DOMAIN values[i] : Value(items[i], k) = Line(values[i][k])
  BY <1>a, ValuesAreRead
<1>7. QED
  BY <1>2, <1>3, <1>4, <1>6

(* Records by the names of their fields. *)
LEMMA KeyedAreRead ==
    ASSUME NEW row, NEW prefix, NEW s, IsList(s), NEW entries,
           entries = [i \in DOMAIN s |-> Keyed(s[i])],
           HasGroup(row, prefix, FlattenEntries(entries)),
           \A i \in DOMAIN s : \E f \in DOMAIN s[i] : s[i][f] # None,
           NEW items, items = ProcessGroupedFields(row, prefix)
    PROVE  /\ IsList(items) /\ DOMAIN items = DOMAIN s
           /\ \A i \in DOMAIN s :
                  /\ \A f \in DOMAIN s[i] : Value(items[i], << f >>) = Line(s[i][f])
                  /\ Filled(items[i]) = Keyed(s[i])
<1> DEFINE Fields(e) == [k \in { << f >> : f \in DOMAIN e } |-> e[k[1]]]
           values == [i \in DOMAIN s |-> Fields(s[i])]
<1>1. \A e : Keyed(e) = Present(Fields(e))
  BY DEF Keyed, PartsOf
<1>2. \A e : /\ << >> \notin DOMAIN Fields(e)
             /\ \A f \in DOMAIN e : << f >> \in DOMAIN Fields(e) /\ Fields(e)[<< f >>] = e[f]
  OBVIOUS
<1> HIDE DEF Fields
<1>3. \A i \in DOMAIN s : values[i] = Fields(s[i])
  OBVIOUS
<1> HIDE DEF values
<1>4. /\ IsList(entries) /\ DOMAIN entries = DOMAIN s
      /\ \A i \in DOMAIN entries : entries[i] = Present(values[i])
  BY <1>1, <1>3, MappedList
<1>5. ASSUME NEW i \in DOMAIN entries
      PROVE  << >> \notin DOMAIN values[i] /\ \E k \in DOMAIN values[i] : values[i][k] # None
  <2>1. PICK f \in DOMAIN s[i] : s[i][f] # None
    BY <1>4
  <2>2. << f >> \in DOMAIN values[i] /\ values[i][<< f >>] # None
    BY <1>2, <1>3, <1>4, <2>1
  <2>3. QED
    BY <1>2, <1>3, <1>4, <2>2
<1>a. HaveValues(entries, values)
  BY <1>4, <1>5 DEF HaveValues
<1>6. /\ IsList(items) /\ DOMAIN items = DOMAIN entries
      /\ \A i \in DOMAIN entries :
             /\ \A k \in DOMAIN values[i] : Value(items[i], k) = Line(values[i][k])
             /\ Filled(items[i]) = Present(values[i])
  BY <1>a, ValuesAreRead
<1>7. QED
  BY <1>1, <1>2, <1>3, <1>4, <1>6

-----------------------------------------------------------------------------
(* The parts of a record.                                                  *)

LEMMA GroupNames ==
    ASSUME NEW record
    PROVE  DOMAIN ExportGroups(record) =
               { "files", "formats", "sizes", "creators", "contributors", "rights", "dates",
                 "funding", "keywords", "subjects", "identifiers", "related_identifiers",
                 "references", "languages", "additional_titles", "additional_descriptions",
                 "access", "imprint" }
  BY DEF ExportGroups

(* The licences. *)
LEMMA RightsAreRead ==
    ASSUME NEW row, NEW record, IsExported(record), RowOf(row, record)
    PROVE  LoadRights(row) =
               [i \in DOMAIN record.rights |->
                   [ id          |-> Line(record.rights[i].id),
                     title       |-> Line(IF record.rights[i].id = None THEN record.rights[i].title
                                          ELSE None),
                     description |-> Line(record.rights[i].description) ]]
<1> DEFINE s == record.rights
           entries == [i \in DOMAIN s |-> Keyed(s[i])]
           items == ProcessGroupedFields(row, "rights")
<1>1. HasGroup(row, "rights", FlattenEntries(entries))
  <2>1. ExportGroups(record)["rights"] = FlattenEntries(entries)
    BY DEF ExportGroups
  <2>2. QED
    BY <2>1, GroupNames DEF RowOf
<1>2. IsList(s) /\ \A i \in DOMAIN s : DOMAIN s[i] = { "id", "title", "description" } /\ \E f \in DOMAIN s[i] : s[i][f] # None
  BY DEF IsExported
<1>3. entries = [i \in DOMAIN s |-> Keyed(s[i])]
  OBVIOUS
<1>4. items = ProcessGroupedFields(row, "rights")
  OBVIOUS
<1> HIDE DEF entries, items
<1>5. /\ DOMAIN items = DOMAIN s
      /\ \A i \in DOMAIN s : \A f \in DOMAIN s[i] : Value(items[i], << f >>) = Line(s[i][f])
  BY <1>1, <1>2, <1>3, <1>4, KeyedAreRead
<1>6. \A i \in DOMAIN s :
          /\ Value(items[i], << "id" >>) = Line(s[i].id)
          /\ Value(items[i], << "title" >>) = Line(s[i].title)
          /\ Value(items[i], << "description" >>) = Line(s[i].description)
  BY <1>2, <1>5
<1>7. \A i \in DOMAIN s : Line(s[i].id) = Blank <=> s[i].id = None
  BY DEF Line, Blank
<1>8. Line(None) = Blank
  BY DEF Line, Blank
<1>9. QED
  BY <1>4, <1>5, <1>6, <1>7, <1>8 DEF LoadRights

(* The dates. *)
LEMMA DatesAreRead ==
    ASSUME NEW row, NEW record, IsExported(record), RowOf(row, record)
    PROVE  LoadDates(row) =
               [i \in DOMAIN record.dates |->
                   [ date        |-> Line(record.dates[i].date),
                     type        |-> Line(record.dates[i].type),
                     description |-> Line(record.dates[i].description) ]]
<1> DEFINE s == record.dates
           entries == [i \in DOMAIN s |-> PartsOf(s[i], DatePart)]
           items == ProcessGroupedFields(row, "dates")
<1>1. HasGroup(row, "dates", FlattenEntries(entries))
  <2>1. ExportGroups(record)["dates"] = FlattenEntries(entries)
    BY DEF ExportGroups
  <2>2. QED
    BY <2>1, GroupNames DEF RowOf
<1>2. IsList(s) /\ \A i \in DOMAIN s : s[i].date # None
  BY DEF IsExported
<1>3. entries = [i \in DOMAIN s |-> PartsOf(s[i], DatePart)]
  OBVIOUS
<1>4. items = ProcessGroupedFields(row, "dates")
  OBVIOUS
<1> HIDE DEF entries, items
<1>5. /\ << >> \notin DatePart /\ << "date" >> \in DatePart
      /\ << "type", "id" >> \in DatePart /\ << "description" >> \in DatePart
  BY DEF DatePart
<1>6. /\ DOMAIN items = DOMAIN s
      /\ \A i \in DOMAIN s : \A k \in DatePart : Value(items[i], k) = Line(s[i][k[1]])
  BY <1>1, <1>2, <1>3, <1>4, <1>5, PartsAreRead
<1>7. \A i \in DOMAIN s :
          /\ Value(items[i], << "date" >>) = Line(s[i].date)
          /\ Value(items[i], << "type", "id" >>) = Line(s[i].type)
          /\ Value(items[i], << "description" >>) = Line(s[i].description)
  BY <1>5, <1>6
<1>8. QED
  BY <1>4, <1>6, <1>7 DEF LoadDates

(* The awards, each with its funder. *)
LEMMA FundingIsRead ==
    ASSUME NEW row, NEW record, IsExported(record), RowOf(row, record)
    PROVE  LoadFunding(row) =
               [i \in DOMAIN record.funding |->
                   LET f == record.funding[i]
                   IN  [ id    |-> Line(f.id), name |-> Line(f.name),
                         award |-> [part \in { "id", "number", "title" } |->
                                       Line(IF part \in DOMAIN f.award THEN f.award[part] ELSE None)] ]]
<1> DEFINE s == record.funding
           Keys(f) == FunderPart \cup { << "award", p >> : p \in DOMAIN f.award }
           Fields(f) == [k \in Keys(f) |-> IF k[1] = "award" THEN f.award[k[2]] ELSE f[k[2]]]
           values == [i \in DOMAIN s |-> Fields(s[i])]
           entries == [i \in DOMAIN s |-> ExportFunding(s[i])]
           items == ProcessGroupedFields(row, "funding")
           Award(f) == [part \in { "id", "number", "title" } |->
                           Line(IF part \in DOMAIN f.award THEN f.award[part] ELSE None)]
<1>1. HasGroup(row, "funding", FlattenEntries(entries))
  <2>1. ExportGroups(record)["funding"] = FlattenEntries(entries)
    BY DEF ExportGroups
  <2>2. QED
    BY <2>1, GroupNames DEF RowOf
<1>2. IsList(s) /\ \A i \in DOMAIN s : s[i].id # None \/ s[i].name # None
  BY DEF IsExported
<1>3. \A f : ExportFunding(f) = Present(Fields(f))
  BY DEF ExportFunding
<1>4. \A f : /\ << >> \notin Keys(f)
             /\ << "funder", "id" >> \in Keys(f) /\ << "funder", "name" >> \in Keys(f)
             /\ \A p : << "award", p >> \in Keys(f) <=> p \in DOMAIN f.award
  BY DEF FunderPart
<1>5. \A f : /\ DOMAIN Fields(f) = Keys(f)
             /\ Fields(f)[<< "funder", "id" >>] = f.id
             /\ Fields(f)[<< "funder", "name" >>] = f.name
             /\ \A p \in DOMAIN f.award : Fields(f)[<< "award", p >>] = f.award[p]
  BY <1>4
<1>6. /\ items = ProcessGroupedFields(row, "funding")
      /\ entries = [i \in DOMAIN s |-> ExportFunding(s[i])]
      /\ \A i \in DOMAIN s : values[i] = Fields(s[i])
  OBVIOUS
<1> HIDE DEF entries, items, values, Fields, Keys
<1>a. ASSUME NEW i \in DOMAIN s
      PROVE  /\ << "funder", "id" >> \in DOMAIN values[i] /\ << "funder", "name" >> \in DOMAIN values[i]
             /\ values[i][<< "funder", "id" >>] = s[i].id
             /\ values[i][<< "funder", "name" >>] = s[i].name
             /\ \A p : << "award", p >> \in DOMAIN values[i] <=> p \in DOMAIN s[i].award
             /\ \A p \in DOMAIN s[i].award : values[i][<< "award", p >>] = s[i].award[p]
  <2>1. values[i] = Fields(s[i])
    BY <1>6
  <2>2. QED
    BY <1>4, <1>5, <2>1
<1>7. HaveValues(entries, values)
  <2>1. IsList(entries) /\ DOMAIN entries = DOMAIN s
    BY <1>2, <1>6, MappedList
  <2>2. ASSUME NEW i \in DOMAIN s
        PROVE  \E k \in DOMAIN values[i] : values[i][k] # None
    BY <1>2, <1>a
  <2>3. QED
    BY <1>3, <1>4, <1>5, <1>6, <2>1, <2>2 DEF HaveValues
<1>8. /\ DOMAIN items = DOMAIN s
      /\ \A i \in DOMAIN s :
             /\ \A k \in DOMAIN values[i] : Value(items[i], k) = Line(values[i][k])
             /\ \A k : k \notin DOMAIN values[i] => Value(items[i], k) = Blank
  BY <1>1, <1>6, <1>7, ValuesAreRead
<1>9. ASSUME NEW i \in DOMAIN s
      PROVE  /\ Value(items[i], << "funder", "id" >>) = Line(s[i].id)
             /\ Value(items[i], << "funder", "name" >>) = Line(s[i].name)
             /\ [part \in { "id", "number", "title" } |-> Value(items[i], << "award", part >>)]
                    = Award(s[i])
  <2>1. ASSUME NEW part
        PROVE  Value(items[i], << "award", part >>)
                   = Line(IF part \in DOMAIN s[i].award THEN s[i].award[part] ELSE None)
    <3>1. Line(None) = Blank
      BY DEF Line, Blank
    <3>2. CASE part \in DOMAIN s[i].award
      BY <1>8, <1>a, <3>2
    <3>3. CASE part \notin DOMAIN s[i].award
      BY <1>8, <1>a, <3>1, <3>3
    <3>4. QED
      BY <3>2, <3>3
  <2>2. QED
    BY <1>8, <1>a, <2>1
<1>10. LoadFunding(row) =
           [i \in DOMAIN s |-> [ id |-> Line(s[i].id), name |-> Line(s[i].name), award |-> Award(s[i]) ]]
  BY <1>6, <1>8, <1>9 DEF LoadFunding
<1>11. QED
  BY <1>10

(* The identifiers. *)
LEMMA IdentifiersAreRead ==
    ASSUME NEW row, NEW record, IsExported(record), RowOf(row, record)
    PROVE  LoadIdentifiers(row) =
               [i \in DOMAIN record.identifiers |->
                   [k \in IdentifierPart |-> Line(record.identifiers[i][k[1]])]]
<1> DEFINE s == record.identifiers
           entries == [i \in DOMAIN s |-> Keyed(s[i])]
           items == ProcessGroupedFields(row, "identifiers")
<1>1. HasGroup(row, "identifiers", FlattenEntries(entries))
  <2>1. ExportGroups(record)["identifiers"] = FlattenEntries(entries)
    BY DEF ExportGroups
  <2>2. QED
    BY <2>1, GroupNames DEF RowOf
<1>2. IsList(s) /\ \A i \in DOMAIN s : DOMAIN s[i] = { "identifier", "scheme" } /\ s[i].identifier # None
  BY DEF IsExported
<1>3. entries = [i \in DOMAIN s |-> Keyed(s[i])] /\ items = ProcessGroupedFields(row, "identifiers")
  OBVIOUS
<1> HIDE DEF entries, items
<1>4. /\ DOMAIN items = DOMAIN s
      /\ \A i \in DOMAIN s : \A f \in DOMAIN s[i] : Value(items[i], << f >>) = Line(s[i][f])
  BY <1>1, <1>2, <1>3, KeyedAreRead
<1>5. \A i \in DOMAIN s : \A k \in IdentifierPart : Value(items[i], k) = Line(s[i][k[1]])
  BY <1>2, <1>4 DEF IdentifierPart
<1>6. QED
  BY <1>3, <1>4, <1>5 DEF LoadIdentifiers, ItemsOf

(* The identifiers of related works. *)
LEMMA RelatedAreRead ==
    ASSUME NEW row, NEW record, IsExported(record), RowOf(row, record)
    PROVE  LoadRelatedIdentifiers(row) =
               [i \in DOMAIN record.related |->
                   [k \in RelatedPart |-> Line(record.related[i][k[1]])]]
<1> DEFINE s == record.related
           entries == [i \in DOMAIN s |-> PartsOf(s[i], RelatedPart)]
           items == ProcessGroupedFields(row, "related_identifiers")
<1>1. HasGroup(row, "related_identifiers", FlattenEntries(entries))
  <2>1. ExportGroups(record)["related_identifiers"] = FlattenEntries(entries)
    BY DEF ExportGroups
  <2>2. QED
    BY <2>1, GroupNames DEF RowOf
<1>2. IsList(s) /\ \A i \in DOMAIN s : s[i].identifier # None
  BY DEF IsExported
<1>3. /\ entries = [i \in DOMAIN s |-> PartsOf(s[i], RelatedPart)]
      /\ items = ProcessGroupedFields(row, "related_identifiers")
  OBVIOUS
<1> HIDE DEF entries, items
<1>4. << >> \notin RelatedPart /\ << "identifier" >> \in RelatedPart
  BY DEF RelatedPart, IdentifierPart
<1>5. /\ DOMAIN items = DOMAIN s
      /\ \A i \in DOMAIN s : \A k \in RelatedPart : Value(items[i], k) = Line(s[i][k[1]])
  BY <1>1, <1>2, <1>3, <1>4, PartsAreRead
<1>6. QED
  BY <1>3, <1>5 DEF LoadRelatedIdentifiers, ItemsOf

(* The references. *)
LEMMA ReferencesAreRead ==
    ASSUME NEW row, NEW record, IsExported(record), RowOf(row, record)
    PROVE  LoadReferences(row) = [i \in DOMAIN record.references |-> Keyed(record.references[i])]
<1> DEFINE s == record.references
           entries == [i \in DOMAIN s |-> Keyed(s[i])]
           items == ProcessGroupedFields(row, "references")
<1>1. HasGroup(row, "references", FlattenEntries(entries))
  <2>1. ExportGroups(record)["references"] = FlattenEntries(entries)
    BY DEF ExportGroups
  <2>2. QED
    BY <2>1, GroupNames DEF RowOf
<1>2. IsList(s) /\ \A i \in DOMAIN s : "reference" \in DOMAIN s[i] /\ s[i]["reference"] # None
  BY DEF IsExported
<1>3. entries = [i \in DOMAIN s |-> Keyed(s[i])] /\ items = ProcessGroupedFields(row, "references")
  OBVIOUS
<1> HIDE DEF entries, items
<1>4. DOMAIN items = DOMAIN s /\ \A i \in DOMAIN s : Filled(items[i]) = Keyed(s[i])
  BY <1>1, <1>2, <1>3, KeyedAreRead
<1>5. QED
  BY <1>3, <1>4 DEF LoadReferences

(* Texts, each in a line of its own. *)
LEMMA TextsAreLines ==
    ASSUME NEW texts, IsList(texts), \A i \in DOMAIN texts : texts[i] # None,
           NEW cell, cell = [i \in DOMAIN texts |-> Line(texts[i])]
    PROVE  /\ IsList(cell) /\ DOMAIN cell = DOMAIN texts
           /\ \A i \in DOMAIN texts : cell[i] = Line(texts[i]) /\ cell[i] # Blank /\ cell[i][1] = texts[i]
           /\ cell # << Blank >>
           /\ NotBlank(cell) = cell
<1>1. DOMAIN cell = DOMAIN texts /\ \A i \in DOMAIN texts : cell[i] = Line(texts[i])
  OBVIOUS
<1>2. IsList(cell)
  BY <1>1, MappedList
<1>3. \A i \in DOMAIN texts : Line(texts[i]) # Blank /\ Line(texts[i])[1] = texts[i]
  BY DEF Line, Blank
<1>4. cell # << Blank >>
  <2> SUFFICES ASSUME cell = << Blank >> PROVE FALSE
    OBVIOUS
  <2>1. 1 \in DOMAIN cell /\ cell[1] = Blank
    OBVIOUS
  <2>2. QED
    BY <1>1, <1>3, <2>1
<1>5. NotBlank(cell) = cell
  <2>1. { i \in DOMAIN cell : cell[i] # Blank } = DOMAIN cell
    BY <1>1, <1>3
  <2>2. QED
    BY <1>2, <2>1, KeptAll DEF NotBlank
<1>6. QED
  BY <1>1, <1>2, <1>3, <1>4, <1>5

(* A column of texts. *)
LEMMA TextsAreRead ==
    ASSUME NEW row, NEW name, NEW texts, IsList(texts), \A i \in DOMAIN texts : texts[i] # None,
           HasGroup(row, name, ExportTexts(texts)),
           NEW cell, cell = [i \in DOMAIN texts |-> Line(texts[i])]
    PROVE  /\ Lines(row, Plain(name)) = cell
           /\ Plain(name) \in DOMAIN row => row[Plain(name)] = cell
           /\ Plain(name) \notin DOMAIN row => cell = << >>
<1>1. DOMAIN ExportTexts(texts) = { << >> } /\ ExportTexts(texts)[<< >>] = IF texts = << >> THEN << Blank >> ELSE cell
  BY DEF ExportTexts
<1>2. cell # << Blank >>
  BY TextsAreLines
<1>3. /\ Plain(name) \in DOMAIN row <=> texts # << >>
      /\ Plain(name) \in DOMAIN row => row[Plain(name)] = cell
  BY <1>1, <1>2 DEF HasGroup, Plain
<1>4. texts = << >> => cell = << >>
  OBVIOUS
<1>5. QED
  BY <1>3, <1>4 DEF Lines

(* Formats, sizes and the names of files. *)
LEMMA ListsAreRead ==
    ASSUME NEW row, NEW record, IsExported(record), RowOf(row, record)
    PROVE  /\ Lines(row, Plain("formats")) = [i \in DOMAIN record.formats |-> Line(record.formats[i])]
           /\ Lines(row, Plain("sizes")) = [i \in DOMAIN record.sizes |-> Line(record.sizes[i])]
           /\ LoadFiles(row) = [i \in DOMAIN record.files |-> Line(record.files[i])]
<1>1. /\ HasGroup(row, "formats", ExportTexts(record.formats))
      /\ HasGroup(row, "sizes", ExportTexts(record.sizes))
      /\ HasGroup(row, "files", ExportTexts(record.files))
  <2>1. /\ ExportGroups(record)["formats"] = ExportTexts(record.formats)
        /\ ExportGroups(record)["sizes"] = ExportTexts(record.sizes)
        /\ ExportGroups(record)["files"] = ExportTexts(record.files)
    BY DEF ExportGroups
  <2>2. QED
    BY <2>1, GroupNames DEF RowOf
<1>2. /\ IsList(record.formats) /\ \A i \in DOMAIN record.formats : record.formats[i] # None
      /\ IsList(record.sizes) /\ \A i \in DOMAIN record.sizes : record.sizes[i] # None
      /\ IsList(record.files) /\ \A i \in DOMAIN record.files : record.files[i] # None
  BY DEF IsExported
<1> DEFINE cell == [i \in DOMAIN record.files |-> Line(record.files[i])]
           formats == [i \in DOMAIN record.formats |-> Line(record.formats[i])]
           sizes == [i \in DOMAIN record.sizes |-> Line(record.sizes[i])]
<1>3. /\ cell = [i \in DOMAIN record.files |-> Line(record.files[i])]
      /\ formats = [i \in DOMAIN record.formats |-> Line(record.formats[i])]
      /\ sizes = [i \in DOMAIN record.sizes |-> Line(record.sizes[i])]
  OBVIOUS
<1> HIDE DEF cell, formats, sizes
<1>4. /\ Plain("files") \in DOMAIN row => row[Plain("files")] = cell
      /\ Plain("files") \notin DOMAIN row => cell = << >>
  BY <1>1, <1>2, <1>3, TextsAreRead
<1>5. Plain("filenames") \notin DOMAIN row
  <2>1. "filenames" \notin DOMAIN record.flat
    BY DEF IsExported
  <2>2. QED
    BY <2>1, GroupNames DEF RowOf
<1>6. Chosen(row, << "filenames", "files" >>) = cell
  <2> DEFINE names == << "filenames", "files" >>
             there == { i \in DOMAIN names : Plain(names[i]) \in DOMAIN row }
  <2>1. DOMAIN names = { 1, 2 } /\ names[1] = "filenames" /\ names[2] = "files"
    OBVIOUS
  <2>2. Chosen(row, names) = IF there = {} THEN << >>
                             ELSE row[Plain(names[CHOOSE i \in there : \A j \in there : i <= j])]
    BY DEF Chosen
  <2> HIDE DEF names
  <2>3. CASE Plain("files") \notin DOMAIN row
    <3>1. there = {}
      BY <1>5, <2>1, <2>3
    <3>2. QED
      BY <1>4, <2>2, <2>3, <3>1 DEF names
  <2>4. CASE Plain("files") \in DOMAIN row
    <3>1. there = { 2 }
      BY <1>5, <2>1, <2>4
    <3>2. (CHOOSE i \in there : \A j \in there : i <= j) = 2
      BY <3>1
    <3>3. QED
      BY <1>4, <2>1, <2>2, <2>4, <3>1, <3>2 DEF names
  <2>5. QED
    BY <2>3, <2>4
<1>7. NotBlank(cell) = cell
  BY <1>2, <1>3, TextsAreLines
<1>8. LoadFiles(row) = cell
  BY <1>6, <1>7 DEF LoadFiles
<1>9. Lines(row, Plain("formats")) = formats /\ Lines(row, Plain("sizes")) = sizes
  BY <1>1, <1>2, <1>3, TextsAreRead
<1>10. QED
  BY <1>3, <1>8, <1>9

(* The languages. *)
LEMMA LanguagesAreRead ==
    ASSUME NEW row, NEW record, IsExported(record), RowOf(row, record)
    PROVE  NotBlank(Lines(row, << "languages", << "id" >> >>)) =
               [i \in DOMAIN record.languages |-> Line(record.languages[i])]
<1> DEFINE s == record.languages
           key == << "id" >>
           entries == [i \in DOMAIN s |-> [k \in { key } |-> Line(s[i])]]
           cell == [i \in DOMAIN s |-> Line(s[i])]
<1>1. HasGroup(row, "languages", FlattenEntries(entries))
  <2>1. ExportGroups(record)["languages"] = FlattenEntries(entries)
    BY DEF ExportGroups
  <2>2. QED
    BY <2>1, GroupNames DEF RowOf
<1>2. IsList(s) /\ \A i \in DOMAIN s : s[i] # None
  BY DEF IsExported
<1>3. cell = [i \in DOMAIN s |-> Line(s[i])]
  OBVIOUS
<1>4. /\ DOMAIN entries = DOMAIN s
      /\ \A i \in DOMAIN s : DOMAIN entries[i] = { key } /\ entries[i][key] = Line(s[i])
  OBVIOUS
<1> HIDE DEF cell, entries, key
<1>5. cell # << Blank >> /\ NotBlank(cell) = cell
  BY <1>2, <1>3, TextsAreLines
<1>6. Column(entries, key) = cell
  BY <1>3, <1>4 DEF Column
<1>7. /\ key \in DOMAIN FlattenEntries(entries) <=> DOMAIN s # {}
      /\ key \in DOMAIN FlattenEntries(entries) => FlattenEntries(entries)[key] = cell
  BY <1>4, <1>6 DEF FlattenEntries
<1>8. DOMAIN s = {} => cell = << >>
  BY <1>3
<1>9. Lines(row, << "languages", key >>) = cell
  BY <1>1, <1>5, <1>7, <1>8 DEF HasGroup, Lines
<1>10. QED
  BY <1>3, <1>5, <1>9 DEF key

(* Titles of types and languages, each its own. *)
LEMMA TypedAreRead ==
    ASSUME NEW row, NEW prefix, NEW texts, HasGroup(row, prefix, ExportTyped(texts)),
           \A t \in texts : t.type # None /\ t.text # None,
           Apart(texts)
    PROVE  LoadTyped(row, prefix) =
               { [ type |-> t.type, lang |-> t.lang, text |-> << Line(t.text) >> ] : t \in texts }
<1> DEFINE Read(k) == [ type |-> k[1], lang |-> IF Len(k) = 2 THEN k[2] ELSE None,
                        text |-> row[<< prefix, k >>] ]
           Wanted(t) == [ type |-> t.type, lang |-> t.lang, text |-> << Line(t.text) >> ]
<1>1. ASSUME NEW t \in texts
      PROVE  /\ TypedKey(t) # << >> /\ TypedKey(t)[1] = t.type
             /\ t.lang = IF Len(TypedKey(t)) = 2 THEN TypedKey(t)[2] ELSE None
  <2>1. CASE t.lang = None
    BY <2>1 DEF TypedKey
  <2>2. CASE t.lang # None
    BY <2>2 DEF TypedKey
  <2>3. QED
    BY <2>1, <2>2
<1>2. DOMAIN ExportTyped(texts) = { TypedKey(t) : t \in texts }
  BY DEF ExportTyped
<1>3. ASSUME NEW t \in texts
      PROVE  ExportTyped(texts)[TypedKey(t)] = << Line(t.text) >>
  <2>1. (CHOOSE u \in texts : TypedKey(u) = TypedKey(t)) = t
    BY DEF Apart
  <2>2. QED
    BY <2>1 DEF ExportTyped
<1>4. \A t \in texts : << Line(t.text) >> # << Blank >>
  BY DEF Line, Blank
<1>5. Subkeys(row, prefix) = { TypedKey(t) : t \in texts }
  <2>1. ASSUME NEW k
        PROVE  k \in Subkeys(row, prefix) <=> << prefix, k >> \in DOMAIN row /\ k # << >>
    BY DEF Subkeys, HasGroup
  <2>2. \A k : << prefix, k >> \in DOMAIN row <=> k \in { TypedKey(t) : t \in texts }
    BY <1>2, <1>3, <1>4 DEF HasGroup
  <2>3. QED
    BY <1>1, <2>1, <2>2
<1>6. \A t \in texts : row[<< prefix, TypedKey(t) >>] = << Line(t.text) >>
  BY <1>2, <1>3, <1>4 DEF HasGroup
<1>7. \A t \in texts : Read(TypedKey(t)) = Wanted(t)
  BY <1>1, <1>6
<1>8. LoadTyped(row, prefix) = { Read(k) : k \in Subkeys(row, prefix) }
  BY DEF LoadTyped
<1> HIDE DEF Read, Wanted
<1>9. LoadTyped(row, prefix) = { Wanted(t) : t \in texts }
  BY <1>5, <1>7, <1>8
<1>10. QED
  BY <1>9 DEF Wanted

(* Who may see a record, and until when not. *)
LEMMA AccessIsRead ==
    ASSUME NEW row, NEW record, IsExported(record), RowOf(row, record)
    PROVE  LoadAccess(row) =
               [ record  |-> << Line(record.access.record) >>,
                 files   |-> << Line(record.access.files) >>,
                 embargo |-> [k \in IF record.access.embargo.active THEN EmbargoPart ELSE {} |->
                                 << Line(IF k[2] = "active" THEN "true"
                                         ELSE record.access.embargo[k[2]]) >>] ]
<1> DEFINE access == record.access
           embargo == IF access.embargo.active THEN EmbargoPart ELSE {}
           cells == ExportAccess(access)
           given == Subkeys(row, "access") \cap EmbargoPart
           Embargoed(k) == << Line(IF k[2] = "active" THEN "true" ELSE access.embargo[k[2]]) >>
           Read(k) == IF k \in given THEN row[<< "access", k >>] ELSE << Blank >>
<1>1. HasGroup(row, "access", cells)
  <2>1. ExportGroups(record)["access"] = cells
    BY DEF ExportGroups
  <2>2. QED
    BY <2>1, GroupNames DEF RowOf
<1>2. access.record # None /\ access.files # None /\ "true" # None
  <2>1. "true" # None
    BY WrittenAssumption
  <2>2. QED
    BY <2>1 DEF IsExported
<1>3. /\ DOMAIN cells = { << "record" >>, << "files" >> } \cup embargo
      /\ cells[<< "record" >>] = << Line(access.record) >>
      /\ cells[<< "files" >>] = << Line(access.files) >>
      /\ \A k \in embargo : cells[k] = Embargoed(k)
  BY DEF ExportAccess, EmbargoPart
<1>4. \A v : v # None => << Line(v) >> # << Blank >>
  BY DEF Line, Blank
<1>5. Embargoed(<< "embargo", "active" >>) # << Blank >>
  BY <1>2, <1>4
<1>6. /\ << "access", << "record" >> >> \in DOMAIN row
      /\ row[<< "access", << "record" >> >>] = << Line(access.record) >>
      /\ << "access", << "files" >> >> \in DOMAIN row
      /\ row[<< "access", << "files" >> >>] = << Line(access.files) >>
  BY <1>1, <1>2, <1>3, <1>4 DEF HasGroup
<1>7. /\ << "record" >> \notin EmbargoPart /\ << "files" >> \notin EmbargoPart
      /\ << >> \notin EmbargoPart /\ << "embargo", "active" >> \in EmbargoPart
  BY DEF EmbargoPart
<1>8. ASSUME NEW k \in EmbargoPart
      PROVE  /\ k \in given <=> k \in embargo /\ Embargoed(k) # << Blank >>
             /\ k \in given => row[<< "access", k >>] = Embargoed(k)
  <2>1. k \in Subkeys(row, "access") <=> << "access", k >> \in DOMAIN row
    BY <1>1, <1>7 DEF Subkeys, HasGroup
  <2>2. /\ << "access", k >> \in DOMAIN row <=> k \in DOMAIN cells /\ cells[k] # << Blank >>
        /\ << "access", k >> \in DOMAIN row => row[<< "access", k >>] = cells[k]
    BY <1>1 DEF HasGroup
  <2> HIDE DEF cells, embargo, Embargoed
  <2>3. QED
    BY <1>3, <1>7, <2>1, <2>2
<1>9. embargo = IF given = {} THEN {} ELSE EmbargoPart
  <2>1. << "embargo", "active" >> \in given <=> << "embargo", "active" >> \in embargo
    <3> HIDE DEF given, embargo, Embargoed
    <3>1. QED
      BY <1>5, <1>7, <1>8
  <2>2. \A k \in given : k \in EmbargoPart /\ k \in embargo
    <3>1. given \subseteq EmbargoPart
      OBVIOUS
    <3> HIDE DEF given, embargo, Embargoed
    <3>2. QED
      BY <1>8, <3>1
  <2> HIDE DEF given
  <2>3. CASE access.embargo.active
    BY <1>7, <2>1, <2>3
  <2>4. CASE ~ access.embargo.active
    <3>1. embargo = {}
      BY <2>4
    <3>2. QED
      BY <2>2, <3>1
  <2>5. QED
    BY <2>3, <2>4
<1>10. \A k \in embargo : Read(k) = Embargoed(k)
  <2>1. embargo \subseteq EmbargoPart
    OBVIOUS
  <2> HIDE DEF given, embargo, Embargoed
  <2>2. QED
    BY <1>8, <2>1
<1>11. LoadAccess(row) = [ record  |-> << Line(access.record) >>, files |-> << Line(access.files) >>,
                           embargo |-> [k \in IF given = {} THEN {} ELSE EmbargoPart |-> Read(k)] ]
  BY <1>6 DEF LoadAccess
<1>12. [k \in IF given = {} THEN {} ELSE EmbargoPart |-> Read(k)] = [k \in embargo |-> Embargoed(k)]
  <2> HIDE DEF given, embargo, Embargoed, Read
  <2>1. QED
    BY <1>9, <1>10
<1>13. QED
  BY <1>11, <1>12

(* The imprint, if anything of it is there. *)
LEMMA ImprintIsRead ==
    ASSUME NEW row, NEW record, IsExported(record), RowOf(row, record)
    PROVE  LoadImprint(row) = Keyed(record.imprint)
<1> DEFINE e == record.imprint
           cells == ExportImprint(e)
           have == { f \in DOMAIN e : e[f] # None }
           keys == Subkeys(row, "imprint")
           Cell(k) == row[<< "imprint", k >>]
           places == UNION { DOMAIN Cell(k) : k \in keys }
           read == [i \in places |-> [k \in keys |-> IF i \in DOMAIN Cell(k) THEN Cell(k)[i] ELSE Blank]]
           here == { i \in DOMAIN read : \E k \in keys : read[i][k] # Blank }
           items == ProcessGroupedFields(row, "imprint")
           parts == { << part >> : part \in { "isbn", "pages", "edition", "place", "series_name" } }
<1>1. HasGroup(row, "imprint", cells)
  <2>1. ExportGroups(record)["imprint"] = cells
    BY DEF ExportGroups
  <2>2. QED
    BY <2>1, GroupNames DEF RowOf
<1>2. DOMAIN e \subseteq { "isbn", "pages", "edition", "place", "series_name" }
  BY DEF IsExported
<1>3. /\ DOMAIN cells = { << f >> : f \in DOMAIN e }
      /\ \A f \in DOMAIN e : cells[<< f >>] = << Line(e[f]) >>
  BY DEF ExportImprint
<1>4. \A v : << Line(v) >> # << Blank >> <=> v # None
  BY DEF Line, Blank
<1>5. keys = { << f >> : f \in have }
  <2>1. ASSUME NEW k
        PROVE  k \in keys <=> << "imprint", k >> \in DOMAIN row /\ k # << >>
    BY <1>1 DEF Subkeys, HasGroup
  <2>2. \A k : << "imprint", k >> \in DOMAIN row <=> k \in DOMAIN cells /\ cells[k] # << Blank >>
    BY <1>1 DEF HasGroup
  <2> HIDE DEF cells, keys
  <2>3. ASSUME NEW k
        PROVE  << "imprint", k >> \in DOMAIN row <=> k \in { << f >> : f \in have }
    <3>1. ASSUME k \in DOMAIN cells, cells[k] # << Blank >>
          PROVE  k \in { << f >> : f \in have }
      <4>1. PICK f \in DOMAIN e : k = << f >>
        BY <1>3, <3>1
      <4>2. QED
        BY <1>3, <1>4, <3>1, <4>1
    <3>2. ASSUME NEW f \in have
          PROVE  << f >> \in DOMAIN cells /\ cells[<< f >>] # << Blank >>
      BY <1>3, <1>4
    <3>3. QED
      BY <2>2, <3>1, <3>2
  <2>4. QED
    BY <2>1, <2>3
<1>6. \A f \in have : Cell(<< f >>) = << Line(e[f]) >>
  BY <1>1, <1>3, <1>4 DEF HasGroup
<1>7. items = Kept(read, here)
  BY DEF ProcessGroupedFields
<1>8. CASE have = {}
  <2>1. keys = {}
    BY <1>5, <1>8
  <2>2. here = {}
    BY <2>1
  <2>3. items = << >>
    BY <1>7, <2>2, KeptNone
  <2>4. LoadImprint(row) = << >>
    BY <2>3 DEF LoadImprint
  <2>5. DOMAIN Keyed(e) = {}
    BY <1>8 DEF Keyed, PartsOf, Present
  <2>6. Keyed(e) = << >>
    <3>1. Keyed(e) = [k \in DOMAIN Keyed(e) |-> Keyed(e)[k]]
      BY DEF Keyed, PartsOf, Present
    <3>2. QED
      BY <2>5, <3>1
  <2>7. QED
    BY <2>4, <2>6
<1>9. CASE have # {}
  <2>1. \A k \in keys : DOMAIN Cell(k) = { 1 }
    BY <1>5, <1>6
  <2>2. places = { 1 }
    <3>1. keys # {}
      BY <1>5, <1>9
    <3> HIDE DEF keys, Cell
    <3>2. QED
      BY <2>1, <3>1
  <2>3. DOMAIN read = { 1 } /\ DOMAIN read[1] = keys /\ \A f \in have : read[1][<< f >>] = Line(e[f])
    <3>1. ASSUME NEW f \in have
          PROVE  << f >> \in keys /\ Cell(<< f >>)[1] = Line(e[f])
      <4>1. Cell(<< f >>) = << Line(e[f]) >>
        BY <1>6
      <4>2. << f >> \in keys
        BY <1>5
      <4> HIDE DEF Cell, keys
      <4>3. QED
        BY <4>1, <4>2
    <3> HIDE DEF keys, Cell, places, have
    <3>2. DOMAIN read = { 1 } /\ read[1] = [k \in keys |-> IF 1 \in DOMAIN Cell(k) THEN Cell(k)[1] ELSE Blank]
      BY <2>2
    <3>3. QED
      BY <2>1, <3>1, <3>2
  <2>4. \A f \in have : Line(e[f]) # Blank
    BY DEF Line, Blank
  <2>5. IsList(read)
    <3>0. 1..1 = { 1 }
      OBVIOUS
    <3> HIDE DEF keys, Cell, places
    <3>1. read = [i \in 1..1 |-> read[i]]
      BY <2>2, <3>0
    <3> HIDE DEF read
    <3>2. QED
      BY <3>1, MadeList
  <2> HIDE DEF read, items, keys
  <2>6. here = DOMAIN read
    <3>1. \E k \in keys : read[1][k] # Blank
      BY <1>5, <1>9, <2>3, <2>4
    <3>2. QED
      BY <2>3, <3>1
  <2>7. items = read
    BY <1>7, <2>5, <2>6, KeptAll
  <2>8. items # << >> /\ Head(items) = items[1]
    BY <2>3, <2>5, <2>7, TailIs
  <2>9. LoadImprint(row) = [k \in parts \cap DOMAIN Filled(items[1]) |-> items[1][k]]
    BY <2>8 DEF LoadImprint, items
  <2>10. DOMAIN Filled(items[1]) = { << f >> : f \in have }
    BY <1>5, <2>3, <2>4, <2>7 DEF Filled
  <2>11. parts \cap { << f >> : f \in have } = { << f >> : f \in have }
    BY <1>2
  <2>12. LoadImprint(row) = [k \in { << f >> : f \in have } |-> Line(e[k[1]])]
    BY <2>3, <2>7, <2>9, <2>10, <2>11
  <2>13. Keyed(e) = [k \in { << f >> : f \in have } |-> Line(e[k[1]])]
    BY DEF Keyed, PartsOf, Present
  <2>14. QED
    BY <2>12, <2>13
<1>10. QED
  BY <1>8, <1>9

Some(c, field) == \E i \in DOMAIN c.affiliations : c.affiliations[i][field] # None

PartsOfAll(c, field) == [i \in DOMAIN c.affiliations |-> c.affiliations[i][field]]

(* The line of a column of affiliations. *)
AffiliationLine(c, field) == IF Some(c, field) THEN PartsOfAll(c, field) ELSE Blank

LEMMA AffiliationsAreRead ==
    ASSUME NEW c, IsPerson(c)
    PROVE  LoadAffiliations(AffiliationLine(c, "id"), AffiliationLine(c, "name")) = c.affiliations
<1> DEFINE ids == AffiliationLine(c, "id")
           names == AffiliationLine(c, "name")
           s == c.affiliations
           Part(line, i) == IF i \in DOMAIN line THEN line[i] ELSE None
           pairs == [i \in DOMAIN ids \cup DOMAIN names |-> [ id |-> Part(ids, i), name |-> Part(names, i) ]]
           there == { i \in DOMAIN pairs : pairs[i].id # None \/ pairs[i].name # None }
<1>1. LoadAffiliations(ids, names) = Kept(pairs, there)
  BY DEF LoadAffiliations
<1>2. IsList(s) /\ \A i \in DOMAIN s : /\ s[i] = [ id |-> s[i].id, name |-> s[i].name ]
                                       /\ s[i].id # None \/ s[i].name # None
  BY DEF IsPerson
<1>3. DOMAIN Blank = { 1 } /\ Blank[1] = None
  BY DEF Blank
<1>4. /\ Some(c, "id") <=> \E i \in DOMAIN s : s[i].id # None
      /\ Some(c, "name") <=> \E i \in DOMAIN s : s[i].name # None
  BY DEF Some
<1>5. /\ DOMAIN PartsOfAll(c, "id") = DOMAIN s /\ \A i \in DOMAIN s : PartsOfAll(c, "id")[i] = s[i].id
      /\ DOMAIN PartsOfAll(c, "name") = DOMAIN s /\ \A i \in DOMAIN s : PartsOfAll(c, "name")[i] = s[i].name
  BY DEF PartsOfAll
<1>6. CASE s = << >>
  <2>1. DOMAIN s = {}
    BY <1>6
  <2>2. ids = Blank /\ names = Blank
    BY <1>4, <2>1 DEF AffiliationLine
  <2>3. DOMAIN pairs = { 1 } /\ pairs[1].id = None /\ pairs[1].name = None
    BY <1>3, <2>2
  <2>4. there = {}
    BY <2>3
  <2>5. QED
    BY <1>1, <1>6, <2>4, KeptNone
<1>7. CASE s # << >>
  <2>1. 1 \in DOMAIN s
    BY <1>2, <1>7, TailIs
  <2>2. Some(c, "id") \/ Some(c, "name")
    BY <1>2, <1>4, <2>1
  <2>3. DOMAIN ids \cup DOMAIN names = DOMAIN s
    BY <1>3, <1>5, <2>1, <2>2 DEF AffiliationLine
  <2>4. ASSUME NEW i \in DOMAIN s
        PROVE  Part(ids, i) = s[i].id /\ Part(names, i) = s[i].name
    BY <1>3, <1>4, <1>5 DEF AffiliationLine
  <2> HIDE DEF ids, names, Part
  <2>5. DOMAIN pairs = DOMAIN s /\ \A i \in DOMAIN s : pairs[i] = s[i]
    BY <1>2, <2>3, <2>4
  <2>6. IsList(pairs)
    <3>1. pairs = [i \in DOMAIN s |-> pairs[i]]
      BY <2>3
    <3> HIDE DEF pairs
    <3>2. QED
      BY <1>2, <3>1, MappedList
  <2> HIDE DEF pairs
  <2>7. there = DOMAIN pairs
    BY <1>2, <2>5
  <2>8. Kept(pairs, there) = pairs
    BY <2>6, <2>7, KeptAll
  <2>9. pairs = s
    BY <1>2, <2>5, <2>6, SameList
  <2>10. QED
    BY <1>1, <2>8, <2>9 DEF ids, names
<1>8. QED
  BY <1>6, <1>7

(* What is written of a person. *)
LEMMA CreatibutorIs ==
    ASSUME NEW c, IsPerson(c), NEW e, e = ExportCreatibutor(c)
    PROVE  /\ DOMAIN e # {} /\ << >> \notin DOMAIN e
           /\ \A k \in DOMAIN e : e[k] # Blank
           /\ Value(e, << "name" >>) = Line(c.name) /\ Value(e, << "type" >>) = Line(c.type)
           /\ Value(e, << "role", "id" >>) = Line(c.role)
           /\ \A k \in DOMAIN e : k[1] = "identifiers" => \E s \in DOMAIN c.identifiers : k = << "identifiers", s >>
           /\ \A s \in DOMAIN c.identifiers : /\ << "identifiers", s >> \in DOMAIN e
                                              /\ e[<< "identifiers", s >>] = Line(c.identifiers[s])
           /\ Value(e, << "affiliations", "id" >>) = AffiliationLine(c, "id")
           /\ Value(e, << "affiliations", "name" >>) = AffiliationLine(c, "name")
<1> DEFINE fields == { f \in { "id", "name" } : Some(c, f) }
           named == { << "name" >>, << "type" >> }
           role == { k \in { << "role", "id" >> } : c.role # None }
           known == { << "identifiers", s >> : s \in DOMAIN c.identifiers }
           affiliated == { << "affiliations", f >> : f \in fields }
           keys == named \cup role \cup known \cup affiliated
<1>1. /\ DOMAIN e = keys
      /\ \A k \in keys : e[k] = CASE k[1] = "identifiers" -> Line(c.identifiers[k[2]])
                                  [] k[1] = "affiliations" -> PartsOfAll(c, k[2])
                                  [] OTHER -> Line(c[k[1]])
  BY DEF ExportCreatibutor, Some, PartsOfAll
<1>2. /\ << "name" >> \in DOMAIN e /\ e[<< "name" >>] = Line(c.name)
      /\ << "type" >> \in DOMAIN e /\ e[<< "type" >>] = Line(c.type)
  BY <1>1
<1>3. /\ << "role", "id" >> \in DOMAIN e <=> c.role # None
      /\ << "role", "id" >> \in DOMAIN e => e[<< "role", "id" >>] = Line(c.role)
  BY <1>1
<1>4. ASSUME NEW s \in DOMAIN c.identifiers
      PROVE  << "identifiers", s >> \in DOMAIN e /\ e[<< "identifiers", s >>] = Line(c.identifiers[s])
  BY <1>1
<1>5. ASSUME NEW f \in { "id", "name" }
      PROVE  /\ << "affiliations", f >> \in DOMAIN e <=> Some(c, f)
             /\ Some(c, f) => e[<< "affiliations", f >>] = PartsOfAll(c, f)
  BY <1>1
<1>6. \A v : Line(v) # Blank <=> v # None
  BY DEF Line, Blank
<1>7. ASSUME NEW f, Some(c, f)
      PROVE  PartsOfAll(c, f) # Blank
  <2>1. PICK i \in DOMAIN c.affiliations : c.affiliations[i][f] # None
    BY <1>7 DEF Some
  <2>2. i \in DOMAIN PartsOfAll(c, f) /\ PartsOfAll(c, f)[i] # None
    BY <2>1 DEF PartsOfAll
  <2>3. \A i1 \in DOMAIN Blank : Blank[i1] = None
    BY DEF Blank
  <2>4. QED
    BY <2>2, <2>3
<1>8. ASSUME NEW k \in DOMAIN e
      PROVE  k # << >> /\ e[k] # Blank
  <2>1. CASE k \in named
    BY <1>2, <1>6, <2>1 DEF IsPerson
  <2>2. CASE k \in role
    BY <1>3, <1>6, <2>2
  <2>3. CASE k \in known
    BY <1>4, <1>6, <2>3 DEF IsPerson
  <2>4. CASE k \in affiliated
    BY <1>5, <1>7, <2>4
  <2>5. QED
    BY <1>1, <2>1, <2>2, <2>3, <2>4
<1>9. ASSUME NEW k \in DOMAIN e, k[1] = "identifiers"
      PROVE  \E s \in DOMAIN c.identifiers : k = << "identifiers", s >>
  BY <1>1, <1>9
<1>10. Line(None) = Blank
  BY DEF Line, Blank
<1>11. /\ Value(e, << "name" >>) = Line(c.name) /\ Value(e, << "type" >>) = Line(c.type)
       /\ Value(e, << "role", "id" >>) = Line(c.role)
       /\ Value(e, << "affiliations", "id" >>) = AffiliationLine(c, "id")
       /\ Value(e, << "affiliations", "name" >>) = AffiliationLine(c, "name")
  BY <1>2, <1>3, <1>5, <1>10 DEF Value, AffiliationLine
<1>12. QED
  BY <1>2, <1>4, <1>8, <1>9, <1>11

(* Everybody is read back with the same identifiers and affiliations. *)
LEMMA PeopleAreRead ==
    ASSUME NEW row, NEW prefix, NEW s, IsList(s), \A i \in DOMAIN s : IsPerson(s[i]),
           NEW entries, entries = [i \in DOMAIN s |-> ExportCreatibutor(s[i])],
           HasGroup(row, prefix, FlattenEntries(entries))
    PROVE  LoadCreatibutors(row, prefix) =
               [i \in DOMAIN s |->
                   [ name         |-> Line(s[i].name), type |-> Line(s[i].type),
                     identifiers  |-> [scheme \in DOMAIN s[i].identifiers |->
                                          Line(s[i].identifiers[scheme])],
                     affiliations |-> s[i].affiliations, role |-> Line(s[i].role) ]]
<1> DEFINE items == ProcessGroupedFields(row, prefix)
           Schemes(p) == { k[2] : k \in { k \in DOMAIN p : k[1] = "identifiers" /\ p[k] # Blank } }
           Known(p) == [scheme \in Schemes(p) |-> p[<< "identifiers", scheme >>]]
           Read(p) ==
               [ name         |-> Value(p, << "name" >>),
                 type         |-> Value(p, << "type" >>),
                 identifiers  |-> Known(p),
                 affiliations |-> LoadAffiliations(Value(p, << "affiliations", "id" >>),
                                                   Value(p, << "affiliations", "name" >>)),
                 role         |-> Value(p, << "role", "id" >>) ]
           Identified(c) == [scheme \in DOMAIN c.identifiers |-> Line(c.identifiers[scheme])]
           Wanted(c) == [ name |-> Line(c.name), type |-> Line(c.type), identifiers |-> Identified(c),
                          affiliations |-> c.affiliations, role |-> Line(c.role) ]
<1>1. DOMAIN entries = DOMAIN s /\ \A i \in DOMAIN s : entries[i] = ExportCreatibutor(s[i])
  OBVIOUS
<1>2. AreEntries(entries)
  <2>1. IsList(entries)
    BY <1>1, MappedList
  <2>2. QED
    BY <1>1, <2>1, CreatibutorIs DEF AreEntries
<1>3. items = ProcessGroupedFields(row, prefix)
  OBVIOUS
<1>4. LoadCreatibutors(row, prefix) = [i \in DOMAIN items |-> Read(items[i])]
  BY DEF LoadCreatibutors
<1> HIDE DEF items
<1>5. /\ IsList(items) /\ DOMAIN items = DOMAIN s
      /\ \A i \in DOMAIN s :
             /\ \A k : Value(items[i], k) = Value(entries[i], k)
             /\ \A k : k \in DOMAIN items[i] /\ items[i][k] # Blank <=> k \in DOMAIN entries[i]
             /\ \A k \in DOMAIN entries[i] : items[i][k] = entries[i][k]
  BY <1>1, <1>2, <1>3, EntriesAreRead
<1>6. ASSUME NEW i \in DOMAIN s
      PROVE  Read(items[i]) = Wanted(s[i])
  <2> DEFINE p == items[i]
             e == entries[i]
             c == s[i]
  <2>1. IsPerson(c) /\ e = ExportCreatibutor(c)
    BY <1>1
  <2>2. /\ \A k : Value(p, k) = Value(e, k)
        /\ \A k : k \in DOMAIN p /\ p[k] # Blank <=> k \in DOMAIN e
        /\ \A k \in DOMAIN e : p[k] = e[k]
    BY <1>5
  <2> HIDE DEF p, e, c
  <2>3. /\ Value(e, << "name" >>) = Line(c.name) /\ Value(e, << "type" >>) = Line(c.type)
        /\ Value(e, << "role", "id" >>) = Line(c.role)
        /\ \A k \in DOMAIN e : k[1] = "identifiers" => \E x \in DOMAIN c.identifiers : k = << "identifiers", x >>
        /\ \A x \in DOMAIN c.identifiers : /\ << "identifiers", x >> \in DOMAIN e
                                           /\ e[<< "identifiers", x >>] = Line(c.identifiers[x])
        /\ Value(e, << "affiliations", "id" >>) = AffiliationLine(c, "id")
        /\ Value(e, << "affiliations", "name" >>) = AffiliationLine(c, "name")
    BY <2>1, CreatibutorIs
  <2>4. Schemes(p) = DOMAIN c.identifiers
    <3>1. ASSUME NEW k \in DOMAIN p, k[1] = "identifiers", p[k] # Blank
          PROVE  k[2] \in DOMAIN c.identifiers
      <4>1. PICK x \in DOMAIN c.identifiers : k = << "identifiers", x >>
        BY <2>2, <2>3, <3>1
      <4>2. QED
        BY <4>1
    <3>2. ASSUME NEW x \in DOMAIN c.identifiers
          PROVE  x \in Schemes(p)
      <4>1. /\ << "identifiers", x >> \in DOMAIN p /\ p[<< "identifiers", x >>] # Blank
            /\ << "identifiers", x >>[1] = "identifiers" /\ << "identifiers", x >>[2] = x
        BY <2>2, <2>3
      <4>2. QED
        BY <4>1
    <3>3. QED
      BY <3>1, <3>2
  <2>5. \A x \in DOMAIN c.identifiers : p[<< "identifiers", x >>] = Line(c.identifiers[x])
    BY <2>2, <2>3
  <2> HIDE DEF Schemes
  <2>6. Known(p) = Identified(c)
    BY <2>4, <2>5
  <2>7. LoadAffiliations(Value(p, << "affiliations", "id" >>), Value(p, << "affiliations", "name" >>))
            = c.affiliations
    BY <2>1, <2>2, <2>3, AffiliationsAreRead
  <2> HIDE DEF Known, Identified
  <2>8. Read(p) = Wanted(c)
    BY <2>2, <2>3, <2>6, <2>7
  <2>9. QED
    BY <2>8 DEF p, c
<1> HIDE DEF Read, Wanted
<1>7. LoadCreatibutors(row, prefix) = [i \in DOMAIN s |-> Wanted(s[i])]
  BY <1>4, <1>5, <1>6
<1>8. QED
  BY <1>7 DEF Wanted

(* The subjects that are not of the vocabulary, and those that are. *)
LEMMA SubjectsAreOfTwoKinds ==
    ASSUME NEW record, IsExported(record)
    PROVE  LET words == Words(record.subjects)
               terms == Terms(record.subjects)
           IN  /\ IsList(words)
               /\ \A i \in DOMAIN words : words[i].id = None /\ words[i].subject # None
               /\ IsList(terms)
               /\ \A i \in DOMAIN terms : /\ terms[i].subject # None /\ terms[i].scheme # None
                                         /\ terms[i] \in Vocabulary
<1> DEFINE s == record.subjects
           old == { i \in DOMAIN s : s[i].id = None }
           new == { i \in DOMAIN s : s[i].id # None }
           words == Words(s)
           terms == Terms(s)
<1>1. /\ IsList(s)
      /\ \A i \in DOMAIN s : s[i].subject # None /\ (s[i].id # None => s[i] \in Vocabulary /\ s[i].scheme # None)
  BY DEF IsExported
<1>3. old \subseteq DOMAIN s /\ new \subseteq DOMAIN s
  OBVIOUS
<1>4. words = Kept(s, old) /\ terms = Kept(s, new)
  BY DEF Words, Terms
<1> HIDE DEF words, terms, old, new
<1>5. IsList(words) /\ \A i \in DOMAIN words : \E j \in old : words[i] = s[j]
  BY <1>1, <1>3, <1>4, KeptWasThere
<1>6. IsList(terms) /\ \A i \in DOMAIN terms : \E j \in new : terms[i] = s[j]
  BY <1>1, <1>3, <1>4, KeptWasThere
<1>7. ASSUME NEW i \in DOMAIN words
      PROVE  words[i].id = None /\ words[i].subject # None
  <2>1. PICK j \in old : words[i] = s[j]
    BY <1>5
  <2>2. QED
    BY <1>1, <2>1 DEF old
<1>8. ASSUME NEW i \in DOMAIN terms
      PROVE  terms[i].subject # None /\ terms[i].scheme # None /\ terms[i] \in Vocabulary
  <2>1. PICK j \in new : terms[i] = s[j]
    BY <1>6
  <2>2. QED
    BY <1>1, <2>1 DEF new
<1>9. QED
  BY <1>5, <1>6, <1>7, <1>8 DEF words, terms

(* Every subject of the vocabulary is found again. *)
LEMMA TermsAreFound ==
    ASSUME NEW row, NEW record, IsExported(record), RowOf(row, record),
           NEW terms, terms = Terms(record.subjects),
           \A i \in DOMAIN terms : Unmistaken(terms[i])
    PROVE  /\ SubjectsPair(row)
           /\ IsList(SubjectHits(row)) /\ DOMAIN SubjectHits(row) = DOMAIN terms
           /\ \A i \in DOMAIN terms : SubjectHits(row)[i] = { terms[i] }
<1> DEFINE entries == [i \in DOMAIN terms |-> PartsOf(terms[i], TermPart)]
           cells == FlattenEntries(entries)
           subjects == SubjectColumn(row, "subject")
           schemes == SubjectColumn(row, "scheme")
           hits == [i \in DOMAIN subjects \cap DOMAIN schemes |->
                       { v \in Vocabulary : Line(v.subject) = subjects[i] /\ Line(v.scheme) = schemes[i] }]
           there == { i \in DOMAIN hits : subjects[i] # Blank }
<1>1. HasGroup(row, "subjects", cells)
  <2>1. ExportGroups(record)["subjects"] = cells
    BY DEF ExportGroups
  <2>2. QED
    BY <2>1, GroupNames DEF RowOf
<1>2. /\ IsList(terms)
      /\ \A i \in DOMAIN terms : /\ terms[i].subject # None /\ terms[i].scheme # None
                                /\ terms[i] \in Vocabulary
  BY SubjectsAreOfTwoKinds
<1>3. ASSUME NEW i \in DOMAIN terms
      PROVE  /\ DOMAIN entries[i] = { << "subject" >>, << "scheme" >> }
             /\ entries[i][<< "subject" >>] = Line(terms[i].subject)
             /\ entries[i][<< "scheme" >>] = Line(terms[i].scheme)
  BY <1>2 DEF PartsOf, Present, TermPart
<1>4. DOMAIN entries = DOMAIN terms
  OBVIOUS
<1> HIDE DEF entries
<1>5. ASSUME NEW part \in { "subject", "scheme" }
      PROVE  /\ << part >> \in DOMAIN cells <=> DOMAIN terms # {}
             /\ << part >> \in DOMAIN cells => cells[<< part >>] = Column(entries, << part >>)
             /\ DOMAIN Column(entries, << part >>) = DOMAIN terms
             /\ \A i \in DOMAIN terms : Column(entries, << part >>)[i] = entries[i][<< part >>]
  BY <1>3, <1>4 DEF FlattenEntries, Column
<1>6. \A v : Line(v) # Blank <=> v # None
  BY DEF Line, Blank
<1>7. SubjectHits(row) = Kept(hits, there)
  BY DEF SubjectHits
<1>8. CASE terms = << >>
  <2>1. DOMAIN terms = {}
    BY <1>8
  <2>2. subjects = << Blank >> /\ schemes = << Blank >>
    BY <1>1, <1>5, <2>1 DEF HasGroup, SubjectColumn
  <2>3. SubjectsPair(row)
    BY <2>2 DEF SubjectsPair
  <2> HIDE DEF subjects, schemes
  <2>4. there = {}
    BY <2>2
  <2>5. SubjectHits(row) = << >>
    BY <1>7, <2>4, KeptNone
  <2>6. QED
    BY <1>2, <1>8, <2>1, <2>3, <2>5
<1>9. CASE terms # << >>
  <2>1. 1 \in DOMAIN terms
    BY <1>2, <1>9, TailIs
  <2>2. ASSUME NEW part \in { "subject", "scheme" }
        PROVE  SubjectColumn(row, part) = Column(entries, << part >>)
    <3>1. << part >> \in DOMAIN cells /\ cells[<< part >>] = Column(entries, << part >>)
      BY <1>5, <2>1
    <3>2. entries[1][<< part >>] # Blank
      BY <1>2, <1>3, <1>6, <2>1
    <3>3. Column(entries, << part >>) # << Blank >>
      <4>1. 1 \in DOMAIN Column(entries, << part >>) /\ Column(entries, << part >>)[1] # Blank
        BY <1>5, <2>1, <3>2
      <4>2. << Blank >>[1] = Blank
        OBVIOUS
      <4>3. QED
        BY <4>1, <4>2
    <3> HIDE DEF cells
    <3>4. << "subjects", << part >> >> \in DOMAIN row /\ row[<< "subjects", << part >> >>] = Column(entries, << part >>)
      BY <1>1, <3>1, <3>3 DEF HasGroup
    <3>5. QED
      BY <3>4 DEF SubjectColumn
  <2>3. /\ DOMAIN subjects = DOMAIN terms /\ \A i \in DOMAIN terms : subjects[i] = Line(terms[i].subject)
        /\ DOMAIN schemes = DOMAIN terms /\ \A i \in DOMAIN terms : schemes[i] = Line(terms[i].scheme)
    BY <1>3, <1>5, <2>2
  <2>4. SubjectsPair(row)
    <3>1. /\ subjects = [i \in DOMAIN terms |-> subjects[i]]
          /\ schemes = [i \in DOMAIN terms |-> schemes[i]]
      BY <1>4, <2>2 DEF Column
    <3> HIDE DEF subjects, schemes
    <3>2. Len(subjects) = Len(terms) /\ Len(schemes) = Len(terms)
      BY <1>2, <3>1, MappedList
    <3>3. QED
      BY <3>2 DEF SubjectsPair, subjects, schemes
  <2> HIDE DEF subjects, schemes
  <2>5. ASSUME NEW i \in DOMAIN terms
        PROVE  { v \in Vocabulary : Line(v.subject) = subjects[i] /\ Line(v.scheme) = schemes[i] } = { terms[i] }
    <3>1. \A a, b : Line(a) = Line(b) <=> a = b
      BY DEF Line
    <3>2. Unmistaken(terms[i])
      OBVIOUS
    <3>3. QED
      BY <1>2, <2>3, <3>1, <3>2 DEF Unmistaken
  <2>6. DOMAIN hits = DOMAIN terms /\ \A i \in DOMAIN terms : hits[i] = { terms[i] }
    BY <2>3, <2>5
  <2>7. IsList(hits)
    <3>1. hits = [i \in DOMAIN terms |-> hits[i]]
      BY <2>3
    <3> HIDE DEF hits
    <3>2. QED
      BY <1>2, <3>1, MappedList
  <2> HIDE DEF hits
  <2>8. there = DOMAIN hits
    BY <1>2, <1>6, <2>3, <2>6
  <2>9. SubjectHits(row) = hits
    BY <1>7, <2>7, <2>8, KeptAll
  <2>10. QED
    BY <2>4, <2>6, <2>7, <2>9
<1>10. QED
  BY <1>8, <1>9

SubjectEntries(all) == [i \in DOMAIN all |-> [ id |-> all[i].id, subject |-> all[i].subject ]]

(* Free text comes first. *)
LEMMA SubjectsAreRead ==
    ASSUME NEW row, NEW record, IsExported(record), RowOf(row, record),
           NEW words, words = Words(record.subjects), NEW terms, terms = Terms(record.subjects),
           \A i \in DOMAIN terms : Unmistaken(terms[i]),
           NEW all, all = words \o terms
    PROVE  LoadSubjects(row) = SubjectEntries(all)
<1> DEFINE texts == [i \in DOMAIN words |-> words[i].subject]
           cell == [i \in DOMAIN texts |-> Line(texts[i])]
           hits == SubjectHits(row)
           Entry(v) == [ id |-> v.id, subject |-> v.subject ]
           first == [i \in DOMAIN cell |-> [ id |-> None, subject |-> cell[i][1] ]]
           then == [i \in DOMAIN hits |-> Entry(CHOOSE v \in hits[i] : TRUE)]
           wanted == [i \in DOMAIN all |-> Entry(all[i])]
<1>1. /\ IsList(words) /\ IsList(terms)
      /\ \A i \in DOMAIN words : words[i].id = None /\ words[i].subject # None
  BY SubjectsAreOfTwoKinds
<1>2. HasGroup(row, "keywords", ExportTexts(texts))
  <2>1. ExportGroups(record)["keywords"] = ExportTexts(texts)
    BY DEF ExportGroups
  <2>2. QED
    BY <2>1, GroupNames DEF RowOf
<1>3. DOMAIN texts = DOMAIN words /\ \A i \in DOMAIN words : texts[i] = words[i].subject
  OBVIOUS
<1>4. IsList(texts)
  BY <1>1, <1>3, MappedList
<1>5. cell = [i \in DOMAIN texts |-> Line(texts[i])]
  OBVIOUS
<1> HIDE DEF texts, cell
<1>a. \A i \in DOMAIN texts : texts[i] # None
  BY <1>1, <1>3
<1>6. Lines(row, Plain("keywords")) = cell
  BY <1>2, <1>4, <1>5, <1>a, TextsAreRead
<1>b. /\ NotBlank(cell) = cell /\ IsList(cell) /\ DOMAIN cell = DOMAIN texts
      /\ \A i \in DOMAIN texts : cell[i][1] = texts[i]
  BY <1>4, <1>5, <1>a, TextsAreLines
<1>7. /\ NotBlank(cell) = cell /\ IsList(cell) /\ DOMAIN cell = DOMAIN words
      /\ \A i \in DOMAIN words : cell[i][1] = words[i].subject
  BY <1>3, <1>b
<1>8. IsList(hits) /\ DOMAIN hits = DOMAIN terms /\ \A i \in DOMAIN terms : hits[i] = { terms[i] }
  BY TermsAreFound
<1>9. LoadSubjects(row) = first \o then
  BY <1>6, <1>7 DEF LoadSubjects
<1>10. DOMAIN first = DOMAIN words /\ \A i \in DOMAIN words : first[i] = Entry(words[i])
  BY <1>1, <1>7
<1> HIDE DEF hits
<1>11. DOMAIN then = DOMAIN terms /\ \A i \in DOMAIN terms : then[i] = Entry(terms[i])
  <2>1. ASSUME NEW i \in DOMAIN terms
        PROVE  (CHOOSE v \in hits[i] : TRUE) = terms[i]
    <3>1. hits[i] = { terms[i] }
      BY <1>8
    <3>2. terms[i] \in hits[i] /\ \A v \in hits[i] : v = terms[i]
      BY <3>1
    <3>3. QED
      BY <3>2
  <2> HIDE DEF Entry
  <2>2. DOMAIN then = DOMAIN hits /\ \A i \in DOMAIN hits : then[i] = Entry(CHOOSE v \in hits[i] : TRUE)
    OBVIOUS
  <2> HIDE DEF then
  <2>3. QED
    BY <1>8, <2>1, <2>2
<1> HIDE DEF Entry
<1>12. IsList(first) /\ Len(first) = Len(words)
  <2>1. first = [i \in DOMAIN words |-> first[i]]
    BY <1>7
  <2> HIDE DEF first
  <2>2. QED
    BY <1>1, <2>1, MappedList
<1>13. IsList(then) /\ Len(then) = Len(terms)
  <2>1. then = [i \in DOMAIN terms |-> then[i]]
    BY <1>8
  <2> HIDE DEF then
  <2>2. QED
    BY <1>1, <2>1, MappedList
<1> HIDE DEF first, then
<1>14. /\ IsList(all) /\ Len(all) = Len(words) + Len(terms)
       /\ \A i \in 1..Len(words) : all[i] = words[i]
       /\ \A i \in 1..Len(terms) : all[Len(words) + i] = terms[i]
  BY <1>1, JoinedList
<1>15. /\ IsList(first \o then) /\ Len(first \o then) = Len(words) + Len(terms)
       /\ \A i \in 1..Len(words) : (first \o then)[i] = first[i]
       /\ \A i \in 1..Len(terms) : (first \o then)[Len(words) + i] = then[i]
  <2>1. /\ IsList(first \o then) /\ Len(first \o then) = Len(first) + Len(then)
        /\ \A i \in 1..Len(first) : (first \o then)[i] = first[i]
        /\ \A i \in 1..Len(then) : (first \o then)[Len(first) + i] = then[i]
    BY ONLY <1>12, <1>13, JoinedList
  <2>2. QED
    BY ONLY <1>12, <1>13, <2>1
<1>16. IsList(wanted) /\ DOMAIN wanted = DOMAIN all /\ \A i \in DOMAIN all : wanted[i] = Entry(all[i])
  <2>1. DOMAIN wanted = DOMAIN all /\ \A i \in DOMAIN all : wanted[i] = Entry(all[i])
    OBVIOUS
  <2>2. wanted = [i \in DOMAIN all |-> wanted[i]]
    OBVIOUS
  <2> HIDE DEF wanted
  <2>3. QED
    BY <1>14, <2>1, <2>2, MappedList
<1>17. /\ Len(words) \in Nat /\ DOMAIN words = 1..Len(words)
       /\ Len(terms) \in Nat /\ DOMAIN terms = 1..Len(terms)
       /\ DOMAIN all = 1..(Len(words) + Len(terms))
       /\ DOMAIN (first \o then) = 1..(Len(words) + Len(terms))
  BY <1>1, <1>14, <1>15, ListIs
<1>18. ASSUME NEW i \in DOMAIN all
       PROVE  (first \o then)[i] = Entry(all[i])
  <2>1. CASE i \in 1..Len(words)
    BY <1>10, <1>14, <1>15, <1>17, <2>1
  <2>2. CASE i \notin 1..Len(words)
    <3>1. PICK j \in 1..Len(terms) : i = Len(words) + j
      <4>1. i - Len(words) \in 1..Len(terms) /\ i = Len(words) + (i - Len(words))
        BY <1>17, <2>2
      <4>2. QED
        BY <4>1
    <3>2. QED
      BY <1>11, <1>14, <1>15, <1>17, <3>1
  <2>3. QED
    BY <2>1, <2>2
<1> HIDE DEF wanted
<1>19. first \o then = wanted
  <2> DEFINE joined == first \o then
  <2>1. IsList(joined) /\ DOMAIN joined = DOMAIN wanted
    BY <1>15, <1>16, <1>17
  <2>2. \A i \in DOMAIN joined : joined[i] = wanted[i]
    BY <1>16, <1>18, <2>1
  <2> HIDE DEF joined
  <2>3. joined = wanted
    BY <1>16, <2>1, <2>2, SameList
  <2>4. QED
    BY <2>3 DEF joined
<1>20. QED
  BY <1>9, <1>19 DEF wanted, Entry, SubjectEntries

-----------------------------------------------------------------------------
(* The record.                                                             *)

(* The creators and the contributors. *)
LEMMA EverybodyIsRead ==
    ASSUME NEW row, NEW record, IsExported(record), RowOf(row, record)
    PROVE  /\ LoadCreatibutors(row, "creators") =
                  [i \in DOMAIN record.creators |->
                      LET c == record.creators[i]
                      IN  [ name |-> Line(c.name), type |-> Line(c.type),
                            identifiers |-> [s \in DOMAIN c.identifiers |-> Line(c.identifiers[s])],
                            affiliations |-> c.affiliations, role |-> Line(c.role) ]]
           /\ LoadCreatibutors(row, "contributors") =
                  [i \in DOMAIN record.contributors |->
                      LET c == record.contributors[i]
                      IN  [ name |-> Line(c.name), type |-> Line(c.type),
                            identifiers |-> [s \in DOMAIN c.identifiers |-> Line(c.identifiers[s])],
                            affiliations |-> c.affiliations, role |-> Line(c.role) ]]
<1> DEFINE creators == [i \in DOMAIN record.creators |-> ExportCreatibutor(record.creators[i])]
           contributors == [i \in DOMAIN record.contributors |-> ExportCreatibutor(record.contributors[i])]
<1>1. /\ HasGroup(row, "creators", FlattenEntries(creators))
      /\ HasGroup(row, "contributors", FlattenEntries(contributors))
  <2>1. /\ ExportGroups(record)["creators"] = FlattenEntries(creators)
        /\ ExportGroups(record)["contributors"] = FlattenEntries(contributors)
    BY DEF ExportGroups
  <2>2. QED
    BY <2>1, GroupNames DEF RowOf
<1>2. IsList(record.creators) /\ \A i \in DOMAIN record.creators : IsPerson(record.creators[i])
  BY DEF IsExported
<1>3. IsList(record.contributors) /\ \A i \in DOMAIN record.contributors : IsPerson(record.contributors[i])
  BY DEF IsExported
<1>4. /\ creators = [i \in DOMAIN record.creators |-> ExportCreatibutor(record.creators[i])]
      /\ contributors = [i \in DOMAIN record.contributors |-> ExportCreatibutor(record.contributors[i])]
  OBVIOUS
<1> HIDE DEF creators, contributors
<1>5. QED
  BY <1>1, <1>2, <1>3, <1>4, PeopleAreRead

(* A record that has what the importer asks for is valid. *)
LEMMA ExportIsValid ==
    ASSUME NEW row, NEW record, IsExported(record), RowOf(row, record),
           { "publisher", "description", "version" } \subseteq DOMAIN record.flat,
           \A i \in DOMAIN record.related : record.related[i].resource_type # None,
           NEW terms, terms = Terms(record.subjects),
           \A i \in DOMAIN terms : Unmistaken(terms[i])
    PROVE  CsvIsValid(row)
<1>1. ASSUME NEW name \in RequiredColumn
      PROVE  Plain(name) \in DOMAIN row
  <2>1. name \in DOMAIN record.flat
    BY DEF RequiredColumn, IsExported
  <2>2. name \notin DOMAIN ExportGroups(record)
    BY <2>1 DEF IsExported
  <2>3. QED
    BY <2>1, <2>2 DEF RowOf
<1>2. Chosen(row, << "publication_date", "publication_date (EDTF Level 0 forrmat)" >>) # << >>
  <2> DEFINE names == << "publication_date", "publication_date (EDTF Level 0 forrmat)" >>
             there == { i \in DOMAIN names : Plain(names[i]) \in DOMAIN row }
  <2>1. "publication_date" \in DOMAIN record.flat /\ "publication_date" \notin DOMAIN ExportGroups(record)
    BY GroupNames DEF IsExported
  <2>2. Plain("publication_date") \in DOMAIN row /\ row[Plain("publication_date")] # << >>
    <3>1. /\ Plain("publication_date") \in DOMAIN row
          /\ row[Plain("publication_date")] = << Line(record.flat["publication_date"]) >>
      BY <2>1 DEF RowOf
    <3>2. \A x : << x >> # << >>
      OBVIOUS
    <3>3. QED
      BY <3>1, <3>2
  <2>3. DOMAIN names = { 1, 2 } /\ names[1] = "publication_date"
    OBVIOUS
  <2>4. Chosen(row, names) = IF there = {} THEN << >>
                             ELSE row[Plain(names[CHOOSE i \in there : \A j \in there : i <= j])]
    BY DEF Chosen
  <2> HIDE DEF names
  <2>5. 1 \in there /\ \A j \in there : 1 <= j
    BY <2>2, <2>3
  <2>6. (CHOOSE i \in there : \A j \in there : i <= j) = 1
    <3>1. ASSUME NEW i \in there, \A j \in there : i <= j PROVE i = 1
      BY <2>3, <2>5, <3>1
    <3> HIDE DEF there
    <3>2. QED
      BY <2>5, <3>1
  <2>7. Chosen(row, names) = row[Plain("publication_date")]
    BY <2>3, <2>4, <2>5, <2>6
  <2>8. QED
    BY <2>2, <2>7 DEF names
<1>3. LET creators == LoadCreatibutors(row, "creators")
      IN  creators # << >> /\ \A i \in DOMAIN creators : creators[i].type # Blank
  <2>1. DOMAIN record.creators # {} /\ \A i \in DOMAIN record.creators : record.creators[i].type # None
    BY NothingListed DEF IsExported, IsPerson
  <2>2. /\ DOMAIN LoadCreatibutors(row, "creators") = DOMAIN record.creators
        /\ \A i \in DOMAIN record.creators :
               LoadCreatibutors(row, "creators")[i].type = Line(record.creators[i].type)
    BY EverybodyIsRead
  <2>3. \A v : Line(v) = Blank <=> v = None
    BY DEF Line, Blank
  <2>4. DOMAIN << >> = {}
    OBVIOUS
  <2>5. QED
    BY <2>1, <2>2, <2>3, <2>4
<1>4. LET contributors == LoadCreatibutors(row, "contributors")
      IN  \A i \in DOMAIN contributors : contributors[i].type # Blank /\ contributors[i].role # Blank
  <2>1. \A i \in DOMAIN record.contributors :
            record.contributors[i].type # None /\ record.contributors[i].role # None
    BY DEF IsExported, IsPerson
  <2>2. /\ DOMAIN LoadCreatibutors(row, "contributors") = DOMAIN record.contributors
        /\ \A i \in DOMAIN record.contributors :
               /\ LoadCreatibutors(row, "contributors")[i].type = Line(record.contributors[i].type)
               /\ LoadCreatibutors(row, "contributors")[i].role = Line(record.contributors[i].role)
    BY EverybodyIsRead
  <2>3. \A v : Line(v) = Blank <=> v = None
    BY DEF Line, Blank
  <2>4. QED
    BY <2>1, <2>2, <2>3
<1>5. LET dates == LoadDates(row)
      IN  \A i \in DOMAIN dates : dates[i].date # Blank /\ dates[i].type # Blank
  <2>1. \A i \in DOMAIN record.dates : record.dates[i].date # None /\ record.dates[i].type # None
    BY DEF IsExported
  <2>2. /\ DOMAIN LoadDates(row) = DOMAIN record.dates
        /\ \A i \in DOMAIN record.dates : /\ LoadDates(row)[i].date = Line(record.dates[i].date)
                                          /\ LoadDates(row)[i].type = Line(record.dates[i].type)
    BY DatesAreRead
  <2>3. \A v : Line(v) = Blank <=> v = None
    BY DEF Line, Blank
  <2>4. QED
    BY <2>1, <2>2, <2>3
<1>6. LET funding == LoadFunding(row)
      IN  \A i \in DOMAIN funding : funding[i].id # Blank \/ funding[i].name # Blank
  <2>1. \A i \in DOMAIN record.funding : record.funding[i].id # None \/ record.funding[i].name # None
    BY DEF IsExported
  <2>2. /\ DOMAIN LoadFunding(row) = DOMAIN record.funding
        /\ \A i \in DOMAIN record.funding : /\ LoadFunding(row)[i].id = Line(record.funding[i].id)
                                            /\ LoadFunding(row)[i].name = Line(record.funding[i].name)
    BY FundingIsRead
  <2>3. \A v : Line(v) = Blank <=> v = None
    BY DEF Line, Blank
  <2>4. QED
    BY <2>1, <2>2, <2>3
<1>7. SubjectsPair(row) /\ LET hits == SubjectHits(row) IN \A i \in DOMAIN hits : Cardinality(hits[i]) = 1
  <2>1. /\ SubjectsPair(row)
        /\ DOMAIN SubjectHits(row) = DOMAIN terms
        /\ \A i \in DOMAIN terms : SubjectHits(row)[i] = { terms[i] }
    BY TermsAreFound
  <2>2. ASSUME NEW i \in DOMAIN terms
        PROVE  Cardinality(SubjectHits(row)[i]) = 1
    <3>1. SubjectHits(row)[i] = { terms[i] }
      BY <2>1
    <3>2. Cardinality({ terms[i] }) = 1
      BY FS_Singleton
    <3>3. QED
      BY <3>1, <3>2
  <2>3. QED
    BY <2>1, <2>2
<1>8. ASSUME NEW i \in DOMAIN LoadRelatedIdentifiers(row), NEW k \in RelatedPart \ { << "scheme" >> }
      PROVE  LoadRelatedIdentifiers(row)[i][k] # Blank
  <2>1. /\ i \in DOMAIN record.related
        /\ LoadRelatedIdentifiers(row)[i][k] = Line(record.related[i][k[1]])
    BY RelatedAreRead
  <2>2. k[1] \in { "identifier", "relation_type", "resource_type" }
    BY DEF RelatedPart, IdentifierPart
  <2>3. /\ record.related[i].identifier # None /\ record.related[i].relation_type # None
        /\ record.related[i].resource_type # None
    BY <2>1 DEF IsExported
  <2>4. QED
    BY <2>1, <2>2, <2>3 DEF Line, Blank
<1>9. QED
  BY <1>1, <1>2, <1>3, <1>4, <1>5, <1>6, <1>7, <1>8 DEF CsvIsValid
=============================================================================

------------------------------ MODULE CsvRows -------------------------------
(***************************************************************************)
(* Rows of a CSV file: what the importer makes of one (serializers/base.py,*)
(* records/csv.py, records/utils.py) and what the exporter writes for a    *)
(* record (records/csv_export.py).                                         *)
(*                                                                         *)
(* A row is a function from columns to cells.  A column is its name up to  *)
(* the first dot, and what follows it, split at the dots; a cell is the    *)
(* sequence of its lines; a line is the sequence of its parts between      *)
(* semicolons, where None is an empty one.                                 *)
(***************************************************************************)
EXTENDS Lists

CONSTANTS
    Vocabulary      \* the subjects of the instance: id, subject and scheme

(* None is nothing that the exporter writes. *)
ASSUME WrittenAssumption == None # "true"

Blank == << None >>

Line(value) == << value >>

(* A column without a dot. *)
Plain(name) == << name, << >> >>

(* The columns of a group, without its prefix. *)
Subkeys(row, prefix) == { c[2] : c \in { c \in DOMAIN row : c[1] = prefix /\ c[2] # << >> } }

-----------------------------------------------------------------------------
(* The importer.                                                           *)

(* An empty cell is one that is not there. *)
CleanRow(row) == [c \in { c \in DOMAIN row : row[c] # << Blank >> } |-> row[c]]

(***************************************************************************)
(* The i-th lines of the columns of a group make its i-th item, unless     *)
(* they are all blank; a column that is too short is blank from there on.  *)
(***************************************************************************)
ProcessGroupedFields(row, prefix) ==
    LET keys == Subkeys(row, prefix)
        Cell(k) == row[<< prefix, k >>]
        items == [i \in UNION { DOMAIN Cell(k) : k \in keys } |->
                     [k \in keys |-> IF i \in DOMAIN Cell(k) THEN Cell(k)[i] ELSE Blank]]
    IN  Kept(items, { i \in DOMAIN items : \E k \in keys : items[i][k] # Blank })

Value(item, key) == IF key \in DOMAIN item THEN item[key] ELSE Blank

Filled(item) == [k \in { k \in DOMAIN item : item[k] # Blank } |-> item[k]]

(* Items with these parts, and no others. *)
ItemsOf(row, prefix, parts) ==
    LET items == ProcessGroupedFields(row, prefix)
    IN  [i \in DOMAIN items |-> [part \in parts |-> Value(items[i], part)]]

IdentifierPart == { << "identifier" >>, << "scheme" >> }

LoadIdentifiers(row) == ItemsOf(row, "identifiers", IdentifierPart)

RelatedPart == IdentifierPart \cup { << "relation_type", "id" >>, << "resource_type", "id" >> }

(***************************************************************************)
(* A blank id of a type is a type all the same: { "id": None }, which the  *)
(* dump does not drop, as it does a scheme that is blank.                  *)
(***************************************************************************)
LoadRelatedIdentifiers(row) == ItemsOf(row, "related_identifiers", RelatedPart)

(* All features are points. *)
LoadLocations(row) ==
    ItemsOf(row, "locations", { << part >> : part \in { "lat", "lon", "place", "description" } })

LoadReferences(row) ==
    LET items == ProcessGroupedFields(row, "references")
    IN  [i \in DOMAIN items |-> Filled(items[i])]

(* Ids and names are paired by their place. *)
LoadAffiliations(ids, names) ==
    LET Part(line, i) == IF i \in DOMAIN line THEN line[i] ELSE None
        pairs == [i \in DOMAIN ids \cup DOMAIN names |->
                     [ id |-> Part(ids, i), name |-> Part(names, i) ]]
    IN  Kept(pairs, { i \in DOMAIN pairs : pairs[i].id # None \/ pairs[i].name # None })

LoadCreatibutors(row, prefix) ==
    LET people == ProcessGroupedFields(row, prefix)
        Schemes(p) == { k[2] : k \in { k \in DOMAIN p : k[1] = "identifiers" /\ p[k] # Blank } }
    IN  [i \in DOMAIN people |->
            [ name         |-> Value(people[i], << "name" >>),
              type         |-> Value(people[i], << "type" >>),
              identifiers  |-> [s \in Schemes(people[i]) |-> people[i][<< "identifiers", s >>]],
              affiliations |-> LoadAffiliations(Value(people[i], << "affiliations", "id" >>),
                                                Value(people[i], << "affiliations", "name" >>)),
              role         |-> Value(people[i], << "role", "id" >>) ]]

(* The title of a licence with an id is not looked at. *)
LoadRights(row) ==
    LET rights == ProcessGroupedFields(row, "rights")
        Id(r) == Value(r, << "id" >>)
    IN  [i \in DOMAIN rights |->
            [ id          |-> Id(rights[i]),
              title       |-> IF Id(rights[i]) = Blank THEN Value(rights[i], << "title" >>)
                              ELSE Blank,
              description |-> Value(rights[i], << "description" >>) ]]

LoadDates(row) ==
    LET dates == ProcessGroupedFields(row, "dates")
    IN  [i \in DOMAIN dates |->
            [ date |-> Value(dates[i], << "date" >>), type |-> Value(dates[i], << "type", "id" >>),
              description |-> Value(dates[i], << "description" >>) ]]

(* The award is in the same line as its funder. *)
LoadFunding(row) ==
    LET funding == ProcessGroupedFields(row, "funding")
    IN  [i \in DOMAIN funding |->
            [ id    |-> Value(funding[i], << "funder", "id" >>),
              name  |-> Value(funding[i], << "funder", "name" >>),
              award |-> [part \in { "id", "number", "title" } |->
                            Value(funding[i], << "award", part >>)] ]]

NotBlank(cell) == Kept(cell, { i \in DOMAIN cell : cell[i] # Blank })

(* A cell that is not there has no lines. *)
Lines(row, column) == IF column \in DOMAIN row THEN row[column] ELSE << >>

SubjectColumn(row, part) ==
    IF << "subjects", << part >> >> \in DOMAIN row THEN row[<< "subjects", << part >> >>]
    ELSE << Blank >>

SubjectsPair(row) == Len(SubjectColumn(row, "subject")) = Len(SubjectColumn(row, "scheme"))

(* For each subject, what the vocabulary has of this name and scheme. *)
SubjectHits(row) ==
    LET subjects == SubjectColumn(row, "subject")
        schemes == SubjectColumn(row, "scheme")
        hits == [i \in DOMAIN subjects \cap DOMAIN schemes |->
                    { v \in Vocabulary : Line(v.subject) = subjects[i] /\ Line(v.scheme) = schemes[i] }]
    IN  Kept(hits, { i \in DOMAIN hits : subjects[i] # Blank })

(* Free text first, then the vocabulary's. *)
LoadSubjects(row) ==
    LET words == NotBlank(Lines(row, Plain("keywords")))
        hits == SubjectHits(row)
        Entry(v) == [ id |-> v.id, subject |-> v.subject ]
    IN  [i \in DOMAIN words |-> [ id |-> None, subject |-> words[i][1] ]] \o
        [i \in DOMAIN hits |-> Entry(CHOOSE v \in hits[i] : TRUE)]

(* The type and the language of a title are in the name of its column.     *)
LoadTyped(row, prefix) ==
    { [ type |-> k[1], lang |-> IF Len(k) = 2 THEN k[2] ELSE None,
        text |-> row[<< prefix, k >>] ] : k \in Subkeys(row, prefix) }

(* The lines of the first of these columns that the row has. *)
Chosen(row, names) ==
    LET there == { i \in DOMAIN names : Plain(names[i]) \in DOMAIN row }
    IN  IF there = {} THEN << >>
        ELSE row[Plain(names[CHOOSE i \in there : \A j \in there : i <= j])]

LoadFiles(row) == NotBlank(Chosen(row, << "filenames", "files" >>))

LoadCommunities(row) ==
    [ default |-> LET cell == Chosen(row, << "default_community_slug", "default_collection",
                                             "default_collection_slug" >>)
                  IN  IF cell = << >> THEN << Blank >> ELSE cell,
      others  |-> NotBlank(Chosen(row, << "communities", "community_slugs", "collections",
                                          "collection_slugs" >>)) ]

(* The first line of the imprint's columns. *)
LoadImprint(row) ==
    LET imprint == ProcessGroupedFields(row, "imprint")
        parts == { << part >> : part \in { "isbn", "pages", "edition", "place", "series_name" } }
    IN  IF imprint = << >> THEN << >>
        ELSE [k \in parts \cap DOMAIN Filled(Head(imprint)) |-> Head(imprint)[k]]

EmbargoPart == { << "embargo", part >> : part \in { "active", "until", "reason" } }

(* An embargo has all its parts, or is not there. *)
LoadAccess(row) ==
    LET Default(k) == IF << "access", k >> \in DOMAIN row THEN row[<< "access", k >>]
                      ELSE << Line("public") >>
        given == Subkeys(row, "access") \cap EmbargoPart
    IN  [ record  |-> Default(<< "record" >>),
          files   |-> Default(<< "files" >>),
          embargo |-> [k \in IF given = {} THEN {} ELSE EmbargoPart |->
                          IF k \in given THEN row[<< "access", k >>] ELSE << Blank >>] ]

(***************************************************************************)
(* Custom fields are configured, and there if their transformer returns    *)
(* something.  The one here is the example of the repository.              *)
(***************************************************************************)
LoadCustomFields(row) ==
    IF LoadImprint(row) = << >> THEN << >> ELSE [ imprint |-> LoadImprint(row) ]

(* transform(), for an import.  Sizes and formats are kept, blank or not.  *)
CsvPayload(row) ==
    [ creators     |-> LoadCreatibutors(row, "creators"),
      contributors |-> LoadCreatibutors(row, "contributors"),
      rights       |-> LoadRights(row),
      dates        |-> LoadDates(row),
      funding      |-> LoadFunding(row),
      subjects     |-> LoadSubjects(row),
      titles       |-> LoadTyped(row, "additional_titles"),
      descriptions |-> LoadTyped(row, "additional_descriptions"),
      identifiers  |-> LoadIdentifiers(row),
      related      |-> LoadRelatedIdentifiers(row),
      references   |-> LoadReferences(row),
      locations    |-> LoadLocations(row),
      languages    |-> NotBlank(Lines(row, << "languages", << "id" >> >>)),
      formats      |-> Lines(row, Plain("formats")),
      sizes        |-> Lines(row, Plain("sizes")),
      files        |-> LoadFiles(row),
      communities  |-> LoadCommunities(row),
      access       |-> LoadAccess(row),
      custom       |-> LoadCustomFields(row) ]

(* A description and a version are required as much as a title is.         *)
RequiredColumn == { "title", "publisher", "description", "version" }

(* What the schema refuses. *)
CsvIsValid(row) ==
    LET creators == LoadCreatibutors(row, "creators")
        contributors == LoadCreatibutors(row, "contributors")
        dates == LoadDates(row)
        funding == LoadFunding(row)
        related == LoadRelatedIdentifiers(row)
        hits == SubjectHits(row)
    IN  /\ \A name \in RequiredColumn : Plain(name) \in DOMAIN row
        /\ Chosen(row, << "publication_date", "publication_date (EDTF Level 0 forrmat)" >>) # << >>
        /\ creators # << >>
        /\ \A i \in DOMAIN creators : creators[i].type # Blank
        /\ \A i \in DOMAIN contributors : contributors[i].type # Blank /\ contributors[i].role # Blank
        /\ \A i \in DOMAIN dates : dates[i].date # Blank /\ dates[i].type # Blank
        /\ \A i \in DOMAIN funding : funding[i].id # Blank \/ funding[i].name # Blank
        /\ \A i \in DOMAIN related, k \in RelatedPart \ { << "scheme" >> } : related[i][k] # Blank
        /\ SubjectsPair(row)
        /\ \A i \in DOMAIN hits : Cardinality(hits[i]) = 1

-----------------------------------------------------------------------------
(* The exporter.                                                           *)

(* Variant: an entry without a value adds no line. *)
ColumnPacked(entries, key) ==
    LET having == Kept(entries, { i \in DOMAIN entries : key \in DOMAIN entries[i] })
    IN  [i \in DOMAIN having |-> having[i][key]]

(* One line for each entry, blank if it has no value. *)
Column(entries, key) ==
    [i \in DOMAIN entries |-> IF key \in DOMAIN entries[i] THEN entries[i][key] ELSE Blank]

(* A column for each key that an entry has. *)
FlattenEntries(entries) ==
    [k \in UNION { DOMAIN entries[i] : i \in DOMAIN entries } |-> Column(entries, k)]

(* An entry's values that are there, by their keys. *)
Present(values) == [k \in { k \in DOMAIN values : values[k] # None } |-> Line(values[k])]

(* What an entry has for these keys, whose first parts name its fields.    *)
PartsOf(entry, keys) == Present([k \in keys |-> entry[k[1]]])

Keyed(entry) == PartsOf(entry, { << f >> : f \in DOMAIN entry })

(* Either column of affiliations is left out if nobody has a value for it. *)
ExportCreatibutor(c) ==
    LET Parts(field) == [i \in DOMAIN c.affiliations |-> c.affiliations[i][field]]
        Some(field) == \E i \in DOMAIN c.affiliations : c.affiliations[i][field] # None
        keys == { << "name" >>, << "type" >> }
                \cup { k \in { << "role", "id" >> } : c.role # None }
                \cup { << "identifiers", s >> : s \in DOMAIN c.identifiers }
                \cup { << "affiliations", f >> : f \in { f \in { "id", "name" } : Some(f) } }
    IN  [k \in keys |-> CASE k[1] = "identifiers" -> Line(c.identifiers[k[2]])
                          [] k[1] = "affiliations" -> Parts(k[2])
                          [] OTHER -> Line(c[k[1]])]

DatePart == { << "date" >>, << "type", "id" >>, << "description" >> }

FunderPart == { << "funder", "id" >>, << "funder", "name" >> }

ExportFunding(f) ==
    Present([k \in FunderPart \cup { << "award", p >> : p \in DOMAIN f.award } |->
                IF k[1] = "award" THEN f.award[k[2]] ELSE f[k[2]]])

(* Of a subject in the vocabulary, the id is left out. *)
TermPart == { << "subject" >>, << "scheme" >> }

Terms(subjects) == Kept(subjects, { i \in DOMAIN subjects : subjects[i].id # None })

Words(subjects) == Kept(subjects, { i \in DOMAIN subjects : subjects[i].id = None })

TypedKey(t) == IF t.lang = None THEN << t.type >> ELSE << t.type, t.lang >>

(* Of two titles of one type and language, one is written. *)
ExportTyped(texts) ==
    [k \in { TypedKey(t) : t \in texts } |-> << Line((CHOOSE t \in texts : TypedKey(t) = k).text) >>]

(* A column of texts. *)
ExportTexts(texts) ==
    [k \in { << >> } |-> IF texts = << >> THEN << Blank >> ELSE [i \in DOMAIN texts |-> Line(texts[i])]]

(* A custom field without an exporter: a column for each of its parts.     *)
ExportImprint(imprint) ==
    [k \in { << part >> : part \in DOMAIN imprint } |-> << Line(imprint[k[1]]) >>]

(* An embargo that is over is left out. *)
ExportAccess(access) ==
    LET embargo == IF access.embargo.active THEN EmbargoPart ELSE {}
    IN  [k \in { << "record" >>, << "files" >> } \cup embargo |->
            << Line(IF k[1] # "embargo" THEN access[k[1]]
                    ELSE IF k[2] = "active" THEN "true" ELSE access.embargo[k[2]]) >>]

(* The columns of each group of a record. *)
ExportGroups(record) ==
    LET Creatibutors(s) == FlattenEntries([i \in DOMAIN s |-> ExportCreatibutor(s[i])])
        KeyedEntries(s) == FlattenEntries([i \in DOMAIN s |-> Keyed(s[i])])
        WithParts(s, keys) == FlattenEntries([i \in DOMAIN s |-> PartsOf(s[i], keys)])
        words == Words(record.subjects)
        terms == Terms(record.subjects)
    IN  [ files                   |-> ExportTexts(record.files),
          formats                 |-> ExportTexts(record.formats),
          sizes                   |-> ExportTexts(record.sizes),
          creators                |-> Creatibutors(record.creators),
          contributors            |-> Creatibutors(record.contributors),
          rights                  |-> KeyedEntries(record.rights),
          dates                   |-> WithParts(record.dates, DatePart),
          funding                 |-> FlattenEntries([i \in DOMAIN record.funding |->
                                                         ExportFunding(record.funding[i])]),
          keywords                |-> ExportTexts([i \in DOMAIN words |-> words[i].subject]),
          subjects                |-> WithParts(terms, TermPart),
          identifiers             |-> KeyedEntries(record.identifiers),
          related_identifiers     |-> WithParts(record.related, RelatedPart),
          references              |-> KeyedEntries(record.references),
          languages               |-> FlattenEntries([i \in DOMAIN record.languages |->
                                          [k \in { << "id" >> } |-> Line(record.languages[i])]]),
          additional_titles       |-> ExportTyped(record.titles),
          additional_descriptions |-> ExportTyped(record.descriptions),
          access                  |-> ExportAccess(record.access),
          imprint                 |-> ExportImprint(record.imprint) ]

ProcessDict(record) ==
    LET groups == ExportGroups(record)
        flat == { Plain(f) : f \in DOMAIN record.flat }
        grouped == UNION { { << g, k >> : k \in DOMAIN groups[g] } : g \in DOMAIN groups }
    IN  [c \in flat \cup grouped |->
            IF c \in flat THEN << Line(record.flat[c[1]]) >> ELSE groups[c[1]][c[2]]]

(* Titles that the names of their columns tell apart. *)
Apart(texts) == \A t, u \in texts : TypedKey(t) = TypedKey(u) => t = u

(* Nothing else in the vocabulary has the name and the scheme of v.        *)
Unmistaken(v) == \A w \in Vocabulary : w.subject = v.subject /\ w.scheme = v.scheme => w = v

(* A creator or a contributor has what the data model requires.            *)
IsPerson(c) ==
    /\ c.name # None /\ c.type # None
    /\ \A scheme \in DOMAIN c.identifiers : c.identifiers[scheme] # None
    /\ IsList(c.affiliations)
    /\ \A i \in DOMAIN c.affiliations :
           /\ c.affiliations[i] = [ id |-> c.affiliations[i].id, name |-> c.affiliations[i].name ]
           /\ c.affiliations[i].id # None \/ c.affiliations[i].name # None

(***************************************************************************)
(* What the data model of InvenioRDM says of a record: lists are lists,    *)
(* what it requires is there, an affiliation, a funder or a licence has an *)
(* id or a name, and a subject with an id is one of the vocabulary.        *)
(***************************************************************************)
IsExported(record) ==
    LET Filling(s) == IsList(s) /\ \A i \in DOMAIN s : s[i] # None
        Has(s, parts) == IsList(s) /\ \A i \in DOMAIN s :
                             parts \subseteq DOMAIN s[i] /\ \A part \in parts : s[i][part] # None
        Either(s, parts) == IsList(s) /\ \A i \in DOMAIN s :
                                \E part \in parts \cap DOMAIN s[i] : s[i][part] # None
        Typed(texts) == \A t \in texts : t.type # None /\ t.text # None
        People(s) == IsList(s) /\ \A i \in DOMAIN s : IsPerson(s[i])
    IN  /\ { "id", "title", "publication_date" } \subseteq DOMAIN record.flat
        /\ DOMAIN record.flat \cap (DOMAIN ExportGroups(record) \cup { "filenames" }) = {}
        /\ \A f \in DOMAIN record.flat : record.flat[f] # None
        /\ People(record.creators) /\ record.creators # << >>
        /\ People(record.contributors)
        /\ \A i \in DOMAIN record.contributors : record.contributors[i].role # None
        /\ Either(record.rights, { "id", "title" })
        /\ \A i \in DOMAIN record.rights :
               DOMAIN record.rights[i] = { "id", "title", "description" }
        /\ Has(record.dates, { "date", "type" })
        /\ Either(record.funding, { "id", "name" })
        /\ Has(record.identifiers, { "identifier" })
        /\ \A i \in DOMAIN record.identifiers :
               DOMAIN record.identifiers[i] = { "identifier", "scheme" }
        /\ Has(record.related, { "identifier", "relation_type" })
        /\ Has(record.references, { "reference" })
        /\ IsList(record.subjects)
        /\ \A i \in DOMAIN record.subjects :
               LET v == record.subjects[i]
               IN  v.subject # None /\ (v.id # None => v \in Vocabulary /\ v.scheme # None)
        /\ Typed(record.titles) /\ Typed(record.descriptions)
        /\ Filling(record.languages) /\ Filling(record.formats)
        /\ Filling(record.sizes) /\ Filling(record.files)
        /\ record.access.record # None /\ record.access.files # None
        /\ record.access.embargo.active \in BOOLEAN
        /\ record.access.embargo.active => record.access.embargo.until # None
        /\ DOMAIN record.imprint \subseteq { "isbn", "pages", "edition", "place", "series_name" }

(* All rows of a file have the same columns. *)
ExportFile(exported) ==
    LET rows == [i \in DOMAIN exported |-> ProcessDict(exported[i])]
        columns == UNION { DOMAIN rows[i] : i \in DOMAIN rows }
    IN  [i \in DOMAIN rows |->
            [c \in columns |-> IF c \in DOMAIN rows[i] THEN rows[i][c] ELSE << Blank >>]]
=============================================================================

----------------------------- MODULE ImportFile -----------------------------
(***************************************************************************)
(* The metadata file of an importer task (services/services.py): how it is *)
(* stored and replaced, and how valid_importer_file_data (services/tasks.py)*)
(* makes importer records of it, group by group.                           *)
(*                                                                         *)
(* A file is an ONIX message or the rows that were exported for some       *)
(* records.  Its bytes may change while it is read, if UploadsWhileReading.*)
(***************************************************************************)
EXTENDS OnixRecords, CsvRows

CONSTANTS
    Message,                \* files that can be uploaded
    Replacement,            \* bound: those that can be uploaded later
    Extension,              \* of their names; None for a name without one
    RecordId,               \* bound: importer records
    MaxUploads,             \* bound
    UploadsWhileReading

ASSUME MessageAssumption ==
    \A file \in Message \cup Replacement :
        IF file.kind = "onix3"
        THEN IsList(file.products) /\ \A n \in DOMAIN file.products : IsProduct(file.products[n])
        ELSE IsList(file.exported) /\ \A n \in DOMAIN file.exported : IsExported(file.exported[n])

(* Ids are random, and are compared where positions are equal. *)
ASSUME RecordIdAssumption == RecordId \subseteq Int

ASSUME MaxUploadsAssumption == MaxUploads \in Nat

ASSUME UploadsWhileReadingAssumption == UploadsWhileReading \in BOOLEAN

VARIABLES
    bucket,         \* the files of the task, by the extension of their names
    latest,         \* what was last uploaded
    uploads,
    reader,         \* valid_importer_file_data
    records         \* importer records, by their ids

vars == << bucket, latest, uploads, reader, records >>

(* The file being read, its place in it, and the entries left of a group.  *)
Reader(pc, file, next, group, pending) ==
    [ pc |-> pc, file |-> file, next |-> next, group |-> group, pending |-> pending ]

Idle == Reader("idle", None, 0, None, << >>)

Init ==
    /\ bucket = << >>
    /\ latest = None
    /\ uploads = 0
    /\ reader = Idle
    /\ records = << >>

-----------------------------------------------------------------------------
(* The metadata file.                                                      *)

(* _find_file_in_record: a name without an extension is not found.         *)
Found == DOMAIN bucket \ { None }

MayChange == reader.pc # "reading" \/ UploadsWhileReading

(* Variant: what has another name stays. *)
StoredBeside(ext, file) == [e \in DOMAIN bucket \cup { ext } |-> IF e = ext THEN file ELSE bucket[e]]

(* A file of another extension is deleted, unless there is one of this.    *)
Stored(ext, file) ==
    LET kept == IF ext \in DOMAIN bucket THEN DOMAIN bucket ELSE DOMAIN bucket \ Found
    IN  [e \in kept \cup { ext } |-> IF e = ext THEN file ELSE bucket[e]]

(* The records of the file before are deleted with it.                     *)
UpdateMetadataFile(ext, file) ==
    /\ uploads < MaxUploads /\ MayChange
    /\ file \in IF uploads = 0 THEN Message ELSE Replacement
    /\ bucket' = Stored(ext, file)
    /\ latest' = file
    /\ uploads' = uploads + 1
    /\ records' = << >>
    /\ UNCHANGED reader

(* Those of a deleted one are not. *)
DeleteMetadataFile ==
    /\ MayChange
    /\ \E e \in Found : bucket' = [f \in DOMAIN bucket \ { e } |-> bucket[f]]
    /\ UNCHANGED << latest, uploads, reader, records >>

-----------------------------------------------------------------------------
(* valid_importer_file_data.                                               *)

StartValidation ==
    /\ reader.pc \notin { "queued", "reading" }
    /\ reader' = Reader("queued", None, 0, None, << >>)
    /\ records' = << >>
    /\ UNCHANGED << bucket, latest, uploads >>

Abandon == reader' = [reader EXCEPT !.pc = "damaged", !.pending = << >>]

OpenMetadataFile ==
    /\ reader.pc = "queued"
    /\ \/ \E e \in Found : reader' = Reader("reading", bucket[e], 1, None, << >>)
       \/ Found = {} /\ Abandon
    /\ UNCHANGED << bucket, latest, uploads, records >>

Entries(file) == IF file.kind = "onix3" THEN file.products ELSE ExportFile(file.exported)

(* The root is looked at first; a broken message is read up to its end.    *)
ReadFails(file, n) ==
    file.kind = "onix3" /\
        \/ file.root # "onix"
        \/ (n > Len(file.products) /\ file.broken)
        \/ (n <= Len(file.products) /\ KeysClash(file.products[n]))

GroupOf(file, n) ==
    IF file.kind = "onix3" THEN LoadGroup(file.products[n])
    ELSE << GroupEntry(CleanRow(ExportFile(file.exported)[n])) >>

(* The next group of the file: it has an id if it is more than one record. *)
LoadNextGroup ==
    /\ reader.pc = "reading" /\ reader.pending = << >>
    /\ \/ ReadFails(reader.file, reader.next) /\ Abandon
       \/ /\ ~ ReadFails(reader.file, reader.next)
          /\ reader.next <= Len(Entries(reader.file))
          /\ LET group == GroupOf(reader.file, reader.next)
             IN  reader' = Reader("reading", reader.file, reader.next + 1,
                                  IF Len(group) > 1 THEN reader.next ELSE None, group)
    /\ UNCHANGED << bucket, latest, uploads, records >>

(* Ids are drawn at random. *)
CreateRecord ==
    /\ reader.pending # << >>
    /\ \E id \in RecordId \ DOMAIN records :
           records' = [r \in DOMAIN records \cup { id } |->
                          IF r = id THEN [ group |-> reader.group, entry |-> Head(reader.pending) ]
                          ELSE records[r]]
    /\ reader' = [reader EXCEPT !.pending = Tail(@)]
    /\ UNCHANGED << bucket, latest, uploads >>

FinishReading ==
    /\ reader.pc = "reading" /\ reader.pending = << >>
    /\ reader.next > Len(Entries(reader.file))
    /\ ~ ReadFails(reader.file, reader.next)
    /\ reader' = [reader EXCEPT !.pc = "done"]
    /\ UNCHANGED << bucket, latest, uploads, records >>

Next ==
    \/ \E e \in Extension, f \in Message \cup Replacement : UpdateMetadataFile(e, f)
    \/ DeleteMetadataFile
    \/ StartValidation
    \/ OpenMetadataFile
    \/ LoadNextGroup
    \/ CreateRecord
    \/ FinishReading

Spec == Init /\ [][Next]_vars

-----------------------------------------------------------------------------
(* get_record_groups.                                                      *)

(* Variant: records without a group are taken for one. *)
GroupKeyOfAny(id) == << "group", records[id].group >>

GroupKey(id) ==
    IF records[id].group = None THEN << "record", id >> ELSE << "group", records[id].group >>

(* By position, then by id. *)
RecordGroups ==
    LET At(id) == records[id].entry.position
        before == { p \in (DOMAIN records) \X (DOMAIN records) :
                        At(p[1]) < At(p[2]) \/ (At(p[1]) = At(p[2]) /\ p[1] < p[2]) }
        Members(key) == { id \in DOMAIN records : GroupKey(id) = key }
    IN  [key \in { GroupKey(id) : id \in DOMAIN records } |-> InOrder(Members(key), before)]

-----------------------------------------------------------------------------
(* What a file becomes.                                                    *)

TypeOK ==
    /\ DOMAIN bucket \subseteq Extension
    /\ Cardinality(Found) <= 1
    /\ uploads \in 0..MaxUploads
    /\ reader.pc \in { "idle", "queued", "reading", "damaged", "done" }
    /\ DOMAIN records \subseteq RecordId

IsRead == reader.pc = "done" /\ records # << >>

Groups == { [i \in DOMAIN g |-> records[g[i]].entry] : g \in { RecordGroups[k] : k \in DOMAIN RecordGroups } }

(* The records that come from products. *)
OnixSources ==
    IF IsRead /\ reader.file.kind = "onix3"
    THEN { records[id].entry.data : id \in DOMAIN records } ELSE {}

(***************************************************************************)
(* Every product or row is one group, and no group is anything else: a     *)
(* book is followed by its chapters in their stated order, although ids    *)
(* are random and groups are put together again from single records.       *)
(***************************************************************************)
GroupsFollowFile ==
    IsRead =>
        /\ Cardinality(DOMAIN RecordGroups) = Len(Entries(reader.file))
        /\ Groups = { GroupOf(reader.file, n) : n \in DOMAIN Entries(reader.file) }
        /\ \A g \in Groups : \A i, j \in DOMAIN g :
               i < j => /\ g[i].role = IF i = 1 THEN "parent" ELSE "child"
                        /\ i > 1 => g[i].key[2] < g[j].key[2]

(***************************************************************************)
(* A book and each of its chapters are linked both ways, by the DOI in the *)
(* payload or, if the other has none, by an intent that was stored when    *)
(* the file was read and that names one record of the group.               *)
(***************************************************************************)
LinksMeet ==
    IsRead /\ reader.file.kind = "onix3" =>
        \A g \in Groups : \A i, j \in DOMAIN g :
            (i = 1 /\ j > 1) \/ (i > 1 /\ j = 1) =>
                \/ /\ g[j].data.doi # None
                   /\ g[j].data.doi \in { r.doi : r \in OnixPayload(g[i].data).related }
                \/ /\ g[j].data.doi = None
                   /\ g[j].key \in { r.target : r \in g[i].relations }
                   /\ \A k \in DOMAIN g : g[k].key = g[j].key => k = j

(***************************************************************************)
(* Everybody with a name who is credited on a book or a chapter, or, if a  *)
(* chapter credits nobody, on its book, is on its record, whatever the     *)
(* role: nobody is lost and nobody is there twice.                         *)
(***************************************************************************)
NobodyIsLost ==
    \A src \in OnixSources :
        LET credited == IF src.contributors = << >> THEN BookOf(src).contributors
                        ELSE src.contributors
            named == { i \in DOMAIN credited : PersonOrOrg(credited[i]) # None }
            onRecord == OnixPayload(src).creators \o OnixPayload(src).contributors
        IN  /\ { PersonOrOrg(credited[i]) : i \in named } = { onRecord[i].who : i \in DOMAIN onRecord }
            /\ Cardinality(named) = Len(onRecord)

(***************************************************************************)
(* A file that goes with a record comes from the cloud storage and is      *)
(* stored there under the name the message declares; the key is the last   *)
(* segment of its link, in whatever order the files were listed.  (A link  *)
(* that ends in a slash passes the check, but has no such segment.)        *)
(***************************************************************************)
FilesKeepTheirNames ==
    \A src \in OnixSources :
        OnixErrors(src, "import") = {} =>
            \A i \in DOMAIN OnixPayload(src).files :
                LET uri == OnixPayload(src).files[i]
                    key == uri.path[Len(uri.path)]
                IN  /\ uri.scheme = "gs"
                    /\ \A f \in Attached(src) :
                           f.uri = uri /\ f.filename # None /\ key # None => key = f.filename

(***************************************************************************)
(* No record of a withdrawn title is imported, nor are its chapters, which *)
(* are transformed without their book.                                     *)
(***************************************************************************)
WithdrawnIsNotImported ==
    IsRead /\ reader.file.kind = "onix3" =>
        \A n \in DOMAIN reader.file.products :
            reader.file.products[n].status = "withdrawn" =>
                \A i \in DOMAIN GroupOf(reader.file, n) :
                    OnixErrors(GroupOf(reader.file, n)[i].data, "import") # {}

(* What an exported record should be when it is imported again.            *)
Promised(record) ==
    LET Creatibutor(c) ==
            [ name |-> Line(c.name), type |-> Line(c.type),
              identifiers |-> [s \in DOMAIN c.identifiers |-> Line(c.identifiers[s])],
              affiliations |-> c.affiliations, role |-> Line(c.role) ]
        Right(r) == [ id |-> Line(r.id), title |-> Line(IF r.id = None THEN r.title ELSE None),
                      description |-> Line(r.description) ]
        Dated(d) == [ date |-> Line(d.date), type |-> Line(d.type), description |-> Line(d.description) ]
        Funded(f) == [ id |-> Line(f.id), name |-> Line(f.name),
                       award |-> [p \in { "id", "number", "title" } |->
                                     Line(IF p \in DOMAIN f.award THEN f.award[p] ELSE None)] ]
        Values(e) == [k \in { << f >> : f \in { f \in DOMAIN e : e[f] # None } } |-> Line(e[k[1]])]
        Related(e) == [k \in { k \in RelatedPart :
                                k = << "resource_type", "id" >> => e.resource_type # None } |->
                          Line(e[k[1]])]
        Typed(texts) == { [ type |-> t.type, lang |-> t.lang, text |-> << Line(t.text) >> ] : t \in texts }
        Texts(s) == [i \in DOMAIN s |-> Line(s[i])]
        subjects == Words(record.subjects) \o Terms(record.subjects)
        access == record.access
    IN  [ creators     |-> [i \in DOMAIN record.creators |-> Creatibutor(record.creators[i])],
          contributors |-> [i \in DOMAIN record.contributors |-> Creatibutor(record.contributors[i])],
          rights       |-> [i \in DOMAIN record.rights |-> Right(record.rights[i])],
          dates        |-> [i \in DOMAIN record.dates |-> Dated(record.dates[i])],
          funding      |-> [i \in DOMAIN record.funding |-> Funded(record.funding[i])],
          subjects     |-> [i \in DOMAIN subjects |->
                               [ id |-> subjects[i].id, subject |-> subjects[i].subject ]],
          titles       |-> Typed(record.titles),
          descriptions |-> Typed(record.descriptions),
          identifiers  |-> [i \in DOMAIN record.identifiers |->
                               [k \in IdentifierPart |-> Line(record.identifiers[i][k[1]])]],
          related      |-> [i \in DOMAIN record.related |-> Related(record.related[i])],
          references   |-> [i \in DOMAIN record.references |-> Values(record.references[i])],
          languages    |-> Texts(record.languages),
          formats      |-> Texts(record.formats),
          sizes        |-> Texts(record.sizes),
          files        |-> Texts(record.files),
          custom       |-> IF Values(record.imprint) = << >> THEN << >>
                           ELSE [ imprint |-> Values(record.imprint) ],
          access       |->
              [ record  |-> << Line(access.record) >>,
                files   |-> << Line(access.files) >>,
                embargo |-> [k \in IF access.embargo.active THEN EmbargoPart ELSE {} |->
                                << Line(IF k[2] = "active" THEN "true"
                                        ELSE access.embargo[k[2]]) >>] ] ]

(***************************************************************************)
(* What was exported is imported as it was, if it has a publisher, a       *)
(* description and a version, no two titles, or additional descriptions,   *)
(* of one type and language, a type of resource with every related         *)
(* identifier, and no subject that the vocabulary has twice: lists of      *)
(* different lengths and with gaps keep their pairs, in a file with other  *)
(* records.                                                                *)
(***************************************************************************)
ExportReimports ==
    IsRead /\ reader.file.kind = "csv" =>
        \A n \in DOMAIN reader.file.exported :
            LET record == reader.file.exported[n]
                row == GroupOf(reader.file, n)[1].data
                payload == CsvPayload(row)
                promised == Promised(record)
                terms == Terms(record.subjects)
            IN  /\ { "publisher", "description", "version" } \subseteq DOMAIN record.flat
                /\ Apart(record.titles) /\ Apart(record.descriptions)
                /\ \A i \in DOMAIN record.related : record.related[i].resource_type # None
                /\ \A i \in DOMAIN terms : Unmistaken(terms[i])
                => /\ CsvIsValid(row)
                   /\ \A field \in DOMAIN promised : payload[field] = promised[field]

(***************************************************************************)
(* The records of a task are those of the file that was uploaded last, if  *)
(* every upload had a name with an extension.                              *)
(***************************************************************************)
LatestIsRead ==
    IsRead /\ None \notin DOMAIN bucket => reader.file = latest
=============================================================================

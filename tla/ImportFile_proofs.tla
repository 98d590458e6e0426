-------------------------- MODULE ImportFile_proofs --------------------------
(***************************************************************************)
(* Which metadata file the records of a task come from, and what becomes   *)
(* of the products of a message, for any files, extensions, tables of      *)
(* roles, ids and number of uploads.                                       *)
(***************************************************************************)
EXTENDS CsvRows_proofs, ImportFile

(* What is read has all its parts. *)
IsReader == \E p, f, n, g, q : reader = Reader(p, f, n, g, q)

(* What a name with an extension finds is the only such file.              *)
OneName == \A e, f \in Found : e = f

TInv ==
    /\ IsReader
    /\ OneName
    /\ DOMAIN bucket \subseteq Extension
    /\ uploads \in 0..MaxUploads
    /\ reader.pc \in { "idle", "queued", "reading", "damaged", "done" }
    /\ DOMAIN records \subseteq RecordId

USE DEF Reader

LEMMA TInvInit == Init => TInv
<1> SUFFICES ASSUME Init PROVE TInv
  OBVIOUS
<1>1. DOMAIN bucket = {} /\ DOMAIN records = {}
  BY DEF Init
<1>2. reader = Reader("idle", None, 0, None, << >>)
  BY DEF Init, Idle
<1>3. IsReader
  BY <1>2 DEF IsReader
<1>4. uploads \in 0..MaxUploads
  BY MaxUploadsAssumption DEF Init
<1>5. QED
  BY <1>1, <1>2, <1>3, <1>4 DEF TInv, OneName, Found

LEMMA UploadTypes ==
    ASSUME TInv, NEW e \in Extension, NEW f, UpdateMetadataFile(e, f)
    PROVE  TInv'
<1>1. /\ bucket' = Stored(e, f) /\ records' = << >> /\ reader' = reader
      /\ uploads < MaxUploads /\ uploads' = uploads + 1
  BY DEF UpdateMetadataFile
<1>2. OneName'
  <2>1. CASE e \in DOMAIN bucket
    BY <1>1, <2>1 DEF Stored, OneName, Found, TInv
  <2>2. CASE e \notin DOMAIN bucket
    BY <1>1, <2>2 DEF Stored, OneName, Found
  <2>3. QED
    BY <2>1, <2>2
<1>3. DOMAIN bucket' \subseteq Extension
  BY <1>1 DEF Stored, TInv, Found
<1>4. uploads' \in 0..MaxUploads
  BY <1>1, MaxUploadsAssumption DEF TInv
<1>5. DOMAIN records' \subseteq RecordId
  BY <1>1
<1>6. QED
  BY <1>1, <1>2, <1>3, <1>4, <1>5 DEF TInv, IsReader

LEMMA DeleteTypes ==
    ASSUME TInv, DeleteMetadataFile
    PROVE  TInv'
<1>1. PICK e \in Found : bucket' = [f \in DOMAIN bucket \ { e } |-> bucket[f]]
  BY DEF DeleteMetadataFile
<1>2. records' = records /\ reader' = reader /\ uploads' = uploads
  BY DEF DeleteMetadataFile
<1>3. QED
  BY <1>1, <1>2 DEF TInv, IsReader, OneName, Found

LEMMA ReaderStep ==
    ASSUME TInv, StartValidation \/ OpenMetadataFile \/ LoadNextGroup \/ CreateRecord \/ FinishReading
    PROVE  /\ IsReader'
           /\ reader'.pc \in { "idle", "queued", "reading", "damaged", "done" }
<1> USE DEF IsReader
<1>1. PICK p, f, n, g, q : reader = Reader(p, f, n, g, q)
  BY DEF TInv
<1>2. CASE StartValidation
  BY <1>2 DEF StartValidation
<1>3. CASE Abandon
  BY <1>1, <1>3 DEF Abandon
<1>4. CASE OpenMetadataFile /\ ~ Abandon
  <2>1. PICK e \in Found : reader' = Reader("reading", bucket[e], 1, None, << >>)
    BY <1>4 DEF OpenMetadataFile
  <2>2. reader.pc = "queued"
    BY <1>4 DEF OpenMetadataFile
  <2>3. QED
    BY <2>1, <2>2
<1>5. CASE LoadNextGroup /\ ~ Abandon
  <2>1. /\ reader.pc = "reading" /\ reader'.pc = "reading" /\ reader'.file = reader.file
        /\ IsReader'
    BY <1>5 DEF LoadNextGroup
  <2>2. QED
    BY <2>1
<1>6. CASE CreateRecord
  <2>1. reader' = Reader(p, f, n, g, Tail(q))
    BY <1>1, <1>6 DEF CreateRecord
  <2>2. QED
    BY <1>1, <2>1 DEF TInv
<1>7. CASE FinishReading
  <2>1. reader' = Reader("done", f, n, g, q) /\ reader.pc = "reading"
    BY <1>1, <1>7 DEF FinishReading
  <2>2. QED
    BY <1>1, <2>1
<1>8. QED
  BY <1>2, <1>3, <1>4, <1>5, <1>6, <1>7

LEMMA ReadTypes ==
    ASSUME TInv, StartValidation \/ OpenMetadataFile \/ LoadNextGroup \/ CreateRecord \/ FinishReading
    PROVE  TInv'
<1>1. bucket' = bucket /\ uploads' = uploads
  BY DEF StartValidation, OpenMetadataFile, LoadNextGroup, CreateRecord, FinishReading
<1>2. DOMAIN records' \subseteq RecordId
  <2>1. CASE StartValidation
    <3>1. records' = << >> /\ DOMAIN << >> = {}
      BY <2>1 DEF StartValidation
    <3>2. QED
      BY <3>1
  <2>2. CASE CreateRecord
    <3>1. PICK id \in RecordId \ DOMAIN records : DOMAIN records' = DOMAIN records \cup { id }
      BY <2>2 DEF CreateRecord
    <3>2. QED
      BY <3>1 DEF TInv
  <2>3. CASE OpenMetadataFile \/ LoadNextGroup \/ FinishReading
    BY <2>3 DEF OpenMetadataFile, LoadNextGroup, FinishReading, TInv
  <2>4. QED
    BY <2>1, <2>2, <2>3
<1>3. QED
  BY <1>1, <1>2, ReaderStep DEF TInv, OneName, Found

LEMMA TInvHolds == Spec => []TInv
<1>1. TInv /\ [Next]_vars => TInv'
  <2> SUFFICES ASSUME TInv, [Next]_vars
               PROVE  TInv'
    OBVIOUS
  <2>1. CASE UNCHANGED vars
    BY <2>1 DEF vars, TInv, IsReader, OneName, Found
  <2>2. CASE \E e \in Extension, f \in Message \cup Replacement : UpdateMetadataFile(e, f)
    BY <2>2, UploadTypes
  <2>3. QED
    BY <2>1, <2>2, DeleteTypes, ReadTypes DEF Next
<1>2. QED
  BY <1>1, TInvInit, PTL DEF Spec

(* Every variable of the file keeps its type, and the bucket never holds   *)
(* two metadata files that a name with an extension could find.            *)
THEOREM TypeOKHolds == Spec => []TypeOK
<1>1. TInv => TypeOK
  <2> SUFFICES ASSUME TInv PROVE Cardinality(Found) <= 1
    BY DEF TInv, TypeOK
  <2>1. CASE Found = {}
    BY <2>1, FS_EmptySet
  <2>2. CASE Found # {}
    <3>1. PICK e : e \in Found
      BY <2>2
    <3>2. Found = { e }
      BY <3>1 DEF TInv, OneName
    <3>3. Cardinality({ e }) = 1
      BY FS_Singleton
    <3>4. QED
      BY <3>2, <3>3
  <2>3. QED
    BY <2>1, <2>2
<1>2. QED
  BY <1>1, TInvHolds, PTL

-----------------------------------------------------------------------------
(* Which file is read.                                                     *)

(* Without a file that has no extension, the bucket has the last upload.   *)
BucketIsLatest ==
    None \notin DOMAIN bucket => \A e \in DOMAIN bucket : bucket[e] = latest

ReadsLatest ==
    /\ reader.pc # "reading" => reader.pending = << >>
    /\ None \notin DOMAIN bucket /\ (reader.pc = "reading" \/ IsRead) => reader.file = latest

LInv == BucketIsLatest /\ ReadsLatest

LEMMA UploadStep ==
    ASSUME ~ UploadsWhileReading, TInv, LInv, NEW e, NEW f, UpdateMetadataFile(e, f)
    PROVE  LInv'
<1>1. /\ bucket' = Stored(e, f) /\ latest' = f /\ records' = << >> /\ reader' = reader
      /\ reader.pc # "reading"
  BY DEF UpdateMetadataFile, MayChange
<1>2. BucketIsLatest'
  <2>1. SUFFICES ASSUME None \notin DOMAIN bucket', NEW g \in DOMAIN bucket'
                 PROVE  bucket'[g] = f
    BY <1>1 DEF BucketIsLatest
  <2>2. e # None
    BY <1>1, <2>1 DEF Stored
  <2>3. CASE e \in DOMAIN bucket
    <3>1. None \notin DOMAIN bucket
      BY <1>1, <2>1, <2>3 DEF Stored
    <3>2. g = e
      BY <1>1, <2>1, <2>2, <2>3, <3>1 DEF Stored, OneName, Found, TInv
    <3>3. QED
      BY <1>1, <3>2 DEF Stored
  <2>4. CASE e \notin DOMAIN bucket
    <3>1. None \notin DOMAIN bucket
      BY <1>1, <2>1, <2>2, <2>4 DEF Stored, Found
    <3>2. g = e
      BY <1>1, <2>1, <2>4, <3>1 DEF Stored, Found
    <3>3. QED
      BY <1>1, <3>2 DEF Stored
  <2>5. QED
    BY <2>3, <2>4
<1>3. QED
  BY <1>1, <1>2 DEF LInv, ReadsLatest, IsRead

LEMMA DeleteStep ==
    ASSUME ~ UploadsWhileReading, LInv, DeleteMetadataFile
    PROVE  LInv'
<1>1. PICK e \in Found : bucket' = [f \in DOMAIN bucket \ { e } |-> bucket[f]]
  BY DEF DeleteMetadataFile
<1>2. /\ latest' = latest /\ records' = records /\ reader' = reader
      /\ reader.pc # "reading"
  BY DEF DeleteMetadataFile, MayChange
<1>3. e # None /\ e \in DOMAIN bucket
  BY DEF Found
<1>4. QED
  BY <1>1, <1>2, <1>3 DEF LInv, BucketIsLatest, ReadsLatest, IsRead

(* Reading leaves the bucket alone. *)
LEMMA ReadStep ==
    ASSUME TInv, LInv,
           StartValidation \/ OpenMetadataFile \/ LoadNextGroup \/ CreateRecord \/ FinishReading
    PROVE  LInv'
<1> USE DEF LInv, ReadsLatest, IsRead
<1>1. bucket' = bucket /\ latest' = latest
  BY DEF StartValidation, OpenMetadataFile, LoadNextGroup, CreateRecord, FinishReading
<1>2. BucketIsLatest'
  BY <1>1 DEF BucketIsLatest
<1>3. PICK p, f, n, g, q : reader = Reader(p, f, n, g, q)
  BY DEF TInv, IsReader
<1>4. CASE StartValidation
  BY <1>1, <1>2, <1>4 DEF StartValidation
<1>5. CASE Abandon
  BY <1>1, <1>2, <1>3, <1>5 DEF Abandon
<1>6. CASE OpenMetadataFile /\ ~ Abandon
  <2>1. PICK e \in Found : reader' = Reader("reading", bucket[e], 1, None, << >>)
    BY <1>6 DEF OpenMetadataFile
  <2>2. None \notin DOMAIN bucket => bucket[e] = latest
    BY DEF Found, BucketIsLatest
  <2>3. QED
    BY <1>1, <1>2, <2>1, <2>2
<1>7. CASE LoadNextGroup /\ ~ Abandon
  <2>1. /\ reader.pc = "reading" /\ reader'.pc = "reading" /\ reader'.file = reader.file
    BY <1>7 DEF LoadNextGroup
  <2>2. QED
    BY <1>1, <1>2, <2>1
<1>8. CASE CreateRecord
  <2>1. reader.pc = "reading" /\ reader' = Reader(p, f, n, g, Tail(q))
    BY <1>3, <1>8 DEF CreateRecord
  <2>2. QED
    BY <1>1, <1>2, <1>3, <2>1
<1>9. CASE FinishReading
  <2>1. reader.pc = "reading" /\ reader.pending = << >> /\ reader' = Reader("done", f, n, g, q)
    BY <1>3, <1>9 DEF FinishReading
  <2>2. QED
    BY <1>1, <1>2, <1>3, <2>1
<1>10. QED
  BY <1>4, <1>5, <1>6, <1>7, <1>8, <1>9

(***************************************************************************)
(* The records of a task are those of the file that was uploaded last, if  *)
(* every upload had a name with an extension and came when none was read.  *)
(***************************************************************************)
THEOREM LatestIsReadHolds ==
    ASSUME ~ UploadsWhileReading
    PROVE  Spec => []LatestIsRead
<1>1. Init => LInv
  <2> SUFFICES ASSUME Init PROVE LInv
    OBVIOUS
  <2>1. DOMAIN bucket = {} /\ reader = Reader("idle", None, 0, None, << >>)
    BY DEF Init, Idle
  <2>2. QED
    BY <2>1 DEF LInv, BucketIsLatest, ReadsLatest, IsRead
<1>2. TInv /\ LInv /\ [Next]_vars => LInv'
  <2> SUFFICES ASSUME TInv, LInv, [Next]_vars
               PROVE  LInv'
    OBVIOUS
  <2>1. CASE UNCHANGED vars
    BY <2>1 DEF vars, LInv, BucketIsLatest, ReadsLatest, IsRead
  <2>2. QED
    BY <2>1, UploadStep, DeleteStep, ReadStep DEF Next
<1>3. LInv => LatestIsRead
  BY DEF LInv, ReadsLatest, LatestIsRead
<1>4. QED
  BY <1>1, <1>2, <1>3, TInvHolds, PTL DEF Spec

-----------------------------------------------------------------------------
(* What the entries of a file are.                                         *)

Uploaded == Message \cup Replacement

LEMMA EntriesAreListed ==
    ASSUME NEW file \in Uploaded
    PROVE  /\ Len(Entries(file)) \in Nat /\ DOMAIN Entries(file) = 1..Len(Entries(file))
           /\ file.kind = "onix3" =>
                  /\ Entries(file) = file.products
                  /\ \A n \in DOMAIN Entries(file) : IsProduct(file.products[n])
           /\ file.kind # "onix3" => DOMAIN Entries(file) = DOMAIN file.exported
<1>1. CASE file.kind = "onix3"
  <2>1. IsList(file.products) /\ \A n \in DOMAIN file.products : IsProduct(file.products[n])
    BY <1>1, MessageAssumption DEF Uploaded
  <2>2. QED
    BY <1>1, <2>1, ListIs DEF Entries
<1>2. CASE file.kind # "onix3"
  <2> DEFINE rows == ExportFile(file.exported)
             n == Len(file.exported)
  <2>1. IsList(file.exported)
    BY <1>2, MessageAssumption DEF Uploaded
  <2>2. n \in Nat /\ DOMAIN file.exported = 1..n
    BY <2>1, ListIs
  <2>3. DOMAIN rows = 1..n /\ rows = [i \in 1..n |-> rows[i]]
    BY <2>2 DEF ExportFile
  <2>4. IsList(rows) /\ Len(rows) = n
    BY <2>2, <2>3, MadeList
  <2>5. QED
    BY <1>2, <2>2, <2>3, <2>4 DEF Entries
<1>3. QED
  BY <1>1, <1>2

LEMMA GroupsAreListed ==
    ASSUME NEW file \in Uploaded, NEW n \in DOMAIN Entries(file)
    PROVE  LET group == GroupOf(file, n)
           IN  /\ IsList(group) /\ Len(group) \in Nat /\ Len(group) > 0
               /\ DOMAIN group = 1..Len(group)
               /\ \A i \in DOMAIN group : group[i].position = i - 1
               /\ file.kind # "onix3" => Len(group) = 1
<1> DEFINE group == GroupOf(file, n)
<1>1. CASE file.kind = "onix3"
  <2>1. IsProduct(file.products[n]) /\ group = LoadGroup(file.products[n])
    BY <1>1, EntriesAreListed DEF GroupOf
  <2>2. IsList(group) /\ Len(group) \in Nat /\ Len(group) > 0
    <3>1. PICK m \in Nat : IsList(group) /\ Len(group) = m + 1
      BY <2>1, GroupIs
    <3>2. QED
      BY <3>1
  <2>3. \A i \in DOMAIN group : group[i].position = i - 1
    BY <2>1, GroupHasSources
  <2>4. QED
    BY <1>1, <2>2, <2>3, ListIs
<1>2. CASE file.kind # "onix3"
  <2> DEFINE entry == GroupEntry(CleanRow(ExportFile(file.exported)[n]))
  <2>1. group = << entry >>
    BY <1>2 DEF GroupOf
  <2>2. group = [i \in 1..1 |-> group[i]] /\ group[1] = entry
    BY <2>1
  <2>3. IsList(group) /\ Len(group) = 1 /\ DOMAIN group = 1..1
    BY <2>2, MadeList
  <2>4. entry.position = 0
    BY DEF GroupEntry
  <2>5. QED
    BY <1>2, <2>2, <2>3, <2>4
<1>3. QED
  BY <1>1, <1>2

-----------------------------------------------------------------------------
(* Every record is one of the file, even if another was uploaded meanwhile.*)

IsEntry(file, entry) ==
    \E n \in DOMAIN Entries(file) : \E i \in DOMAIN GroupOf(file, n) : entry = GroupOf(file, n)[i]

FilesAreUploaded ==
    /\ \A e \in DOMAIN bucket : bucket[e] \in Uploaded
    /\ reader.pc \in { "reading", "done" } => reader.file \in Uploaded

RecordsAreEntries ==
    /\ reader.pc = "queued" => records = << >>
    /\ reader.pc # "reading" => reader.pending = << >>
    /\ reader.pc = "reading" => reader.next \in Nat \ { 0 } /\ IsList(reader.pending)
    /\ reader.pc \in { "reading", "done" } =>
           /\ \A id \in DOMAIN records : IsEntry(reader.file, records[id].entry)
           /\ \A k \in DOMAIN reader.pending : IsEntry(reader.file, reader.pending[k])

EInv == FilesAreUploaded /\ RecordsAreEntries

LEMMA EntriesUpload ==
    ASSUME EInv, NEW e, NEW f, UpdateMetadataFile(e, f)
    PROVE  EInv'
<1>1. /\ bucket' = Stored(e, f) /\ records' = << >> /\ reader' = reader /\ f \in Uploaded
  BY DEF UpdateMetadataFile, Uploaded
<1>2. \A g \in DOMAIN bucket' : bucket'[g] \in Uploaded
  BY <1>1 DEF Stored, EInv, FilesAreUploaded
<1>3. DOMAIN records' = {}
  BY <1>1
<1>4. QED
  BY <1>1, <1>2, <1>3 DEF EInv, FilesAreUploaded, RecordsAreEntries

LEMMA EntriesDelete ==
    ASSUME EInv, DeleteMetadataFile
    PROVE  EInv'
  BY DEF DeleteMetadataFile, EInv, FilesAreUploaded, RecordsAreEntries, Found

LEMMA EntriesRead ==
    ASSUME TInv, EInv,
           StartValidation \/ OpenMetadataFile \/ LoadNextGroup \/ CreateRecord \/ FinishReading
    PROVE  EInv'
<1> USE DEF EInv
<1>1. bucket' = bucket
  BY DEF StartValidation, OpenMetadataFile, LoadNextGroup, CreateRecord, FinishReading
<1>2. PICK p, f, n, g, q : reader = Reader(p, f, n, g, q)
  BY DEF TInv, IsReader
<1>3. CASE StartValidation
  BY <1>1, <1>3 DEF StartValidation, FilesAreUploaded, RecordsAreEntries
<1>4. CASE Abandon
  BY <1>1, <1>2, <1>4 DEF Abandon, FilesAreUploaded, RecordsAreEntries
<1>5. CASE OpenMetadataFile /\ ~ Abandon
  <2>1. PICK e \in Found : reader' = Reader("reading", bucket[e], 1, None, << >>)
    BY <1>5 DEF OpenMetadataFile
  <2>2. records' = records /\ reader.pc = "queued"
    BY <1>5 DEF OpenMetadataFile
  <2>3. DOMAIN records' = {}
    BY <2>2 DEF RecordsAreEntries
  <2>4. IsList(<< >>) /\ DOMAIN << >> = {}
    BY DEF IsList
  <2>5. bucket[e] \in Uploaded
    BY DEF Found, FilesAreUploaded
  <2>6. QED
    BY <1>1, <2>1, <2>3, <2>4, <2>5 DEF FilesAreUploaded, RecordsAreEntries
<1>6. CASE LoadNextGroup /\ ~ Abandon
  <2> DEFINE group == GroupOf(f, n)
  <2>1. /\ p = "reading" /\ records' = records
        /\ n <= Len(Entries(f))
        /\ reader' = Reader("reading", f, n + 1, IF Len(group) > 1 THEN n ELSE None, group)
    BY <1>2, <1>6 DEF LoadNextGroup
  <2>2. f \in Uploaded /\ n \in Nat \ { 0 }
    BY <1>2, <2>1 DEF FilesAreUploaded, RecordsAreEntries
  <2>3. n \in DOMAIN Entries(f)
    BY <2>1, <2>2, EntriesAreListed
  <2>4. IsList(group)
    BY <2>2, <2>3, GroupsAreListed
  <2>5. \A k \in DOMAIN group : IsEntry(f, group[k])
    BY <2>3 DEF IsEntry
  <2> HIDE DEF group
  <2>6. QED
    BY <1>1, <1>2, <2>1, <2>2, <2>4, <2>5 DEF FilesAreUploaded, RecordsAreEntries
<1>7. CASE CreateRecord
  <2>1. PICK id \in RecordId \ DOMAIN records :
            records' = [r \in DOMAIN records \cup { id } |->
                           IF r = id THEN [ group |-> reader.group, entry |-> Head(reader.pending) ]
                           ELSE records[r]]
    BY <1>7 DEF CreateRecord
  <2>2. q # << >> /\ reader' = Reader(p, f, n, g, Tail(q))
    BY <1>2, <1>7 DEF CreateRecord
  <2>3. p = "reading" /\ IsList(q)
    BY <1>2, <2>2 DEF RecordsAreEntries
  <2>4. /\ IsList(Tail(q)) /\ 1 \in DOMAIN q /\ Head(q) = q[1]
        /\ \A k \in DOMAIN Tail(q) : k + 1 \in DOMAIN q /\ Tail(q)[k] = q[k + 1]
    BY <2>2, <2>3, TailIs
  <2>5. IsEntry(f, Head(q)) /\ \A k \in DOMAIN Tail(q) : IsEntry(f, Tail(q)[k])
    BY <1>2, <2>3, <2>4 DEF RecordsAreEntries
  <2>6. \A r \in DOMAIN records' : IsEntry(f, records'[r].entry)
    BY <1>2, <2>1, <2>3, <2>5 DEF RecordsAreEntries
  <2>7. f \in Uploaded /\ n \in Nat \ { 0 }
    BY <1>2, <2>3 DEF FilesAreUploaded, RecordsAreEntries
  <2>8. QED
    BY <1>1, <1>2, <2>2, <2>3, <2>4, <2>5, <2>6, <2>7 DEF FilesAreUploaded, RecordsAreEntries
<1>8. CASE FinishReading
  <2>1. reader.pc = "reading" /\ reader.pending = << >> /\ reader' = Reader("done", f, n, g, q)
        /\ records' = records
    BY <1>2, <1>8 DEF FinishReading
  <2>2. QED
    BY <1>1, <1>2, <2>1 DEF FilesAreUploaded, RecordsAreEntries
<1>9. QED
  BY <1>3, <1>4, <1>5, <1>6, <1>7, <1>8

LEMMA EInvHolds == Spec => []EInv
<1>1. Init => EInv
  <2> SUFFICES ASSUME Init PROVE EInv
    OBVIOUS
  <2>1. DOMAIN bucket = {} /\ reader = Reader("idle", None, 0, None, << >>)
    BY DEF Init, Idle
  <2>2. QED
    BY <2>1 DEF EInv, FilesAreUploaded, RecordsAreEntries
<1>2. TInv /\ EInv /\ [Next]_vars => EInv'
  <2> SUFFICES ASSUME TInv, EInv, [Next]_vars
               PROVE  EInv'
    OBVIOUS
  <2>1. CASE UNCHANGED vars
    BY <2>1 DEF vars, EInv, FilesAreUploaded, RecordsAreEntries
  <2>2. QED
    BY <2>1, EntriesUpload, EntriesDelete, EntriesRead DEF Next
<1>3. QED
  BY <1>1, <1>2, TInvHolds, PTL DEF Spec

(***************************************************************************)
(* No record of a withdrawn title is imported, nor are its chapters, even  *)
(* if the file was replaced while it was read.                             *)
(***************************************************************************)
THEOREM WithdrawnIsNotImportedHolds == Spec => []WithdrawnIsNotImported
<1>1. EInv => WithdrawnIsNotImported
  <2> SUFFICES ASSUME EInv, IsRead, reader.file.kind = "onix3",
                      NEW n \in DOMAIN reader.file.products,
                      reader.file.products[n].status = "withdrawn",
                      NEW i \in DOMAIN GroupOf(reader.file, n)
               PROVE  OnixErrors(GroupOf(reader.file, n)[i].data, "import") # {}
    BY DEF WithdrawnIsNotImported
  <2>1. reader.file \in Uploaded
    BY DEF EInv, FilesAreUploaded, IsRead
  <2>2. IsProduct(reader.file.products[n])
    BY <2>1, EntriesAreListed
  <2>3. GroupOf(reader.file, n) = LoadGroup(reader.file.products[n])
    BY DEF GroupOf
  <2>4. BookOf(GroupOf(reader.file, n)[i].data).status = "withdrawn"
    BY <2>2, <2>3, GroupHasSources
  <2>5. QED
    BY <2>4, WithdrawnIsRefused
<1>2. QED
  BY <1>1, EInvHolds, PTL

(* What comes from a product can be transformed. *)
LEMMA SourcesAreSources ==
    ASSUME EInv, NEW src \in OnixSources
    PROVE  IsSource(src)
<1>1. IsRead /\ reader.file.kind = "onix3" /\ src \in { records[id].entry.data : id \in DOMAIN records }
  BY DEF OnixSources
<1>2. PICK id \in DOMAIN records : src = records[id].entry.data
  BY <1>1
<1>3. reader.file \in Uploaded /\ IsEntry(reader.file, records[id].entry)
  BY <1>1 DEF IsRead, EInv, FilesAreUploaded, RecordsAreEntries
<1>4. PICK n \in DOMAIN Entries(reader.file) :
          \E i \in DOMAIN GroupOf(reader.file, n) : records[id].entry = GroupOf(reader.file, n)[i]
  BY <1>3 DEF IsEntry
<1>5. IsProduct(reader.file.products[n]) /\ GroupOf(reader.file, n) = LoadGroup(reader.file.products[n])
  BY <1>1, <1>3, EntriesAreListed DEF GroupOf
<1>6. QED
  BY <1>2, <1>4, <1>5, GroupHasSources

(***************************************************************************)
(* Everybody with a name who is credited on a book or a chapter is on its  *)
(* record, once, for any table of roles and any number of people.          *)
(***************************************************************************)
THEOREM NobodyIsLostHolds == Spec => []NobodyIsLost
<1>1. EInv => NobodyIsLost
  <2> SUFFICES ASSUME EInv PROVE \A src \in OnixSources : Everybody(src)
    BY DEF NobodyIsLost, Everybody, WhoOf, Who, Named
  <2>1. QED
    BY SourcesAreSources, EverybodyIsCredited
<1>2. QED
  BY <1>1, EInvHolds, PTL

(***************************************************************************)
(* A file that goes with a record comes from the cloud storage and keeps   *)
(* the name that the message declares, for any number of files and links.  *)
(***************************************************************************)
THEOREM FilesKeepTheirNamesHolds == Spec => []FilesKeepTheirNames
<1>1. EInv => FilesKeepTheirNames
  <2> SUFFICES ASSUME EInv, NEW src \in OnixSources, OnixErrors(src, "import") = {},
                      NEW i \in DOMAIN OnixPayload(src).files
               PROVE  KeepsItsName(src, i)
    BY DEF FilesKeepTheirNames, KeepsItsName
  <2>1. QED
    BY SourcesAreSources, FilesAreNamed
<1>2. QED
  BY <1>1, EInvHolds, PTL

-----------------------------------------------------------------------------
(* Which records there are, if no file is uploaded while one is read: each *)
(* entry of the groups before the next is one, save those that are left of *)
(* the last.                                                               *)

Size(file, n) == Len(GroupOf(file, n))

IdOf(file, n) == IF Size(file, n) > 1 THEN n ELSE None

(* How many entries of a group are records. *)
MadeOf(file, next, left, n) == Size(file, n) - (IF n = next - 1 THEN left ELSE 0)

(* A record is the ith of the nth group, and no other is.                  *)
Placed(file, next, left, made, nth, ith) ==
    /\ \A id \in DOMAIN made :
           /\ nth[id] \in 1..(next - 1)
           /\ ith[id] \in 1..MadeOf(file, next, left, nth[id])
           /\ made[id] = [ group |-> IdOf(file, nth[id]), entry |-> GroupOf(file, nth[id])[ith[id]] ]
    /\ \A a, b \in DOMAIN made : nth[a] = nth[b] /\ ith[a] = ith[b] => a = b
    /\ \A n \in 1..(next - 1) : \A i \in 1..MadeOf(file, next, left, n) :
           \E id \in DOMAIN made : nth[id] = n /\ ith[id] = i

(* What is left of a group is its end. *)
IsEndOf(pending, group) ==
    /\ Len(pending) <= Len(group)
    /\ \A k \in DOMAIN pending : pending[k] = group[Len(group) - Len(pending) + k]

MInv ==
    reader.pc = "reading" \/ IsRead =>
        /\ reader.next \in 1..(Len(Entries(reader.file)) + 1)
        /\ \A n \in 1..(reader.next - 1) : ~ ReadFails(reader.file, n)
        /\ reader.pending # << >> =>
               /\ reader.next > 1
               /\ reader.group = IdOf(reader.file, reader.next - 1)
               /\ IsEndOf(reader.pending, GroupOf(reader.file, reader.next - 1))
        /\ \E nth, ith :
               Placed(reader.file, reader.next, Len(reader.pending), records, nth, ith)
        /\ reader.pc = "done" =>
               /\ reader.pending = << >>
               /\ reader.next = Len(Entries(reader.file)) + 1

(* What is there when the reading starts, and when a group is read: the    *)
(* same records, as none of the next group is one yet.                     *)
LEMMA PlacedStart ==
    ASSUME NEW file
    PROVE  \E nth, ith : Placed(file, 1, 0, << >>, nth, ith)
<1>1. DOMAIN << >> = {}
  OBVIOUS
<1>2. Placed(file, 1, 0, << >>, << >>, << >>)
  BY <1>1 DEF Placed
<1>3. QED
  BY <1>2

LEMMA PlacedLoad ==
    ASSUME NEW file \in Uploaded, NEW next \in DOMAIN Entries(file),
           NEW made, NEW nth, NEW ith, Placed(file, next, 0, made, nth, ith)
    PROVE  Placed(file, next + 1, Size(file, next), made, nth, ith)
<1> SUFFICES ASSUME NEW to, to = next + 1
             PROVE  Placed(file, to, Size(file, next), made, nth, ith)
  OBVIOUS
<1> DEFINE now(n) == MadeOf(file, next, 0, n)
           then(n) == MadeOf(file, to, Size(file, next), n)
<1>1. next \in Nat \ { 0 } /\ DOMAIN Entries(file) = 1..Len(Entries(file)) /\ Len(Entries(file)) \in Nat
  BY EntriesAreListed
<1>2. \A n \in 1..next : Size(file, n) \in Nat
  <2> SUFFICES ASSUME NEW n \in 1..next PROVE Size(file, n) \in Nat
    OBVIOUS
  <2>1. n \in DOMAIN Entries(file)
    BY <1>1
  <2>2. QED
    BY <2>1, GroupsAreListed DEF Size
<1>3. \A n \in 1..(next - 1) : now(n) = Size(file, n) /\ then(n) = Size(file, n)
  BY <1>1, <1>2 DEF MadeOf
<1>4. then(next) = 0
  BY <1>1, <1>2 DEF MadeOf
<1>5. to - 1 = next
  BY <1>1
<1> HIDE DEF now, then
<1>6. \A n \in 1..(next - 1) : n \in 1..next /\ now(n) = then(n)
  BY <1>1, <1>3
<1>7. /\ \A id \in DOMAIN made :
             /\ nth[id] \in 1..(next - 1)
             /\ ith[id] \in 1..now(nth[id])
             /\ made[id] = [ group |-> IdOf(file, nth[id]), entry |-> GroupOf(file, nth[id])[ith[id]] ]
      /\ \A a, b \in DOMAIN made : nth[a] = nth[b] /\ ith[a] = ith[b] => a = b
      /\ \A n \in 1..(next - 1) : \A i \in 1..now(n) :
             \E id \in DOMAIN made : nth[id] = n /\ ith[id] = i
  BY DEF Placed, now
<1>8. \A id \in DOMAIN made :
          /\ nth[id] \in 1..next
          /\ ith[id] \in 1..then(nth[id])
          /\ made[id] = [ group |-> IdOf(file, nth[id]), entry |-> GroupOf(file, nth[id])[ith[id]] ]
  BY <1>6, <1>7
<1>9. ASSUME NEW n \in 1..next, NEW i \in 1..then(n)
      PROVE  \E id \in DOMAIN made : nth[id] = n /\ ith[id] = i
  <2>1. n # next
    BY <1>1, <1>4
  <2>2. n \in 1..(next - 1)
    BY <1>1, <2>1
  <2>3. QED
    BY <1>6, <1>7, <2>2
<1>10. Placed(file, to, Size(file, next), made, nth, ith)
  BY <1>5, <1>7, <1>8, <1>9 DEF Placed, then
<1>11. QED
  BY <1>10

(* One more record takes the place of the first entry that is left.        *)
LEMMA PlacedCreate ==
    ASSUME NEW file, NEW next \in Nat, next > 1, NEW left \in Nat \ { 0 },
           \A n \in 1..(next - 1) : Size(file, n) \in Nat, left <= Size(file, next - 1),
           NEW made, NEW nth, NEW ith, Placed(file, next, left, made, nth, ith),
           NEW id, id \notin DOMAIN made, NEW i, i = Size(file, next - 1) - left + 1,
           NEW more, DOMAIN more = DOMAIN made \cup { id }, \A r \in DOMAIN made : more[r] = made[r],
           more[id] = [ group |-> IdOf(file, next - 1), entry |-> GroupOf(file, next - 1)[i] ]
    PROVE  \E n, j : Placed(file, next, left - 1, more, n, j)
<1> DEFINE now(n) == MadeOf(file, next, left, n)
           then(n) == MadeOf(file, next, left - 1, n)
           last == next - 1
           mth == [r \in DOMAIN made \cup { id } |-> IF r = id THEN last ELSE nth[r]]
           jth == [r \in DOMAIN made \cup { id } |-> IF r = id THEN i ELSE ith[r]]
<1>1. /\ now(last) = i - 1 /\ then(last) = i /\ i \in Nat \ { 0 }
      /\ last \in 1..last /\ last \in Nat
      /\ \A n \in 1..last : n # last => now(n) = then(n)
      /\ \A n \in 1..last : now(n) \in Nat
  BY DEF MadeOf
<1>2. /\ \A r \in DOMAIN made :
             /\ nth[r] \in 1..last
             /\ ith[r] \in 1..now(nth[r])
             /\ made[r] = [ group |-> IdOf(file, nth[r]), entry |-> GroupOf(file, nth[r])[ith[r]] ]
      /\ \A a, b \in DOMAIN made : nth[a] = nth[b] /\ ith[a] = ith[b] => a = b
      /\ \A n \in 1..last : \A k \in 1..now(n) :
             \E r \in DOMAIN made : nth[r] = n /\ ith[r] = k
  BY DEF Placed
<1>3. /\ DOMAIN more = DOMAIN made \cup { id }
      /\ more[id] = [ group |-> IdOf(file, last), entry |-> GroupOf(file, last)[i] ]
      /\ mth[id] = last /\ jth[id] = i
      /\ \A r \in DOMAIN made : more[r] = made[r] /\ mth[r] = nth[r] /\ jth[r] = ith[r]
  OBVIOUS
<1> HIDE DEF now, then, last, mth, jth
<1>4. \A n \in 1..last : \A k \in 1..now(n) : k \in 1..then(n) /\ (n = last => k # i)
  <2> SUFFICES ASSUME NEW n \in 1..last, NEW k \in 1..now(n)
               PROVE  k \in 1..then(n) /\ (n = last => k # i)
    OBVIOUS
  <2>1. CASE n = last
    BY <1>1, <2>1
  <2>2. CASE n # last
    BY <1>1, <2>2
  <2>3. QED
    BY <2>1, <2>2
<1>5. \A r \in DOMAIN more :
          /\ mth[r] \in 1..last
          /\ jth[r] \in 1..then(mth[r])
          /\ more[r] = [ group |-> IdOf(file, mth[r]), entry |-> GroupOf(file, mth[r])[jth[r]] ]
  <2> SUFFICES ASSUME NEW r \in DOMAIN more
               PROVE  /\ mth[r] \in 1..last
                      /\ jth[r] \in 1..then(mth[r])
                      /\ more[r] = [ group |-> IdOf(file, mth[r]), entry |-> GroupOf(file, mth[r])[jth[r]] ]
    OBVIOUS
  <2>1. CASE r = id
    <3>1. jth[r] \in 1..then(mth[r])
      BY <1>1, <1>3, <2>1
    <3>2. QED
      BY <1>1, <1>3, <2>1, <3>1
  <2>2. CASE r # id
    <3>1. r \in DOMAIN made
      BY <1>3, <2>2
    <3>2. QED
      BY <1>2, <1>3, <1>4, <3>1
  <2>3. QED
    BY <2>1, <2>2
<1>6. \A a, b \in DOMAIN more : mth[a] = mth[b] /\ jth[a] = jth[b] => a = b
  <2>1. \A r \in DOMAIN made : ~ (mth[r] = last /\ jth[r] = i)
    BY <1>2, <1>3, <1>4
  <2>2. QED
    BY <1>2, <1>3, <2>1
<1>7. ASSUME NEW n \in 1..last, NEW k \in 1..then(n)
      PROVE  \E r \in DOMAIN more : mth[r] = n /\ jth[r] = k
  <2>1. CASE n = last /\ k = i
    BY <1>3, <2>1
  <2>2. CASE ~ (n = last /\ k = i)
    <3>1. k \in 1..now(n)
      <4>1. CASE n = last
        BY <1>1, <2>2, <4>1
      <4>2. CASE n # last
        BY <1>1, <4>2
      <4>3. QED
        BY <4>1, <4>2
    <3>2. PICK r \in DOMAIN made : nth[r] = n /\ ith[r] = k
      BY <1>2, <3>1
    <3>3. QED
      BY <1>3, <3>2
  <2>3. QED
    BY <2>1, <2>2
<1>8. Placed(file, next, left - 1, more, mth, jth)
  BY <1>5, <1>6, <1>7 DEF Placed, last, then
<1>9. QED
  BY <1>8

(* What MInv says of a reader and its records, whatever the state.         *)
Reads(pc, file, next, group, pending, made) ==
    /\ next \in 1..(Len(Entries(file)) + 1)
    /\ \A n \in 1..(next - 1) : ~ ReadFails(file, n)
    /\ pending # << >> =>
           /\ next > 1
           /\ group = IdOf(file, next - 1)
           /\ IsEndOf(pending, GroupOf(file, next - 1))
    /\ \E nth, ith : Placed(file, next, Len(pending), made, nth, ith)
    /\ pc = "done" => pending = << >> /\ next = Len(Entries(file)) + 1

LEMMA MInvReads ==
    ASSUME NEW p, NEW f, NEW n, NEW g, NEW q, reader = Reader(p, f, n, g, q)
    PROVE  MInv <=> (p = "reading" \/ IsRead => Reads(p, f, n, g, q, records))
  BY DEF MInv, Reads

LEMMA ReadsOpened ==
    ASSUME NEW file \in Uploaded
    PROVE  Reads("reading", file, 1, None, << >>, << >>)
<1>1. 1 \in 1..(Len(Entries(file)) + 1)
  BY EntriesAreListed
<1>2. (1..(1 - 1)) = {} /\ Len(<< >>) = 0
  OBVIOUS
<1>3. QED
  BY <1>1, <1>2, PlacedStart DEF Reads

LEMMA ReadsLoaded ==
    ASSUME NEW file \in Uploaded, NEW next \in DOMAIN Entries(file), NEW g, NEW made,
           Reads("reading", file, next, g, << >>, made), ~ ReadFails(file, next),
           NEW group, group = GroupOf(file, next)
    PROVE  Reads("reading", file, next + 1, IF Len(group) > 1 THEN next ELSE None, group, made)
<1> SUFFICES ASSUME NEW to, to = next + 1
             PROVE  Reads("reading", file, to, IF Len(group) > 1 THEN next ELSE None, group, made)
  OBVIOUS
<1>1. next \in Nat \ { 0 } /\ DOMAIN Entries(file) = 1..Len(Entries(file)) /\ Len(Entries(file)) \in Nat
  BY EntriesAreListed
<1>2. to \in 1..(Len(Entries(file)) + 1) /\ to > 1 /\ to - 1 = next
  BY <1>1
<1>3. \A n \in 1..next : ~ ReadFails(file, n)
  BY <1>1 DEF Reads
<1>4. Len(group) \in Nat /\ DOMAIN group = 1..Len(group)
  BY GroupsAreListed
<1>5. IsEndOf(group, group)
  <2>1. Len(group) - Len(group) = 0
    BY <1>4
  <2>2. \A k \in DOMAIN group : Len(group) - Len(group) + k = k
    BY <1>4, <2>1
  <2>3. QED
    BY <1>4, <2>2 DEF IsEndOf
<1>6. (IF Len(group) > 1 THEN next ELSE None) = IdOf(file, next)
  BY DEF IdOf, Size
<1>7. \E nth, ith : Placed(file, to, Len(group), made, nth, ith)
  <2>1. PICK nth, ith : Placed(file, next, 0, made, nth, ith)
    BY DEF Reads
  <2>2. Placed(file, next + 1, Size(file, next), made, nth, ith)
    BY <2>1, PlacedLoad
  <2>3. QED
    BY <2>2 DEF Size
<1>8. QED
  BY <1>2, <1>3, <1>5, <1>6, <1>7 DEF Reads

LEMMA ReadsCreated ==
    ASSUME NEW file \in Uploaded, NEW next, NEW group, NEW pending, IsList(pending), pending # << >>,
           NEW made, Reads("reading", file, next, group, pending, made),
           NEW id, id \notin DOMAIN made,
           NEW more, DOMAIN more = DOMAIN made \cup { id }, \A r \in DOMAIN made : more[r] = made[r],
           more[id] = [ group |-> group, entry |-> Head(pending) ]
    PROVE  Reads("reading", file, next, group, Tail(pending), more)
<1> DEFINE last == next - 1
           left == Len(pending)
           i == Size(file, last) - left + 1
<1>1. next \in 1..(Len(Entries(file)) + 1) /\ next > 1 /\ group = IdOf(file, last)
  BY DEF Reads
<1>2. DOMAIN Entries(file) = 1..Len(Entries(file)) /\ Len(Entries(file)) \in Nat
  BY EntriesAreListed
<1>3. last \in DOMAIN Entries(file) /\ \A n \in 1..last : n \in DOMAIN Entries(file)
  BY <1>1, <1>2
<1>4. \A n \in 1..last : Size(file, n) \in Nat
  BY <1>3, GroupsAreListed DEF Size
<1>5. left \in Nat \ { 0 } /\ DOMAIN pending = 1..left
  <2>1. left \in Nat /\ DOMAIN pending = 1..left /\ 1 \in DOMAIN pending
    BY ListIs, TailIs
  <2>2. QED
    BY <2>1
<1>6. /\ left <= Size(file, last)
      /\ \A k \in DOMAIN pending : pending[k] = GroupOf(file, last)[Size(file, last) - left + k]
  BY DEF Reads, IsEndOf, Size
<1>7. /\ Len(Tail(pending)) = left - 1 /\ 1 \in DOMAIN pending /\ Head(pending) = pending[1]
      /\ IsList(Tail(pending))
      /\ \A k \in DOMAIN Tail(pending) : k + 1 \in DOMAIN pending /\ Tail(pending)[k] = pending[k + 1]
  BY TailIs
<1>8. Head(pending) = GroupOf(file, last)[i]
  BY <1>6, <1>7
<1>9. IsEndOf(Tail(pending), GroupOf(file, last))
  <2>1. Size(file, last) \in Nat
    BY <1>1, <1>2, <1>4
  <2>2. DOMAIN Tail(pending) = 1..(left - 1)
    BY <1>7, ListIs
  <2>3. \A k \in 1..(left - 1) :
            Size(file, last) - left + (k + 1) = Size(file, last) - (left - 1) + k
    BY <1>5, <2>1
  <2>4. \A k \in 1..(left - 1) :
            Tail(pending)[k] = GroupOf(file, last)[Size(file, last) - (left - 1) + k]
    BY <1>6, <1>7, <2>2, <2>3
  <2>5. left - 1 <= Size(file, last)
    BY <1>5, <1>6, <2>1
  <2>6. QED
    BY <1>7, <2>2, <2>4, <2>5 DEF IsEndOf, Size
<1>10. \E nth, ith : Placed(file, next, left - 1, more, nth, ith)
  <2>1. PICK nth, ith : Placed(file, next, left, made, nth, ith)
    BY DEF Reads
  <2>2. next \in Nat
    BY <1>1, <1>2
  <2>3. /\ i = Size(file, next - 1) - left + 1 /\ left <= Size(file, next - 1) /\ next > 1
        /\ \A n \in 1..(next - 1) : Size(file, n) \in Nat
    BY <1>1, <1>4, <1>6
  <2>4. /\ DOMAIN more = DOMAIN made \cup { id } /\ \A r \in DOMAIN made : more[r] = made[r]
        /\ more[id] = [ group |-> IdOf(file, next - 1), entry |-> GroupOf(file, next - 1)[i] ]
    BY <1>1, <1>8
  <2> HIDE DEF i, left, last
  <2>5. QED
    BY <1>5, <2>1, <2>2, <2>3, <2>4, PlacedCreate
<1>11. QED
  BY <1>1, <1>7, <1>9, <1>10 DEF Reads

LEMMA ReadsDone ==
    ASSUME NEW file \in Uploaded, NEW next, NEW group, NEW made,
           Reads("reading", file, next, group, << >>, made), next > Len(Entries(file))
    PROVE  Reads("done", file, next, group, << >>, made)
<1>1. Len(Entries(file)) \in Nat
  BY EntriesAreListed
<1>2. next = Len(Entries(file)) + 1
  BY <1>1 DEF Reads
<1>3. QED
  BY <1>2 DEF Reads

LEMMA MInvOther ==
    ASSUME ~ UploadsWhileReading, MInv,
           (\E e, f : UpdateMetadataFile(e, f)) \/ DeleteMetadataFile \/ StartValidation
    PROVE  MInv'
<1>1. CASE \E e, f : UpdateMetadataFile(e, f)
  BY <1>1 DEF UpdateMetadataFile, MayChange, MInv, IsRead
<1>2. CASE DeleteMetadataFile
  <2>1. reader' = reader /\ records' = records
    BY <1>2 DEF DeleteMetadataFile
  <2>2. QED
    BY <2>1 DEF MInv, IsRead
<1>3. CASE StartValidation
  <2>1. reader'.pc = "queued"
    BY <1>3 DEF StartValidation
  <2>2. QED
    BY <2>1 DEF MInv, IsRead
<1>4. QED
  BY <1>1, <1>2, <1>3

LEMMA MInvRead ==
    ASSUME TInv, EInv, MInv,
           OpenMetadataFile \/ LoadNextGroup \/ CreateRecord \/ FinishReading
    PROVE  MInv'
<1>1. PICK p, f, n, g, q : reader = Reader(p, f, n, g, q)
  BY DEF TInv, IsReader
<1>2. p = "reading" => Reads(p, f, n, g, q, records) /\ f \in Uploaded /\ n \in Nat \ { 0 } /\ IsList(q)
  BY <1>1, MInvReads DEF EInv, FilesAreUploaded, RecordsAreEntries
<1>3. ASSUME NEW p2, NEW f2, NEW n2, NEW g2, NEW q2, reader' = Reader(p2, f2, n2, g2, q2),
             Reads(p2, f2, n2, g2, q2, records')
      PROVE  MInv'
  BY <1>3 DEF MInv, Reads
<1>4. CASE Abandon
  BY <1>4 DEF Abandon, MInv, IsRead, TInv, IsReader
<1>5. CASE OpenMetadataFile /\ ~ Abandon
  <2>1. PICK e \in Found : reader' = Reader("reading", bucket[e], 1, None, << >>)
    BY <1>5 DEF OpenMetadataFile
  <2>2. records' = << >>
    BY <1>5 DEF OpenMetadataFile, EInv, RecordsAreEntries
  <2>3. bucket[e] \in Uploaded
    BY DEF EInv, FilesAreUploaded, Found
  <2>4. Reads("reading", bucket[e], 1, None, << >>, records')
    BY <2>2, <2>3, ReadsOpened
  <2>5. QED
    BY <1>3, <2>1, <2>4
<1>6. CASE LoadNextGroup /\ ~ Abandon
  <2> DEFINE group == GroupOf(f, n)
             h == IF Len(group) > 1 THEN n ELSE None
  <2>1. /\ p = "reading" /\ q = << >> /\ ~ ReadFails(f, n) /\ n <= Len(Entries(f))
        /\ reader' = Reader("reading", f, n + 1, h, group)
        /\ records' = records
    BY <1>1, <1>6 DEF LoadNextGroup
  <2>2. n \in DOMAIN Entries(f)
    BY <1>2, <2>1, EntriesAreListed
  <2>3. Reads("reading", f, n + 1, h, group, records)
    BY <1>2, <2>1, <2>2, ReadsLoaded
  <2> HIDE DEF group, h
  <2>4. QED
    BY <1>3, <2>1, <2>3
<1>7. CASE CreateRecord
  <2>1. PICK id \in RecordId \ DOMAIN records :
            records' = [r \in DOMAIN records \cup { id } |->
                           IF r = id THEN [ group |-> g, entry |-> Head(q) ] ELSE records[r]]
    BY <1>1, <1>7 DEF CreateRecord
  <2>2. q # << >> /\ reader' = Reader(p, f, n, g, Tail(q))
    BY <1>1, <1>7 DEF CreateRecord
  <2>3. p = "reading"
    BY <1>1, <2>2 DEF EInv, RecordsAreEntries
  <2>4. /\ DOMAIN records' = DOMAIN records \cup { id }
        /\ \A r \in DOMAIN records : records'[r] = records[r]
        /\ records'[id] = [ group |-> g, entry |-> Head(q) ]
    BY <2>1
  <2>5. Reads("reading", f, n, g, Tail(q), records')
    BY <1>2, <2>2, <2>3, <2>4, ReadsCreated
  <2>6. QED
    BY <1>3, <2>2, <2>3, <2>5
<1>8. CASE FinishReading
  <2>1. /\ p = "reading" /\ q = << >> /\ n > Len(Entries(f))
        /\ reader' = Reader("done", f, n, g, << >>) /\ records' = records
    BY <1>1, <1>8 DEF FinishReading
  <2>2. Reads("done", f, n, g, << >>, records)
    BY <1>2, <2>1, ReadsDone
  <2>3. QED
    BY <1>3, <2>1, <2>2
<1>9. QED
  BY <1>4, <1>5, <1>6, <1>7, <1>8

LEMMA MInvHolds ==
    ASSUME ~ UploadsWhileReading
    PROVE  Spec => []MInv
<1>1. Init => MInv
  BY DEF Init, Idle, MInv, IsRead
<1>2. TInv /\ EInv /\ MInv /\ [Next]_vars => MInv'
  <2> SUFFICES ASSUME TInv, EInv, MInv, [Next]_vars
               PROVE  MInv'
    OBVIOUS
  <2>1. CASE UNCHANGED vars
    <3>1. reader' = reader /\ records' = records
      BY <2>1 DEF vars
    <3>2. QED
      BY <3>1 DEF MInv, IsRead
  <2>2. QED
    BY <2>1, MInvOther, MInvRead DEF Next
<1>3. QED
  BY <1>1, <1>2, TInvHolds, EInvHolds, PTL DEF Spec

-----------------------------------------------------------------------------
(* get_record_groups() puts together what belongs together.                *)

(* Every entry of a file is a record, and every record is an entry.        *)
AllPlaced(file, nth, ith) ==
    LET N == Len(Entries(file))
    IN  /\ \A id \in DOMAIN records :
               /\ nth[id] \in 1..N /\ ith[id] \in 1..Size(file, nth[id])
               /\ records[id].group = IdOf(file, nth[id])
               /\ records[id].entry = GroupOf(file, nth[id])[ith[id]]
        /\ \A a, b \in DOMAIN records : nth[a] = nth[b] /\ ith[a] = ith[b] => a = b
        /\ \A n \in 1..N : \A i \in 1..Size(file, n) :
               \E id \in DOMAIN records : nth[id] = n /\ ith[id] = i

LEMMA EndIsPlaced ==
    ASSUME EInv, MInv, IsRead
    PROVE  /\ reader.file \in Uploaded
           /\ \A n \in DOMAIN Entries(reader.file) : ~ ReadFails(reader.file, n)
           /\ \E nth, ith : AllPlaced(reader.file, nth, ith)
<1> DEFINE file == reader.file
           N == Len(Entries(file))
<1>1. file \in Uploaded
  BY DEF IsRead, EInv, FilesAreUploaded
<1>2. N \in Nat /\ DOMAIN Entries(file) = 1..N
  BY <1>1, EntriesAreListed
<1>3. /\ reader.next = N + 1 /\ reader.pending = << >>
      /\ \A n \in 1..(reader.next - 1) : ~ ReadFails(file, n)
      /\ \E nth, ith : Placed(file, reader.next, Len(reader.pending), records, nth, ith)
  BY DEF MInv, IsRead
<1>4. Len(reader.pending) = 0 /\ reader.next - 1 = N
  BY <1>2, <1>3
<1>5. \A n \in 1..N : MadeOf(file, reader.next, 0, n) = Size(file, n)
  <2>1. \A n \in 1..N : Size(file, n) \in Nat
    BY <1>1, <1>2, GroupsAreListed DEF Size
  <2>2. QED
    BY <2>1 DEF MadeOf
<1>6. PICK nth, ith : Placed(file, reader.next, 0, records, nth, ith)
  BY <1>3, <1>4
<1> HIDE DEF file
<1>7. AllPlaced(file, nth, ith)
  <2>1. \A id \in DOMAIN records :
            /\ nth[id] \in 1..N /\ ith[id] \in 1..Size(file, nth[id])
            /\ records[id].group = IdOf(file, nth[id])
            /\ records[id].entry = GroupOf(file, nth[id])[ith[id]]
    BY <1>4, <1>5, <1>6 DEF Placed
  <2>2. \A n \in 1..N : \A i \in 1..Size(file, n) :
            \E id \in DOMAIN records : nth[id] = n /\ ith[id] = i
    BY <1>4, <1>5, <1>6 DEF Placed
  <2>3. \A a, b \in DOMAIN records : nth[a] = nth[b] /\ ith[a] = ith[b] => a = b
    BY <1>6 DEF Placed
  <2>4. QED
    BY <2>1, <2>2, <2>3 DEF AllPlaced
<1>8. \A n \in DOMAIN Entries(file) : ~ ReadFails(file, n)
  BY <1>2, <1>3, <1>4 DEF file
<1>9. QED
  BY <1>1, <1>7, <1>8 DEF file

(* The record of an entry, and the group key of a group.                   *)
RecordOf(nth, ith, n, i) == CHOOSE id \in DOMAIN records : nth[id] = n /\ ith[id] = i

KeyOf(nth, ith, n) == GroupKey(RecordOf(nth, ith, n, 1))

(* Two records have one key if they are of one group.                      *)
LEMMA KeysAreGroups ==
    ASSUME NEW file \in Uploaded, NEW nth, NEW ith, AllPlaced(file, nth, ith)
    PROVE  /\ \A n \in 1..Len(Entries(file)) : \A i \in 1..Size(file, n) :
                  LET id == RecordOf(nth, ith, n, i)
                  IN  id \in DOMAIN records /\ nth[id] = n /\ ith[id] = i
           /\ \A a, b \in DOMAIN records : GroupKey(a) = GroupKey(b) <=> nth[a] = nth[b]
           /\ \A n \in 1..Len(Entries(file)) : Size(file, n) \in Nat \ { 0 }
<1> DEFINE N == Len(Entries(file))
<1>1. N \in Nat /\ DOMAIN Entries(file) = 1..N
  BY EntriesAreListed
<1>2. \A n \in 1..N : Size(file, n) \in Nat \ { 0 }
  BY <1>1, GroupsAreListed DEF Size
<1>3. \A n \in 1..N : \A i \in 1..Size(file, n) :
          LET id == RecordOf(nth, ith, n, i)
          IN  id \in DOMAIN records /\ nth[id] = n /\ ith[id] = i
  BY DEF AllPlaced, RecordOf
<1>4. \A id \in DOMAIN records :
          /\ nth[id] \in 1..N
          /\ GroupKey(id) = IF Size(file, nth[id]) > 1 THEN << "group", nth[id] >>
                            ELSE << "record", id >>
          /\ Size(file, nth[id]) <= 1 => ith[id] = 1
  <2> SUFFICES ASSUME NEW id \in DOMAIN records
               PROVE  /\ nth[id] \in 1..N
                      /\ GroupKey(id) = IF Size(file, nth[id]) > 1 THEN << "group", nth[id] >>
                                        ELSE << "record", id >>
                      /\ Size(file, nth[id]) <= 1 => ith[id] = 1
    OBVIOUS
  <2>1. /\ nth[id] \in 1..N /\ ith[id] \in 1..Size(file, nth[id])
        /\ records[id].group = IdOf(file, nth[id])
    BY DEF AllPlaced
  <2>2. nth[id] # None
    BY <1>1, <2>1, NoneAssumption
  <2>3. GroupKey(id) = IF Size(file, nth[id]) > 1 THEN << "group", nth[id] >> ELSE << "record", id >>
    BY <2>1, <2>2 DEF GroupKey, IdOf
  <2>4. Size(file, nth[id]) <= 1 => ith[id] = 1
    BY <1>2, <2>1
  <2>5. QED
    BY <2>1, <2>3, <2>4
<1>5. ASSUME NEW a \in DOMAIN records, NEW b \in DOMAIN records
      PROVE  GroupKey(a) = GroupKey(b) <=> nth[a] = nth[b]
  <2>1. nth[a] = nth[b] /\ ith[a] = ith[b] => a = b
    BY DEF AllPlaced
  <2>2. Size(file, nth[a]) \in Nat /\ Size(file, nth[b]) \in Nat
    BY <1>2, <1>4
  <2>3. CASE Size(file, nth[a]) > 1 /\ Size(file, nth[b]) > 1
    BY <1>4, <2>3
  <2>4. CASE ~ (Size(file, nth[a]) > 1) /\ ~ (Size(file, nth[b]) > 1)
    <3>1. ith[a] = 1 /\ ith[b] = 1
      BY <1>4, <2>2, <2>4
    <3>2. GroupKey(a) = << "record", a >> /\ GroupKey(b) = << "record", b >>
      BY <1>4, <2>4
    <3>3. QED
      BY <2>1, <3>1, <3>2
  <2>5. CASE (Size(file, nth[a]) > 1) # (Size(file, nth[b]) > 1)
    <3>1. nth[a] # nth[b]
      BY <2>5
    <3>2. GroupKey(a)[1] # GroupKey(b)[1]
      BY <1>4, <2>5
    <3>3. QED
      BY <3>1, <3>2
  <2>6. QED
    BY <2>3, <2>4, <2>5
<1>6. QED
  BY <1>2, <1>3, <1>5

(* Every group of the file has its key, and only those.                    *)
LEMMA KeysAreCounted ==
    ASSUME NEW file \in Uploaded, NEW nth, NEW ith, AllPlaced(file, nth, ith)
    PROVE  /\ DOMAIN RecordGroups = { KeyOf(nth, ith, n) : n \in 1..Len(Entries(file)) }
           /\ Cardinality(DOMAIN RecordGroups) = Len(Entries(file))
<1> DEFINE N == Len(Entries(file))
           Keys == { GroupKey(id) : id \in DOMAIN records }
           f == [n \in 1..N |-> KeyOf(nth, ith, n)]
<1>1. N \in Nat
  BY EntriesAreListed
<1>2. DOMAIN RecordGroups = Keys
  BY DEF RecordGroups
<1>3. \A n \in 1..N : LET id == RecordOf(nth, ith, n, 1)
                      IN  id \in DOMAIN records /\ nth[id] = n
  BY KeysAreGroups
<1>4. \A id \in DOMAIN records : nth[id] \in 1..N
  BY DEF AllPlaced
<1>5. \A a, b \in DOMAIN records : GroupKey(a) = GroupKey(b) <=> nth[a] = nth[b]
  BY KeysAreGroups
<1>6. \A n \in 1..N : f[n] \in Keys
  BY <1>3 DEF KeyOf
<1>7. \A k \in Keys : \E n \in 1..N : f[n] = k
  <2> SUFFICES ASSUME NEW id \in DOMAIN records
               PROVE  \E n \in 1..N : f[n] = GroupKey(id)
    OBVIOUS
  <2>1. f[nth[id]] = GroupKey(id)
    BY <1>3, <1>4, <1>5 DEF KeyOf
  <2>2. QED
    BY <1>4, <2>1
<1>8. \A m, n \in 1..N : f[m] = f[n] => m = n
  BY <1>3, <1>5 DEF KeyOf
<1>9. DOMAIN f = 1..N /\ \A n \in 1..N : f[n] = KeyOf(nth, ith, n)
  OBVIOUS
<1>10. DOMAIN RecordGroups = { KeyOf(nth, ith, n) : n \in 1..N }
  BY <1>2, <1>6, <1>7, <1>9
<1>11. f \in Bijection(1..N, Keys)
  <2>1. f \in [1..N -> Keys]
    BY <1>6
  <2> HIDE DEF f, Keys
  <2>2. QED
    BY <1>7, <1>8, <2>1 DEF Bijection, Injection, Surjection, IsInjective
<1> HIDE DEF f, Keys
<1>12. ExistsBijection(1..N, Keys)
  BY <1>11 DEF ExistsBijection
<1>13. Cardinality(Keys) = N
  BY <1>1, <1>12, FS_CountingElements
<1>14. QED
  BY <1>2, <1>10, <1>13

(* The group of a key is that of the file, in its order.                   *)
LEMMA GroupIsPutTogether ==
    ASSUME TInv, NEW file \in Uploaded, NEW nth, NEW ith, AllPlaced(file, nth, ith),
           NEW n \in 1..Len(Entries(file))
    PROVE  LET g == RecordGroups[KeyOf(nth, ith, n)]
           IN  [i \in DOMAIN g |-> records[g[i]].entry] = GroupOf(file, n)
<1> DEFINE N == Len(Entries(file))
           k == Size(file, n)
           e == [i \in 1..k |-> RecordOf(nth, ith, n, i)]
           key == KeyOf(nth, ith, n)
           At(id) == records[id].entry.position
           before == { p \in (DOMAIN records) \X (DOMAIN records) :
                           At(p[1]) < At(p[2]) \/ (At(p[1]) = At(p[2]) /\ p[1] < p[2]) }
           members == { id \in DOMAIN records : GroupKey(id) = key }
           group == GroupOf(file, n)
<1>1. n \in DOMAIN Entries(file)
  BY EntriesAreListed
<1>2. /\ IsList(group) /\ k = Len(group) /\ k \in Nat \ { 0 } /\ DOMAIN group = 1..k
      /\ \A i \in 1..k : group[i].position = i - 1
  BY <1>1, GroupsAreListed DEF Size
<1>3. /\ \A i \in 1..k : e[i] \in DOMAIN records /\ nth[e[i]] = n /\ ith[e[i]] = i
      /\ \A a, b \in DOMAIN records : GroupKey(a) = GroupKey(b) <=> nth[a] = nth[b]
  BY KeysAreGroups
<1>4. key = GroupKey(e[1]) /\ 1 \in 1..k
  BY <1>2 DEF KeyOf
<1>5. \A id \in DOMAIN records : GroupKey(id) = key <=> nth[id] = n
  BY <1>3, <1>4
<1>6. \A i \in 1..k : records[e[i]].entry = group[i] /\ At(e[i]) = i - 1 /\ e[i] \in Int
  <2> SUFFICES ASSUME NEW i \in 1..k
               PROVE  records[e[i]].entry = group[i] /\ At(e[i]) = i - 1 /\ e[i] \in Int
    OBVIOUS
  <2>1. records[e[i]].entry = GroupOf(file, nth[e[i]])[ith[e[i]]]
    BY <1>3 DEF AllPlaced
  <2>2. records[e[i]].entry = group[i]
    BY <1>3, <2>1
  <2>3. e[i] \in Int
    BY <1>3, RecordIdAssumption DEF TInv
  <2>4. QED
    BY <1>2, <2>2, <2>3
<1>7. \A i \in 1..k : e[i] \in members
  BY <1>3, <1>5
<1>8. \A x \in members : \E i \in 1..k : x = e[i]
  <2> SUFFICES ASSUME NEW x \in DOMAIN records, nth[x] = n
               PROVE  \E i \in 1..k : x = e[i]
    BY <1>5
  <2>1. ith[x] \in 1..k
    BY DEF AllPlaced
  <2>2. nth[e[ith[x]]] = nth[x] /\ ith[e[ith[x]]] = ith[x] /\ e[ith[x]] \in DOMAIN records
    BY <1>3, <2>1
  <2>3. x = e[ith[x]]
    BY <2>2 DEF AllPlaced
  <2>4. QED
    BY <2>1, <2>3
<1>9. \A i, j \in 1..k : << e[i], e[j] >> \in before <=> i < j
  <2> SUFFICES ASSUME NEW i \in 1..k, NEW j \in 1..k
               PROVE  << e[i], e[j] >> \in before <=> i < j
    OBVIOUS
  <2>1. << e[i], e[j] >> \in before <=>
            \/ At(e[i]) < At(e[j])
            \/ At(e[i]) = At(e[j]) /\ e[i] < e[j]
    BY <1>3
  <2>2. At(e[i]) = i - 1 /\ At(e[j]) = j - 1 /\ e[i] \in Int /\ e[j] \in Int
    BY <1>6
  <2>3. i = j => ~ (e[i] < e[j])
    BY <2>2
  <2> HIDE DEF before, e, At
  <2>4. QED
    BY <1>2, <2>1, <2>2, <2>3
<1>10. IsList(e) /\ Len(e) = k
  <2>1. e = [i \in 1..k |-> e[i]]
    OBVIOUS
  <2>2. QED
    BY <1>2, <2>1, MadeList
<1>11. RecordGroups[key] = InOrder(members, before)
  <2>1. key \in DOMAIN RecordGroups
    BY KeysAreCounted
  <2>2. QED
    BY <2>1 DEF RecordGroups
<1> HIDE DEF k, e, key, At, before, members, group
<1>12. InOrder(members, before) = e
  BY <1>7, <1>8, <1>9, <1>10, InOrderIs
<1>13. DOMAIN e = 1..k
  BY <1>10, ListIs
<1>14. [i \in DOMAIN e |-> records[e[i]].entry] = [i \in 1..k |-> group[i]]
  BY <1>6, <1>13
<1>15. group = [i \in 1..k |-> group[i]]
  BY <1>2, ListIs
<1>16. QED
  BY <1>11, <1>12, <1>14, <1>15 DEF key, group

LEMMA GroupsAreThose ==
    ASSUME TInv, EInv, MInv, IsRead
    PROVE  /\ Cardinality(DOMAIN RecordGroups) = Len(Entries(reader.file))
           /\ Groups = { GroupOf(reader.file, n) : n \in DOMAIN Entries(reader.file) }
<1> DEFINE file == reader.file
           N == Len(Entries(file))
           Entered(k) == [i \in DOMAIN RecordGroups[k] |-> records[RecordGroups[k][i]].entry]
<1>1. PICK nth, ith : AllPlaced(file, nth, ith)
  BY EndIsPlaced
<1>2. file \in Uploaded
  BY EndIsPlaced
<1>3. DOMAIN Entries(file) = 1..N
  BY <1>2, EntriesAreListed
<1> HIDE DEF file
<1>4. /\ DOMAIN RecordGroups = { KeyOf(nth, ith, n) : n \in 1..N }
      /\ Cardinality(DOMAIN RecordGroups) = N
  BY <1>1, <1>2, KeysAreCounted
<1>5. \A n \in 1..N : Entered(KeyOf(nth, ith, n)) = GroupOf(file, n)
  BY <1>1, <1>2, GroupIsPutTogether
<1>6. Groups = { Entered(k) : k \in DOMAIN RecordGroups }
  BY DEF Groups
<1> HIDE DEF Entered
<1>7. Groups = { GroupOf(file, n) : n \in 1..N }
  BY <1>4, <1>5, <1>6
<1>8. QED
  BY <1>3, <1>4, <1>7 DEF file

(***************************************************************************)
(* Every product or row is one group, and no group is anything else: a     *)
(* book is followed by its chapters in their stated order, for files of    *)
(* any length and whatever ids the records are given.                      *)
(***************************************************************************)
THEOREM GroupsFollowFileHolds ==
    ASSUME ~ UploadsWhileReading
    PROVE  Spec => []GroupsFollowFile
<1>1. TInv /\ EInv /\ MInv => GroupsFollowFile
  <2> SUFFICES ASSUME TInv, EInv, MInv, IsRead,
                      NEW g \in Groups, NEW i \in DOMAIN g, NEW j \in DOMAIN g, i < j
               PROVE  /\ g[i].role = IF i = 1 THEN "parent" ELSE "child"
                      /\ i > 1 => g[i].key[2] < g[j].key[2]
    BY GroupsAreThose DEF GroupsFollowFile
  <2>1. PICK n \in DOMAIN Entries(reader.file) : g = GroupOf(reader.file, n)
    BY GroupsAreThose
  <2>2. reader.file \in Uploaded /\ ~ ReadFails(reader.file, n)
    BY EndIsPlaced
  <2>3. reader.file.kind = "onix3"
    <3>1. DOMAIN g = 1..Len(g) /\ (reader.file.kind # "onix3" => Len(g) = 1)
      BY <2>1, <2>2, GroupsAreListed
    <3>2. QED
      BY <3>1
  <2>4. /\ IsProduct(reader.file.products[n]) /\ g = LoadGroup(reader.file.products[n])
        /\ ~ KeysClash(reader.file.products[n])
    BY <2>1, <2>2, <2>3, EntriesAreListed DEF GroupOf, ReadFails
  <2>5. QED
    BY <2>4, GroupIsOrdered
<1>2. QED
  BY <1>1, TInvHolds, EInvHolds, MInvHolds, PTL

(***************************************************************************)
(* A book and each of its chapters are linked both ways, by DOI or by an   *)
(* intent that names one record of the group, for any number of chapters.  *)
(***************************************************************************)
THEOREM LinksMeetHolds ==
    ASSUME ~ UploadsWhileReading
    PROVE  Spec => []LinksMeet
<1>1. TInv /\ EInv /\ MInv => LinksMeet
  <2> SUFFICES ASSUME TInv, EInv, MInv, IsRead, reader.file.kind = "onix3",
                      NEW g \in Groups, NEW i \in DOMAIN g, NEW j \in DOMAIN g,
                      (i = 1 /\ j > 1) \/ (i > 1 /\ j = 1)
               PROVE  Linked(g, i, j)
    BY DEF LinksMeet, Linked
  <2>1. PICK n \in DOMAIN Entries(reader.file) : g = GroupOf(reader.file, n)
    BY GroupsAreThose
  <2>2. reader.file \in Uploaded /\ ~ ReadFails(reader.file, n)
    BY EndIsPlaced
  <2>3. /\ IsProduct(reader.file.products[n]) /\ g = LoadGroup(reader.file.products[n])
        /\ ~ KeysClash(reader.file.products[n])
    BY <2>1, <2>2, EntriesAreListed DEF GroupOf, ReadFails
  <2>4. QED
    BY <2>3, GroupIsLinked
<1>2. QED
  BY <1>1, TInvHolds, EInvHolds, MInvHolds, PTL

-----------------------------------------------------------------------------
(* What is exported is imported as it was.                                 *)

(* Every part of a record is read back as it was written. *)
LEMMA PromiseIsKept ==
    ASSUME NEW row, NEW record, IsExported(record), RowOf(row, record),
           Apart(record.titles), Apart(record.descriptions),
           \A i \in DOMAIN record.related : record.related[i].resource_type # None,
           NEW terms, terms = Terms(record.subjects), \A i \in DOMAIN terms : Unmistaken(terms[i])
    PROVE  \A field \in DOMAIN Promised(record) : CsvPayload(row)[field] = Promised(record)[field]
<1> DEFINE promised == Promised(record)
           payload == CsvPayload(row)
           Values(e) == [k \in { << f >> : f \in { f \in DOMAIN e : e[f] # None } } |-> Line(e[k[1]])]
           words == Words(record.subjects)
           all == words \o terms
<1>1. DOMAIN promised =
          { "creators", "contributors", "rights", "dates", "funding", "subjects", "titles",
            "descriptions", "identifiers", "related", "references", "languages", "formats", "sizes",
            "files", "custom", "access" }
  BY DEF Promised
<1>2. \A e : Keyed(e) = Values(e)
  <2> TAKE e
  <2> DEFINE fields == [k \in { << f >> : f \in DOMAIN e } |-> e[k[1]]]
  <2>1. /\ DOMAIN fields = { << f >> : f \in DOMAIN e }
        /\ \A k \in DOMAIN fields : fields[k] = e[k[1]]
    OBVIOUS
  <2>2. Keyed(e) = [k \in { k \in DOMAIN fields : fields[k] # None } |-> Line(fields[k])]
    BY DEF Keyed, PartsOf, Present
  <2>3. { k \in DOMAIN fields : fields[k] # None } = { << f >> : f \in { f \in DOMAIN e : e[f] # None } }
    BY <2>1
  <2> HIDE DEF fields
  <2>4. QED
    BY <2>1, <2>2, <2>3
<1>3. payload["creators"] = promised["creators"] /\ payload["contributors"] = promised["contributors"]
  BY EverybodyIsRead DEF CsvPayload, Promised
<1>4. payload["rights"] = promised["rights"]
  BY RightsAreRead DEF CsvPayload, Promised
<1>5. payload["dates"] = promised["dates"]
  BY DatesAreRead DEF CsvPayload, Promised
<1>6. payload["funding"] = promised["funding"]
  BY FundingIsRead DEF CsvPayload, Promised
<1>7. payload["subjects"] = promised["subjects"]
  <2>1. words = Words(record.subjects) /\ all = words \o terms
    OBVIOUS
  <2>2. /\ IsExported(record) /\ RowOf(row, record)
        /\ terms = Terms(record.subjects) /\ \A i \in DOMAIN terms : Unmistaken(terms[i])
    OBVIOUS
  <2>3. promised["subjects"] = SubjectEntries(all)
    BY DEF Promised, SubjectEntries
  <2> HIDE DEF words, all
  <2>4. LoadSubjects(row) = SubjectEntries(all)
    BY ONLY <2>1, <2>2, SubjectsAreRead
  <2>5. QED
    BY <2>3, <2>4 DEF CsvPayload
<1>8. payload["titles"] = promised["titles"] /\ payload["descriptions"] = promised["descriptions"]
  <2>1. /\ HasGroup(row, "additional_titles", ExportTyped(record.titles))
        /\ HasGroup(row, "additional_descriptions", ExportTyped(record.descriptions))
    <3>1. /\ ExportGroups(record)["additional_titles"] = ExportTyped(record.titles)
          /\ ExportGroups(record)["additional_descriptions"] = ExportTyped(record.descriptions)
      BY DEF ExportGroups
    <3>2. QED
      BY <3>1, GroupNames DEF RowOf
  <2>2. /\ \A t \in record.titles : t.type # None /\ t.text # None
        /\ \A t \in record.descriptions : t.type # None /\ t.text # None
    BY DEF IsExported
  <2>3. /\ LoadTyped(row, "additional_titles") =
               { [ type |-> t.type, lang |-> t.lang, text |-> << Line(t.text) >> ] : t \in record.titles }
        /\ LoadTyped(row, "additional_descriptions") =
               { [ type |-> t.type, lang |-> t.lang, text |-> << Line(t.text) >> ] : t \in record.descriptions }
    BY <2>1, <2>2, TypedAreRead
  <2>4. QED
    BY <2>3 DEF CsvPayload, Promised
<1>9. payload["identifiers"] = promised["identifiers"]
  BY IdentifiersAreRead DEF CsvPayload, Promised
<1>10. payload["related"] = promised["related"]
  <2> DEFINE Related(e) == [k \in { k \in RelatedPart :
                                    k = << "resource_type", "id" >> => e.resource_type # None } |->
                              Line(e[k[1]])]
  <2>1. promised["related"] = [i \in DOMAIN record.related |-> Related(record.related[i])]
    BY DEF Promised
  <2>2. \A i \in DOMAIN record.related :
            Related(record.related[i]) = [k \in RelatedPart |-> Line(record.related[i][k[1]])]
    OBVIOUS
  <2> HIDE DEF Related
  <2>3. promised["related"] = [i \in DOMAIN record.related |->
                                  [k \in RelatedPart |-> Line(record.related[i][k[1]])]]
    BY <2>1, <2>2
  <2>4. QED
    BY <2>3, RelatedAreRead DEF CsvPayload
<1>11. payload["references"] = promised["references"]
  <2>1. promised["references"] = [i \in DOMAIN record.references |-> Values(record.references[i])]
    BY DEF Promised
  <2> HIDE DEF Values
  <2>2. LoadReferences(row) = [i \in DOMAIN record.references |-> Values(record.references[i])]
    BY <1>2, ReferencesAreRead
  <2>3. QED
    BY <2>1, <2>2 DEF CsvPayload
<1>12. payload["languages"] = promised["languages"]
  BY LanguagesAreRead DEF CsvPayload, Promised
<1>13. /\ payload["formats"] = promised["formats"] /\ payload["sizes"] = promised["sizes"]
       /\ payload["files"] = promised["files"]
  BY ListsAreRead DEF CsvPayload, Promised
<1>14. payload["custom"] = promised["custom"]
  <2>1. promised["custom"] = IF Values(record.imprint) = << >> THEN << >>
                             ELSE [ imprint |-> Values(record.imprint) ]
    BY DEF Promised
  <2> HIDE DEF Values
  <2>2. LoadImprint(row) = Values(record.imprint)
    BY <1>2, ImprintIsRead
  <2>3. QED
    BY <2>1, <2>2 DEF CsvPayload, LoadCustomFields
<1>15. payload["access"] = promised["access"]
  BY AccessIsRead DEF CsvPayload, Promised
<1> HIDE DEF promised, payload
<1>16. QED
  BY <1>1, <1>3, <1>4, <1>5, <1>6, <1>7, <1>8, <1>9, <1>10, <1>11, <1>12, <1>13, <1>14, <1>15
     DEF promised, payload

(***************************************************************************)
(* What was exported is imported as it was, whatever else is in the file:  *)
(* for any number of records, with lists of any length and with gaps       *)
(* wherever a record may have them (but for the type of resource of a      *)
(* related identifier, which must be there), and even if other files are   *)
(* uploaded while this one is read.                                        *)
(***************************************************************************)
THEOREM ExportReimportsHolds == Spec => []ExportReimports
<1>1. EInv => ExportReimports
  <2> SUFFICES ASSUME EInv, IsRead, reader.file.kind = "csv",
                      NEW n \in DOMAIN reader.file.exported,
                      NEW record, record = reader.file.exported[n],
                      NEW row, row = GroupOf(reader.file, n)[1].data,
                      NEW terms, terms = Terms(record.subjects),
                      { "publisher", "description", "version" } \subseteq DOMAIN record.flat,
                      Apart(record.titles), Apart(record.descriptions),
                      \A i \in DOMAIN record.related : record.related[i].resource_type # None,
                      \A i \in DOMAIN terms : Unmistaken(terms[i])
               PROVE  /\ CsvIsValid(row)
                      /\ \A field \in DOMAIN Promised(record) :
                             CsvPayload(row)[field] = Promised(record)[field]
    BY DEF ExportReimports
  <2>1. reader.file \in Message \cup Replacement
    BY DEF EInv, FilesAreUploaded, IsRead, Uploaded
  <2>2. IsList(reader.file.exported) /\ IsExported(record)
    BY <2>1, MessageAssumption
  <2>3. row = CleanRow(ExportFile(reader.file.exported)[n])
    BY DEF GroupOf, GroupEntry
  <2>4. RowOf(row, record)
    BY <2>2, <2>3, RowIsRead
  <2>5. QED
    BY <2>2, <2>4, ExportIsValid, PromiseIsKept
<1>2. QED
  BY <1>1, EInvHolds, PTL

=============================================================================

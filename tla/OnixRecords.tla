---------------------------- MODULE OnixRecords -----------------------------
(***************************************************************************)
(* The ONIX 3 serializer (serializers/records/onix3): what it reads from a *)
(* message, the group of importer records each product becomes, and the    *)
(* record payload each of them is transformed into.                        *)
(*                                                                         *)
(* A text is a value, or None.  A link is a record of its scheme and of    *)
(* the segments of its path, the last of which is None if it ends in "/".  *)
(* Fields that are only carried from one side to the other (subtitle,      *)
(* series, descriptions, sizes, imprint ...) are left out.                 *)
(***************************************************************************)
EXTENDS Lists

CONSTANTS
    PdfName,        \* the file names that end in .pdf
    Roles,          \* of contributors: the list and the role id of each code
    LicenceId       \* repository licences: the id of each licence, or None

(* A role is of one of the two lists of a payload.              *)
ASSUME RolesAssumption ==
    \A code \in DOMAIN Roles : Roles[code][1] \in { "creators", "contributors" }

-----------------------------------------------------------------------------
(* The reader.                                                             *)

(* What the message has of a book or of a chapter, as far as its shape     *)
(* matters: a link has at least one segment.                               *)
IsElement(element) ==
    /\ IsList(element.contributors)
    /\ IsList(element.resources)
    /\ \A i \in DOMAIN element.resources :
           LET link == element.resources[i].link
           IN  link # None => IsList(link.path) /\ link.path # << >>

IsProduct(product) ==
    /\ IsElement(product)
    /\ IsList(product.items)
    /\ \A i \in DOMAIN product.items :
           LET item == product.items[i]
           IN  /\ IsElement(item)
               /\ { "sequence", "contributors", "resources" } \subseteq DOMAIN item
               /\ item.sequence = None \/ item.sequence \in Int

(* SequenceNumber and LevelSequenceNumber: the position where there is none. *)
Numbered(items) ==
    [i \in DOMAIN items |->
        IF items[i].sequence = None THEN [items[i] EXCEPT !.sequence = i - 1]
        ELSE items[i]]

(* Stated order; what shares a number stays in the order of the document.  *)
InSequence(items) ==
    LET before == { p \in (DOMAIN items) \X (DOMAIN items) :
                        \/ items[p[1]].sequence < items[p[2]].sequence
                        \/ items[p[1]].sequence = items[p[2]].sequence /\ p[1] < p[2] }
        order == InOrder(DOMAIN items, before)
    IN  [n \in DOMAIN items |-> items[order[n]]]

Contributors(parent) == InSequence(Numbered(parent.contributors))

(* The format is looked at before the name: a MARC record has neither.     *)
FileRole(resource) ==
    IF resource.content = "cover" THEN "cover"
    ELSE IF \/ resource.format = "pdf"
            \/ resource.format = None /\ resource.filename \in PdfName
         THEN "content"
         ELSE "other"

SupportingResources(parent) ==
    LET linked == Kept(parent.resources,
                       { i \in DOMAIN parent.resources : parent.resources[i].link # None })
    IN  [i \in DOMAIN linked |->
            [ role |-> FileRole(linked[i]), uri |-> linked[i].link,
              filename |-> linked[i].filename ]]

Items(product) == InSequence(Numbered(product.items))

Key(item) == << "chapter", item.sequence >>

(* Variant: chapters are told apart by their place. *)
NoKeysClash(product) == FALSE

(* A product with two chapters of one key is refused, and the file with it. *)
KeysClash(product) ==
    LET items == Items(product)
    IN  \E i, j \in DOMAIN items : i # j /\ Key(items[i]) = Key(items[j])

(* The book with a summary of its chapters. *)
ReadBook(product) ==
    [ type             |-> "book",
      status           |-> product.status,
      doi              |-> product.doi,
      title            |-> product.title,
      publication_date |-> product.date,
      languages        |-> product.languages,
      license          |-> product.license,
      contributors     |-> Contributors(product),
      files            |-> SupportingResources(product),
      chapters         |-> LET items == Items(product)
                           IN  [i \in DOMAIN items |->
                                   [ key |-> Key(items[i]), doi |-> items[i].doi ]] ]

(* Variant: what the payload of a chapter needs, and no more. *)
BookContextOfPayload(book) ==
    [f \in { "contributors", "doi", "title", "publication_date", "languages",
             "license", "status" } |-> IF f = "status" THEN None ELSE book[f]]

(* What a chapter carries of its book, to be transformed on its own.       *)
BookContext(book) ==
    [f \in { "contributors", "doi", "title", "publication_date", "languages",
             "license", "status" } |-> book[f]]

(* A chapter with its book. *)
ReadChapter(item, book) ==
    [ type         |-> "chapter",
      key          |-> Key(item),
      doi          |-> item.doi,
      title        |-> item.title,
      contributors |-> Contributors(item),
      files        |-> SupportingResources(item),
      book         |-> BookContext(book) ]

BookKey == << "book" >>

ParseProduct(product) ==
    LET book == ReadBook(product)
        items == Items(product)
    IN  << book, [i \in DOMAIN items |-> ReadChapter(items[i], book)] >>

-----------------------------------------------------------------------------
(* Links, by the DOI at the other end or, where there is none, as intents. *)

Siblings(src) ==
    IF src.type = "book"
    THEN { [ target |-> src.chapters[i].key, doi |-> src.chapters[i].doi,
             relation |-> "haspart" ] : i \in DOMAIN src.chapters }
    ELSE { [ target |-> BookKey, doi |-> src.book.doi, relation |-> "ispartof" ] }

RelatedIdentifiers(src) ==
    { [ doi |-> s.doi, relation |-> s.relation ] : s \in { s \in Siblings(src) : s.doi # None } }

Intents(src) ==
    { [ target |-> s.target, relation |-> s.relation ] :
          s \in { s \in Siblings(src) : s.doi = None } }

(* GroupEntry: what one record is created from. *)
GroupEntry(data) ==
    [ data |-> data, key |-> None, role |-> None, position |-> 0, relations |-> {} ]

(* Variant: the chapters are numbered from zero, as the book is. *)
PositionFromZero(i) == i - 1

Position(i) == i

(* The book, then its chapters; without chapters it is imported like a row. *)
LoadGroup(product) ==
    LET parsed == ParseProduct(product)
        Member(src, key, role, position) ==
            [ data |-> src, key |-> key, role |-> role, position |-> position,
              relations |-> Intents(src) ]
    IN  IF parsed[2] = << >> THEN << GroupEntry(parsed[1]) >>
        ELSE << Member(parsed[1], BookKey, "parent", 0) >> \o
             [i \in DOMAIN parsed[2] |->
                 Member(parsed[2][i], parsed[2][i].key, "child", Position(i))]

-----------------------------------------------------------------------------
(* transform(): the payload of a book or a chapter, or what keeps it from  *)
(* having one.                                                             *)

BookOf(src) == IF src.type = "book" THEN src ELSE src.book

(* What a record gets of the files. *)
AttachedRoles(src) == IF src.type = "book" THEN { "content", "cover" } ELSE { "content" }

Attached(src) ==
    { src.files[i] : i \in { i \in DOMAIN src.files : src.files[i].role \in AttachedRoles(src) } }

(* In the order of their roles. *)
Files(src) ==
    LET OfRole(role) == Kept(src.files, { i \in DOMAIN src.files : src.files[i].role = role })
    IN  IF src.type = "book" THEN OfRole("content") \o OfRole("cover") ELSE OfRole("content")

(* Slashes at the end are not counted. *)
LastName(path) ==
    LET named == { i \in DOMAIN path : path[i] # None }
    IN  IF named = {} THEN None ELSE path[CHOOSE i \in named : \A j \in named : j <= i]

(* Variant: the name is looked for anywhere in the link. *)
NameMismatchAnywhere(file) ==
    file.filename # None /\ \A i \in DOMAIN file.uri.path : file.uri.path[i] # file.filename

NameMismatch(file) ==
    file.filename # None /\ LastName(file.uri.path) # file.filename

Precheck(src) ==
    (IF BookOf(src).status = "withdrawn" THEN { "retracted_title" } ELSE {}) \cup
    UNION { (IF f.uri.scheme = "gs" THEN {} ELSE { "invalid_file_uri" }) \cup
            (IF NameMismatch(f) THEN { "file_name_mismatch" } ELSE {}) :
                f \in Attached(src) }

(* A name is needed, of a person or of an organisation. *)
PersonOrOrg(c) ==
    IF c.family # None THEN [ type |-> "personal", name |-> c.family ]
    ELSE IF c.corporate # None THEN [ type |-> "organizational", name |-> c.corporate ]
    ELSE IF c.person # None THEN [ type |-> "personal", name |-> c.person ]
    ELSE None

(* Variant: an unknown code counts for nothing. *)
RoleOfKnown(code) == IF code \in DOMAIN Roles THEN Roles[code] ELSE << "none", "none" >>

RoleOf(code) ==
    IF code \in DOMAIN Roles THEN Roles[code] ELSE << "contributors", "other" >>

(* split_contributors(): those of one list; without a name, of none.       *)
Credited(contributors, list) ==
    LET listed == Kept(contributors,
                       { i \in DOMAIN contributors :
                             /\ PersonOrOrg(contributors[i]) # None
                             /\ RoleOf(contributors[i].role)[1] = list })
    IN  [i \in DOMAIN listed |->
            [ who |-> PersonOrOrg(listed[i]), role |-> RoleOf(listed[i].role)[2] ]]

(* Those of an edited volume are its creators. *)
BookCredits(contributors) ==
    LET creators == Credited(contributors, "creators")
        others == Credited(contributors, "contributors")
    IN  IF creators = << >> THEN << others, << >> >> ELSE << creators, others >>

(* All who are credited on a chapter are its authors.                      *)
Credits(src) ==
    IF src.type = "chapter" /\ src.contributors # << >>
    THEN << Credited(src.contributors, "creators")
                \o Credited(src.contributors, "contributors"), << >> >>
    ELSE BookCredits(BookOf(src).contributors)

(* The licence of the book opens the files of all its records.             *)
Access(src) ==
    [ record |-> "public",
      files  |-> IF BookOf(src).license = None THEN "restricted" ELSE "public" ]

Rights(src) ==
    IF BookOf(src).license \in DOMAIN LicenceId THEN { LicenceId[BookOf(src).license] }
    ELSE {}

OnixPayload(src) ==
    [ type             |-> src.type,
      doi              |-> src.doi,
      title            |-> src.title,
      publication_date |-> BookOf(src).publication_date,
      languages        |-> BookOf(src).languages,
      creators         |-> Credits(src)[1],
      contributors     |-> Credits(src)[2],
      related          |-> RelatedIdentifiers(src),
      files            |-> [i \in DOMAIN Files(src) |-> Files(src)[i].uri],
      access           |-> Access(src),
      rights           |-> Rights(src) ]

(* The payload is built if the checks before it found nothing.             *)
OnixErrors(src, mode) ==
    IF mode # "import" THEN { "unsupported_mode" }
    ELSE IF Precheck(src) # {} THEN Precheck(src)
    ELSE IF \/ src.title = None
            \/ BookOf(src).publication_date = None
            \/ Credits(src)[1] = << >>
         THEN { "validation_error" }
         ELSE {}
=============================================================================

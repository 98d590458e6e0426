---------------------------- MODULE MCImportFile ----------------------------
(***************************************************************************)
(* Small files for ImportFile: each set varies one part of a message or of *)
(* exported records, and the others are as in Base.                        *)
(***************************************************************************)
EXTENDS ImportFile, TLC

Person(seq, code, family) ==
    [ sequence |-> seq, role |-> code, family |-> family, corporate |-> None, person |-> None ]

(* Unordered, edited, of an unknown role, nameless, with half a name.      *)
MCContributors ==
    { << >>,
      << Person(2, "A01", "Doe"), Person(1, "A01", "Roe") >>,
      << Person(None, "B01", "Doe"), Person(0, "A01", "Roe"), Person(0, "X99", "Poe") >>,
      << Person(1, "B01", "Doe"), Person(2, "X99", "Roe") >>,
      << Person(1, "A01", None) >>,
      << Person(2, None, None), [Person(1, "A01", None) EXCEPT !.corporate = "Org"],
         [Person(2, "B06", None) EXCEPT !.person = "J. Poe"] >> }

Resource(content, format, filename, scheme, path) ==
    [ content |-> content, format |-> format, filename |-> filename,
      link |-> [ scheme |-> scheme, path |-> path ] ]

Pdf == Resource("full", "pdf", "b.pdf", "gs", << "x", "b.pdf" >>)
Cover == Resource("cover", "jpg", "c.jpg", "gs", << "x", "c.jpg" >>)
Marc == Resource("full", None, "b.mrc", "file", << "b.mrc" >>)

(* In any order, without a link, of another name, of another place ...     *)
MCResources ==
    { << >>, << Cover, Marc, Pdf >>,
      << [Pdf EXCEPT !.format = None], [Cover EXCEPT !.filename = None] >>,
      << [Pdf EXCEPT !.link = None], Cover >>,
      << Resource("full", "pdf", "b.pdf", "gs", << "b.pdf", "d.pdf" >>) >>,
      << Resource("full", "pdf", "b.pdf", "gs", << "x", "b.pdf", None >>) >>,
      << Resource("full", "pdf", "b.pdf", "file", << "b.pdf" >>) >> }

Item(seq, doi) ==
    [ sequence |-> seq, doi |-> doi, title |-> "A chapter", contributors |-> << >>,
      resources |-> << >> ]

Base ==
    [ status |-> "active", doi |-> "10.1/b", title |-> "A book", date |-> "2019",
      languages |-> { "en" }, license |-> "cc", contributors |-> << Person(1, "A01", "Doe") >>,
      resources |-> << Pdf >>, items |-> << Item(2, "10.1/2"), Item(1, None) >> ]

Linked ==
    { [Base EXCEPT !.doi = d, !.items = << Item(s, e), Item(t, f) >>] :
          d \in { None, "10.1/b" }, e \in { None, "10.1/1" }, f \in { None, "10.1/2" },
          s \in { None, 1, 2 }, t \in { None, 0, 1 } }

Varied ==
    UNION { { [Base EXCEPT !.contributors = c, !.items[1].contributors = d] :
                  c \in MCContributors, d \in MCContributors },
            { [Base EXCEPT !.resources = r, !.items[1].resources = q] :
                  r \in MCResources, q \in MCResources },
            { [Base EXCEPT !.status = "withdrawn", !.items = i] : i \in { << >>, Base.items } },
            { [Base EXCEPT !.date = None], [Base EXCEPT !.title = None],
              [Base EXCEPT !.items = << >>, !.license = None],
              [Base EXCEPT !.items = << >>, !.license = "own"] } }

OnixFile(root, products, broken) ==
    [ kind |-> "onix3", root |-> root, products |-> products, broken |-> broken ]

Small == [Base EXCEPT !.items = << Item(None, None) >>, !.doi = None]

MCMessage ==
    { OnixFile("onix", << p >>, FALSE) : p \in Linked \cup Varied } \cup
    { OnixFile("onix", << [Base EXCEPT !.items = << >>], Small >>, b) : b \in BOOLEAN } \cup
    { OnixFile("onix", << >>, FALSE), OnixFile("other", << Base >>, FALSE) }

-----------------------------------------------------------------------------

(* None, one or two, with an id, a name or both. *)
MCAffiliations ==
    LET A == { [ id |-> i, name |-> n ] : i \in { None, "cern" }, n \in { None, "CERN" } }
             \ { [ id |-> None, name |-> None ] }
    IN  { << >> } \cup { << a >> : a \in A } \cup { << a, b >> : a \in A, b \in A }

Creatibutor(name, affiliations, role) ==
    [ name |-> name, type |-> "personal", identifiers |-> << >>, affiliations |-> affiliations, role |-> role ]

Known(c) == [c EXCEPT !.identifiers = "orcid" :> "0000"]

BaseRecord ==
    [ flat |-> [f \in { "id", "title", "publication_date", "publisher", "description",
                        "version" } |-> "text"],
      creators |-> << Creatibutor("Doe", << >>, None) >>, contributors |-> << >>,
      rights |-> << >>, dates |-> << >>, funding |-> << >>, subjects |-> << >>,
      titles |-> {}, descriptions |-> {}, files |-> << >>,
      identifiers |-> << >>, related |-> << >>, references |-> << >>, languages |-> << >>,
      formats |-> << >>, sizes |-> << >>, imprint |-> << >>,
      access |-> [ record |-> "public", files |-> "public",
                   embargo |-> [ active |-> FALSE, until |-> None, reason |-> None ] ] ]

NoAward == << >>
Award(id) == [p \in { "id", "number" } |-> id]
Funding(id, name, award) == [ id |-> id, name |-> name, award |-> award ]
Right(id, title, desc) == [ id |-> id, title |-> title, description |-> desc ]
Related(scheme, type) ==
    [ identifier |-> "10.1/r", scheme |-> scheme, relation_type |-> "cites",
      resource_type |-> type ]
Word(s) == [ id |-> None, subject |-> s, scheme |-> None ]
Term == [ id |-> "t1", subject |-> "Physics", scheme |-> "mesh" ]
Twice == [Term EXCEPT !.id = "t3", !.subject = "Optics"]

(* One of each kind, with and without what it may lack, in both orders.    *)
MCRecord ==
    UNION { { [BaseRecord EXCEPT !.creators = << Creatibutor("Doe", a, None),
                                                 Known(Creatibutor("Roe", b, "editor")) >>] :
                  a \in MCAffiliations, b \in MCAffiliations },
            { [BaseRecord EXCEPT !.funding = << f, g >>] :
                  f \in { Funding("eu", None, NoAward), Funding(None, "EU", Award("a1")) },
                  g \in { Funding("uk", "UK", NoAward), Funding("uk", None, Award("a2")) } },
            { [BaseRecord EXCEPT !.rights = << r, q >>] :
                  r \in { Right("cc", "CC", None), Right(None, "Own", None) },
                  q \in { Right("cc0", "CC0", "text"), Right(None, "My", "text") } },
            { [BaseRecord EXCEPT !.subjects = s] :
                  s \in { << Word("a") >>, << Term >>, << Term, Word("a"), Word("b"), Term >>,
                          << Term, Twice >> } },
            { [BaseRecord EXCEPT !.titles = t] :
                  t \in SUBSET { [ type |-> "subtitle", lang |-> l, text |-> n ] :
                                     l \in { None, "en" }, n \in { "x", "y" } } },
            { [BaseRecord EXCEPT !.related = << r, q >>] :
                  r \in { Related("isbn", "book"), Related(None, "book"), Related("isbn", None) },
                  q \in { Related(None, "book"), Related("doi", "book") } },
            { [BaseRecord EXCEPT !.access.embargo = [ active |-> TRUE, until |-> "2131",
                                                      reason |-> r ]] : r \in { None, "text" } },
            { [BaseRecord EXCEPT !.references = << [ reference |-> "A" ],
                                                   [ reference |-> "B", scheme |-> "isni" ] >>,
                                 !.identifiers = << [ identifier |-> "1", scheme |-> "url" ],
                                                    [ identifier |-> "2", scheme |-> None ] >>] },
            { [BaseRecord EXCEPT !.languages = << "en", "da" >>, !.sizes = << "1 p" >>,
                                 !.formats = << "txt", "pdf" >>,
                                 !.imprint = [ isbn |-> "978", place |-> None ],
                                 !.descriptions = { [ type |-> "notes", lang |-> None,
                                                      text |-> "n" ] }] } }

Other ==
    [BaseRecord EXCEPT
        !.contributors = << Creatibutor("Poe", << >>, "editor") >>,
        !.dates = << [ date |-> "2019", type |-> "issued", description |-> None ],
                     [ date |-> "2020", type |-> "other", description |-> "later" ] >>,
        !.files = << "a.txt", "b.txt" >>, !.access.record = "restricted",
        !.access.embargo = [ active |-> TRUE, until |-> "2131", reason |-> None ],
        !.flat = [f \in DOMAIN BaseRecord.flat \ { "version" } |-> "text"]]

(* The columns that the importer requires, and a record may lack. *)
Lacking(field) ==
    [BaseRecord EXCEPT !.flat = [f \in DOMAIN BaseRecord.flat \ { field } |-> "text"]]

CsvFile(exported) == [ kind |-> "csv", exported |-> exported ]

MCUpload ==
    MCMessage \cup { CsvFile(<< r >>) : r \in MCRecord } \cup
    { CsvFile(<< r, Other >>) : r \in MCRecord } \cup
    { CsvFile(<< Lacking(field) >>) : field \in { "publisher", "description", "version" } } \cup
    { CsvFile(<< [Other EXCEPT !.flat = BaseRecord.flat] >>) }

MCReplacement == { OnixFile("onix", << Small >>, FALSE), CsvFile(<< BaseRecord >>) }

MCRoles ==
    "A01" :> << "creators", "author" >> @@ "B01" :> << "contributors", "editor" >>
    @@ "B06" :> << "contributors", "translator" >>

MCLicenceId == "cc" :> "cc-by-4.0"

MCVocabulary ==
    { Term, [Term EXCEPT !.id = "t2", !.scheme = "fos"], Twice, [Twice EXCEPT !.id = "t4"] }
=============================================================================

-------------------------- MODULE RecordValidation ---------------------------
(***************************************************************************)
(* RDMRecord.validate() (record_types/rdm.py, base.py): the checks a       *)
(* serialized record goes through before it may be run, as the set of      *)
(* error types they report.  A record is validated if there is none.       *)
(***************************************************************************)
EXTENDS Sequences

CONSTANTS
    Community,              \* communities a record can be submitted to
    UnknownCommunity,       \* names a row can use for no community
    RestrictedCommunity,
    Role,                   \* groups that exist
    CommunityRequired       \* RDM_COMMUNITY_REQUIRED_TO_PUBLISH

(* Source data of an importer record, reduced to what the checks look at.  *)
Row(F) ==
    [ readable    : BOOLEAN,      \* the serializer makes a payload of it
      id          : BOOLEAN,      \* names the repository record
      reason      : BOOLEAN,      \* of a deletion
      files       : SUBSET F,
      communities : SUBSET (Community \cup UnknownCommunity),
      access      : SUBSET { "record", "files" },   \* what is restricted
      sound       : BOOLEAN ]     \* passes the schema and the relations

(* transform(): a deletion needs an id, an import everything else.         *)
SerializerErrors(row, mode) ==
    IF mode = "delete" THEN IF row.id THEN {} ELSE { "missing_id" }
    ELSE IF row.readable THEN {} ELSE { "serializer_error" }

(***************************************************************************)
(* RecordType.__init__ takes the id out of the payload, and what is left   *)
(* counts as a serialized record unless it is empty.                       *)
(***************************************************************************)
IsProvided(row, mode) == mode = "import" \/ row.reason

(* Variant: only a deletion has to find its record. *)
ExistingErrorsOfDeletions(row, mode, state) ==
    IF mode = "delete" /\ state \notin { "draft", "published" }
    THEN { "existing_record_not_found" } ELSE {}

(* A draft that was never published counts as existing. *)
ExistingErrors(row, mode, state) ==
    IF (row.id \/ mode = "delete") /\ state \notin { "draft", "published" }
    THEN { "existing_record_not_found" } ELSE {}

(* Only files that can be accessed are validated files. *)
FilesAccessible(files, reachable) == files \cap reachable

(***************************************************************************)
(* A local file has to be in the task's bucket; the head of a file         *)
(* elsewhere has to be served.                                             *)
(***************************************************************************)
FileErrors(files, reachable) ==
    { IF f.origin = "local" THEN "file_not_found" ELSE "file_not_accessible" :
          f \in files \ reachable }

(* Variant: the names are kept, whether or not they name a community. *)
CommunityIdsUnchecked(slugs) == slugs

(* community_uuids: of the communities that exist. *)
CommunityIds(slugs) == slugs \cap Community

CommunityErrors(slugs) ==
    (IF slugs = {} /\ CommunityRequired THEN { "community_not_provided" } ELSE {})
    \cup (IF slugs \subseteq Community THEN {} ELSE { "community_not_found" })

(* Variant: the access of the files is looked at. *)
PermissionErrorsOfFiles(row) ==
    IF row.access = {} /\ CommunityIds(row.communities) \cap RestrictedCommunity # {}
    THEN { "invalid_access_restriction" } ELSE {}

(* No public record in a restricted community. *)
PermissionErrors(row) ==
    IF "record" \notin row.access /\ CommunityIds(row.communities) \cap RestrictedCommunity # {}
    THEN { "invalid_access_restriction" } ELSE {}

(* The schema first; what it rejects cannot be made a draft either. *)
SoundnessErrors(row) ==
    IF row.sound THEN {} ELSE { "validation_error", "pre_commit_validation_error" }

IsRestricted(row) == row.access # {}

(* Groups are looked up for restricted records only. *)
GroupErrors(row, groups) ==
    IF IsRestricted(row) /\ ~ groups \subseteq Role
    THEN { "access_group_not_found" } ELSE {}

(* Variant: the files are not looked at. *)
ValidationErrorsButFiles(row, mode, state, reachable, groups) ==
    IF ~ IsProvided(row, mode) THEN { "serialized_record_not_provided" }
    ELSE ExistingErrors(row, mode, state) \cup
         IF mode = "delete" THEN {}
         ELSE CommunityErrors(row.communities) \cup PermissionErrors(row) \cup
              SoundnessErrors(row) \cup GroupErrors(row, groups)

(***************************************************************************)
(* All checks are made, whichever of them fail.  They change nothing: the  *)
(* draft the last one makes is rolled back with its unit of work.          *)
(***************************************************************************)
ValidationErrors(row, mode, state, reachable, groups) ==
    IF ~ IsProvided(row, mode) THEN { "serialized_record_not_provided" }
    ELSE ExistingErrors(row, mode, state) \cup
         IF mode = "delete" THEN {}
         ELSE FileErrors(row.files, reachable) \cup
              CommunityErrors(row.communities) \cup PermissionErrors(row) \cup
              SoundnessErrors(row) \cup GroupErrors(row, groups)
=============================================================================

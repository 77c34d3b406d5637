------------------------------- MODULE Media -------------------------------
(***************************************************************************)
(* The upload of one file (upload.service.js). The client is given a URL   *)
(* for a new key, puts the file there himself, and has it confirmed: its   *)
(* first bytes must be of a kind of its category, and if it is not a video *)
(* the scanner, where there is one, must not find anything in it. What     *)
(* fails is deleted. Each look at the object is a request of its own, and  *)
(* the URL stays good until it expires, so the client may put again in the *)
(* meantime. The local driver writes a file while it arrives; an object of *)
(* S3 is replaced at once.                                                 *)
(***************************************************************************)
EXTENDS Null

CONSTANTS
    UploadCategories,   \* categories of the files that are uploaded
    Confirms            \* requests to confirm it

\* The kinds of file a category takes.
Categories ==
    [avatar |-> {"image"}, image |-> {"image"}, video |-> {"video"},
     lifestyle |-> {"video"}, replay |-> {"video"}, sponsor |-> {"image", "video"},
     attachment |-> {"image", "pdf"}]

\* "none": fewer bytes than a kind can be told from, or none that is known.
FileKinds == {"image", "video", "pdf", "none"}
File == [kind : FileKinds, infected : BOOLEAN]
Nothing == [kind |-> "none", infected |-> FALSE]
Confirmation == [at : {"scan", "reject"}, same : BOOLEAN]

ASSUME MediaAssumption ==
    /\ UploadCategories \subseteq DOMAIN Categories
    /\ NULL \notin UploadCategories /\ NULL \notin File /\ NULL \notin Confirmation

VARIABLES
    mdKey,          \* category of the key, NULL before there is one; the driver; whether
                    \* there is a scanner
    mdOpen,         \* the URL has not expired
    mdObject,       \* the object, or NULL
    mdPut,          \* the file that is being put, or NULL
    mdConfirm,      \* what a request to confirm is about to do, or NULL
    \* history:
    mdConfirmed,    \* the object is one a confirmation began, and ended well, with
    mdMissed,       \* the scanner did not answer
    mdAnother       \* an object was deleted that was not the one looked at

mediaVars == <<mdKey, mdOpen, mdObject, mdPut, mdConfirm, mdConfirmed, mdMissed,
               mdAnother>>

NoKey == [category |-> NULL, local |-> FALSE, scanner |-> FALSE]

MediaTypeOK ==
    /\ mdKey \in [category : UploadCategories \cup {NULL}, local : BOOLEAN,
                  scanner : BOOLEAN]
    /\ mdObject \in File \cup {NULL} /\ mdPut \in File \cup {NULL}
    /\ mdConfirm \in [Confirms -> Confirmation \cup {NULL}]
    /\ {mdOpen, mdConfirmed, mdMissed, mdAnother} \subseteq BOOLEAN

MediaInit ==
    /\ mdKey = NoKey /\ mdOpen = FALSE /\ mdObject = NULL /\ mdPut = NULL
    /\ mdConfirm = [c \in Confirms |-> NULL]
    /\ mdConfirmed = FALSE /\ mdMissed = FALSE /\ mdAnother = FALSE

-----------------------------------------------------------------------------
\* presignUpload, of a file said to be of such a kind, and small enough.
Presign(category, declared, local, scanner) ==
    /\ mdKey = NoKey
    /\ declared \in Categories[category]
    /\ mdKey' = [category |-> category, local |-> local, scanner |-> scanner]
    /\ mdOpen' = TRUE
    /\ UNCHANGED <<mdObject, mdPut, mdConfirm, mdConfirmed, mdMissed, mdAnother>>

Expire ==
    /\ mdOpen /\ mdOpen' = FALSE
    /\ UNCHANGED <<mdKey, mdObject, mdPut, mdConfirm, mdConfirmed, mdMissed, mdAnother>>

\* What is at the key becomes another object.
Becomes(object) ==
    /\ mdObject' = object
    /\ mdConfirm' = [c \in Confirms |->
                       IF mdConfirm[c] = NULL THEN NULL
                       ELSE [mdConfirm[c] EXCEPT !.same = FALSE]]
    /\ mdConfirmed' = FALSE

\* saveStream opens, and so empties, the file; S3 keeps it to itself.
PutBegins(file) ==
    /\ mdOpen /\ mdPut = NULL
    /\ mdPut' = file
    /\ IF mdKey.local THEN Becomes(Nothing)
       ELSE UNCHANGED <<mdObject, mdConfirm, mdConfirmed>>
    /\ UNCHANGED <<mdKey, mdOpen, mdMissed, mdAnother>>

\* Its first bytes are there.
PutFlows ==
    /\ mdPut # NULL /\ mdKey.local
    /\ Becomes([kind |-> mdPut.kind, infected |-> FALSE])
    /\ UNCHANGED <<mdKey, mdOpen, mdPut, mdMissed, mdAnother>>

PutEnds ==
    /\ mdPut # NULL /\ mdPut' = NULL
    /\ Becomes(mdPut)
    /\ UNCHANGED <<mdKey, mdOpen, mdMissed, mdAnother>>

\* The connection is lost: half a file, or what was there before.
PutBreaks ==
    /\ mdPut # NULL /\ mdPut' = NULL
    /\ UNCHANGED <<mdKey, mdOpen, mdObject, mdConfirm, mdConfirmed, mdMissed, mdAnother>>

-----------------------------------------------------------------------------
\* mutant: any file that is known will do
Detected(file) == file.kind # "none"
\* detectFileType of the first bytes, and the category.
Accepts(file) == file.kind \in Categories[mdKey.category]

\* mutant: images alone are scanned
ScansImages(file) == mdKey.scanner /\ file.kind = "image"
Scans(file) == mdKey.scanner /\ file.kind # "video"

At(c, at) == mdConfirm' = [mdConfirm EXCEPT ![c] = [at |-> at, same |-> TRUE]]
Answers(c) == mdConfirm' = [mdConfirm EXCEPT ![c] = NULL]

\* getRange of the first bytes; there must be an object.
ConfirmReadsHead(c) ==
    /\ mdConfirm[c] = NULL /\ mdKey # NoKey /\ mdObject # NULL
    /\ \/ ~Accepts(mdObject) /\ At(c, "reject") /\ UNCHANGED mdConfirmed
       \/ Accepts(mdObject) /\ Scans(mdObject) /\ At(c, "scan") /\ UNCHANGED mdConfirmed
       \/ Accepts(mdObject) /\ ~Scans(mdObject) /\ mdConfirmed' = TRUE
          /\ UNCHANGED mdConfirm
    /\ UNCHANGED <<mdKey, mdOpen, mdObject, mdPut, mdMissed, mdAnother>>

\* getFull and scanBuffer. The scanner may be down, or slow.
ConfirmScans(c) ==
    /\ mdConfirm[c] # NULL /\ mdConfirm[c].at = "scan" /\ mdObject # NULL
    /\ \E answers \in BOOLEAN :
         /\ mdMissed' = (mdMissed \/ ~answers)
         /\ IF answers /\ mdObject.infected
            THEN /\ mdConfirm' = [mdConfirm EXCEPT ![c].at = "reject"]
                 /\ UNCHANGED mdConfirmed
            ELSE /\ Answers(c)
                 /\ mdConfirmed' = (mdConfirmed \/ mdConfirm[c].same)
    /\ UNCHANGED <<mdKey, mdOpen, mdObject, mdPut, mdAnother>>

\* The object has gone, or storage fails.
ConfirmFails(c) ==
    /\ mdConfirm[c] # NULL
    /\ Answers(c)
    /\ UNCHANGED <<mdKey, mdOpen, mdObject, mdPut, mdConfirmed, mdMissed, mdAnother>>

\* deleteObject, which does not fail when there is none.
ConfirmDeletes(c) ==
    /\ mdConfirm[c] # NULL /\ mdConfirm[c].at = "reject"
    /\ mdObject' = NULL
    /\ Answers(c)
    /\ mdAnother' = (mdAnother \/ ~mdConfirm[c].same)
    /\ UNCHANGED <<mdKey, mdOpen, mdPut, mdConfirmed, mdMissed>>

MediaNext ==
    \/ \E category \in UploadCategories, declared \in FileKinds,
          local, scanner \in BOOLEAN : Presign(category, declared, local, scanner)
    \/ Expire
    \/ \E file \in File : PutBegins(file)
    \/ PutFlows \/ PutEnds \/ PutBreaks
    \/ \E c \in Confirms :
         ConfirmReadsHead(c) \/ ConfirmScans(c) \/ ConfirmFails(c) \/ ConfirmDeletes(c)

MediaSpec == MediaInit /\ [][MediaNext]_mediaVars

-----------------------------------------------------------------------------
(* Properties.                                                             *)

\* A file that was confirmed, and not put again since, is there, is of a kind of its
\* category, and the scanner found nothing in it, unless it did not answer. It may be
\* gone if a confirmation that had looked at an earlier one deleted it.
ConfirmedIsChecked ==
    mdConfirmed =>
      \/ mdObject = NULL /\ (mdAnother \/ mdMissed)
      \/ /\ mdObject # NULL /\ mdObject.kind \in Categories[mdKey.category]
         /\ mdObject.infected /\ mdKey.scanner /\ mdObject.kind # "video" => mdMissed
=============================================================================

---------------------------------- MODULE Media ----------------------------------
(***************************************************************************)
(* Assets: a row in the database and a file in MinIO or on the local disk  *)
(* (services/media.py, core/file_validator.py, api/v1/media.py), as one    *)
(* session sees them.  A process decides once whether it has MinIO; after  *)
(* a restart the answer may be another, while the rows say where each file *)
(* was put.  MinIO and the database may fail at any call.                  *)
(***************************************************************************)
EXTENDS TenantRows

CONSTANTS
    Allowed,        \* MIME types of the whitelist
    SizeLimit,      \* DEFAULT_SIZE_LIMITS
    MaxMedia, MaxSize, MaxFiles    \* bounds

Majors == {"image", "video", "audio", "text", "application"}

\* A MIME type: its major part and whether it names a document format.
MimeType == [major : Majors, document : BOOLEAN]
Unknown == [major |-> "none", document |-> FALSE]
Categories == {"image", "video", "audio", "document", "other"}
Backends == {"minio", "local"}

ASSUME MediaAssumption ==
    /\ Allowed \subseteq MimeType
    /\ SizeLimit \in [Categories -> Nat]
    /\ {MaxMedia, MaxSize, MaxFiles} \subseteq Nat

VARIABLES
    media,          \* rows of assets
    files,          \* what each backend stores; a file's name is never used again
    named,          \* names used
    minio,          \* whether this process has a MinIO client
    thumbnails      \* assets with a thumbnail on the disk

mediaVars == <<media, files, named, minio, thumbnails>>

MediaAsset == [tenant : Tenants, deleted : BOOLEAN, backend : Backends,
    file : 1 .. MaxFiles, mime : MimeType, size : 1 .. MaxSize, category : Categories,
    halved : BOOLEAN]   \* history: a deletion has removed the file and failed then

MediaTypeOK ==
    /\ media \in Seq(MediaAsset) /\ Len(media) <= MaxMedia
    /\ files \in [Backends -> SUBSET (1 .. MaxFiles)] /\ named \in 0 .. MaxFiles
    /\ minio \in BOOLEAN
    /\ thumbnails \subseteq DOMAIN media

MediaInit ==
    /\ media = <<>> /\ files = [b \in Backends |-> {}] /\ named = 0
    /\ minio = TRUE /\ thumbnails = {}

-----------------------------------------------------------------------------
\* get_file_category.
FileCategory(mime) ==
    CASE mime.major \in {"image", "video", "audio"} -> mime.major
      [] mime.major = "text" \/ mime.document -> "document"
      [] OTHER -> "other"

\* verify_extension: texts need not agree, what is unknown agrees with all.
VerifyExtension(extension, mime) ==
    \/ extension \in {Unknown, mime}
    \/ extension.major = "text" /\ mime.major = "text"

\* validate_file: what the first bytes show, else what the extension says.
DetectedMime(upload) == IF upload.magic = Unknown THEN upload.extension ELSE upload.magic
ValidateFile(upload) == LET mime == DetectedMime(upload) IN
    /\ upload.size \in 1 .. SizeLimit[FileCategory(mime)]
    /\ mime \in Allowed
    /\ VerifyExtension(upload.extension, mime)

\* What may be uploaded, and what the validation lets through.
Uploads == [size : 0 .. MaxSize, magic : MimeType \cup {Unknown}, extension : MimeType \cup {Unknown}]
Accepted == {upload \in Uploads : ValidateFile(upload)}

Backend == IF minio THEN "minio" ELSE "local"
Stored(b, f) == files' = [files EXCEPT ![b] = @ \cup {f}]

\* Mutant: the row says "local" wherever the file is.
LocalRow(t, upload, b, f) == Inserted(media, [tenant |-> t, deleted |-> FALSE, backend |-> "local",
    file |-> f, mime |-> DetectedMime(upload), size |-> upload.size,
    category |-> FileCategory(DetectedMime(upload)), halved |-> FALSE])

NewAsset(t, upload, b, f) == Inserted(media, [tenant |-> t, deleted |-> FALSE, backend |-> b,
    file |-> f, mime |-> DetectedMime(upload), size |-> upload.size,
    category |-> FileCategory(DetectedMime(upload)), halved |-> FALSE])

\* upload_file puts the file under a new name and inserts the row then; without
\* the row the file stays.
UploadFile(t, upload) ==
    /\ Len(media) < MaxMedia /\ named < MaxFiles
    /\ named' = named + 1
    /\ Stored(Backend, named')
    /\ media' \in {media, NewAsset(t, upload, Backend, named')}

UploadMedia(t) == \E upload \in Accepted :
    UploadFile(t, upload) /\ UNCHANGED <<minio, thumbnails>>

\* Where a process looks for an asset: a MinIO asset is a local one to a process
\* without MinIO.
LookedFor(a) == IF media[a].backend = "minio" /\ minio THEN "minio" ELSE "local"
ReadAssetContent(a) == media[a].file \in files[LookedFor(a)]

\* _remove_from_storage: MinIO's errors are logged, the disk need not have it.
RemoveFromStorage(a) ==
    \/ files' = [files EXCEPT ![LookedFor(a)] = @ \ {media[a].file}]
    \/ LookedFor(a) = "minio" /\ UNCHANGED files

\* delete_asset removes the file first; the row may then fail to be marked.
DeleteAssetRow(t, a) ==
    /\ Gets(media, a, t)
    /\ RemoveFromStorage(a)
    /\ \/ media' = SoftDeleted(media, a)
       \/ media' = [media EXCEPT ![a].halved = TRUE]

DeleteMedia(t, a) == DeleteAssetRow(t, a) /\ UNCHANGED <<named, minio, thumbnails>>

\* get_asset_thumbnail: kept on the disk from the first time.
GetMediaThumbnail(t, a) ==
    /\ Gets(media, a, t) /\ media[a].mime.major = "image"
    /\ a \in thumbnails \/ ReadAssetContent(a)
    /\ thumbnails' = thumbnails \cup {a}
    /\ UNCHANGED <<media, files, named, minio>>

\* A restart: _get_minio_client asks again.
MediaRestart ==
    /\ minio' = ~minio
    /\ UNCHANGED <<media, files, named, thumbnails>>

\* get_download_url, and the handler that redirects a MinIO asset to it.  MinIO's
\* presigned_get_object takes a timedelta and raises on the number of seconds; the
\* other address is the handler's own.
DownloadUrl(a) == IF LookedFor(a) = "minio" THEN "error" ELSE "download"
DownloadMedia(t, a) ==
    CASE ~Gets(media, a, t) -> "not_found"
      [] Gets(media, a, t) /\ media[a].backend = "minio" -> DownloadUrl(a)
      [] OTHER -> IF ReadAssetContent(a) THEN "content" ELSE "not_found"

\* The response to a row that was read takes its attribute metadata for a dictionary,
\* and is refused: the column is meta_data, and metadata the table's own.
ListMedia(t, page, limit) == IF Page(Listed(media, t), page, limit) = {} THEN "empty" ELSE "error"
GetMedia(t, a) == IF Gets(media, a, t) THEN "error" ELSE "not_found"

-----------------------------------------------------------------------------
MediaNext ==
    \/ \E t \in Tenants :
        \/ UploadMedia(t)
        \/ \E a \in 1 .. MaxMedia : DeleteMedia(t, a) \/ GetMediaThumbnail(t, a)
    \/ MediaRestart

MediaSpec == MediaInit /\ [][MediaNext]_mediaVars

-----------------------------------------------------------------------------
\* The two stores agree: the file of an asset that get finds is in the backend
\* that its row names, whatever the process has been restarted with, unless a
\* deletion of it went half the way; and no file has two rows.
FilesFollowRows ==
    /\ \A a \in NotDeleted(media) : ~media[a].halved => media[a].file \in files[media[a].backend]
    /\ \A a, b \in DOMAIN media : media[a].file = media[b].file => a = b

\* What a reader sees: list and get refuse the same assets.  Of those that no deletion
\* has touched, the ones on the disk can be downloaded, whatever the process has been
\* restarted with; the ones in MinIO never, although a process with MinIO reads them
\* for their thumbnails.
MediaViewsAgree == \A t \in Tenants :
    /\ (\A p \in 1 .. MaxMedia : ListMedia(t, p, 1) = "empty")
        <=> (\A a \in DOMAIN media : GetMedia(t, a) = "not_found")
    /\ \A a \in {d \in DOMAIN media : Gets(media, d, t) /\ ~media[d].halved} :
        /\ DownloadMedia(t, a) = "content" <=> media[a].backend = "local"
        /\ media[a].backend = "minio" /\ minio => ReadAssetContent(a)
=============================================================================

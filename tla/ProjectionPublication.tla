------------------------ MODULE ProjectionPublication -----------------------
(***************************************************************************)
(* The directory that holds the projection database                        *)
(* (evidence/projection_publication.py): the main file, a temporary one     *)
(* beside it, and the SQLite sidecars of each.  A new image is made in the  *)
(* temporary file, synced, and then linked or renamed to the main name.     *)
(*                                                                         *)
(* A file is [kind, rows]; linked says that both names are one inode.       *)
(***************************************************************************)
EXTENDS ProjectionRows

NoFile == [kind |-> "none", rows |-> EmptyImage]
V1File == [kind |-> "v1", rows |-> EmptyImage]
V2File(rows) == [kind |-> "v2", rows |-> rows]
PartialFile == [kind |-> "partial", rows |-> EmptyImage]

EmptyDirectory ==
    [main |-> NoFile, wal |-> FALSE, temp |-> NoFile, tempWal |-> FALSE, linked |-> FALSE]

\* _classify_projection_image_locked.  A main file with a sidecar is nothing
\* the classification knows.
ImageState(dir) ==
    IF dir.wal THEN "unknown"
    ELSE IF dir.main.kind = "none" THEN "new"
    ELSE dir.main.kind

\* _create_temp, then the stage copied into it over a connection of its own.
WithTemp(dir) == [dir EXCEPT !.temp = PartialFile, !.tempWal = TRUE]
Copied(dir, rows) == [dir EXCEPT !.temp = V2File(rows)]

\* _prepare_staged_replay_for_publication: checkpoint and close.
Prepared(dir) == [dir EXCEPT !.tempWal = FALSE]

\* _publish_link: where no main file was, the two names are one inode until
\* the temporary name is removed.
Linked(dir) == [dir EXCEPT !.main = dir.temp, !.linked = TRUE]
Unlinked(dir) == [dir EXCEPT !.temp = NoFile, !.linked = FALSE]

\* _publish_replace and the rename of a rebuild.
Replaced(dir) == [dir EXCEPT !.main = dir.temp, !.temp = NoFile]

\* _cleanup_prearm_temp, after the stage's connection was closed: a temporary
\* file that cannot be proved the own one, or whose sidecars hold something,
\* is left where it is.
WithoutTemp(dir) == [dir EXCEPT !.temp = NoFile, !.tempWal = FALSE]
PrearmOutcomes(dir) == {dir, WithoutTemp(dir)}

\* _recover_v2_publication_locked: a linked publication is finished, any
\* other is taken back.
Recovered(dir) == [WithoutTemp(dir) EXCEPT !.linked = FALSE]

Opened(dir) == [dir EXCEPT !.wal = TRUE]
CleanlyClosed(dir) == [dir EXCEPT !.wal = FALSE]

=============================================================================

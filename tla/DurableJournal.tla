--------------------------- MODULE DurableJournal ---------------------------
(***************************************************************************)
(* The locked append-only journal of internal/durablefile: the files that   *)
(* may carry its name, the lock on each of them, the processes that open,   *)
(* append, checkpoint and close, and a client that reads it page by page    *)
(* against a pinned snapshot.  A frame stands for its hash, and a hash for  *)
(* the chain of payloads it commits to.  An fsync that succeeds is taken to *)
(* make the whole file durable; without one, a power loss keeps a prefix.   *)
(***************************************************************************)
EXTENDS Integers, Sequences

CONSTANTS
    Procs, NoProc,      \* processes that may open the journal
    Inodes, NoInode,    \* files that may carry its name
    Payloads, Weight,   \* payloads and their bytes
    MaxFrames,          \* bound on the frames of a file
    Limit,              \* JournalPageRequest.Limit
    MaxPageBytes        \* JournalPageRequest.MaxPagePayloadBytes

ASSUME JournalConstants ==
    /\ NoProc \notin Procs /\ NoInode \notin Inodes
    /\ "torn" \notin Payloads /\ Weight \in [Payloads -> Nat]
    /\ {MaxFrames, Limit} \subseteq Nat \ {0} /\ MaxPageBytes \in Nat

VARIABLES
    name,            \* the file the path names
    names,           \* the files it may name after a power loss
    file,            \* the frames of each file, the torn one included
    safe,            \* how many of them a power loss cannot take
    owner,           \* holder of each file's lock
    pc, fd, spare,   \* step of each process, its file, a checkpoint's second file
    index, failed,   \* frameIndex and failed of its Journal
    reader,          \* the client: its snapshot and the payloads it has
    acked, swapped   \* history: last frame reported durable, unreported checkpoint

disk == <<name, names, file, safe>>
proc == <<pc, fd, spare, index, failed>>
vars == <<disk, owner, proc, reader, acked, swapped>>

\* An incomplete final frame.
Torn == <<"torn">>

Reading == [on : BOOLEAN, count : 0..MaxFrames, head : Seq(Payloads), got : Seq(Payloads)]
NotReading == [on |-> FALSE, count |-> 0, head |-> <<>>, got |-> <<>>]

Init ==
    /\ name = NoInode /\ names = {NoInode}
    /\ file = [i \in Inodes |-> <<>>] /\ safe = [i \in Inodes |-> 0]
    /\ owner = [i \in Inodes |-> NoProc]
    /\ pc = [p \in Procs |-> "down"] /\ fd = [p \in Procs |-> NoInode] /\ spare = fd
    /\ index = [p \in Procs |-> <<>>] /\ failed = [p \in Procs |-> FALSE]
    /\ reader = NotReading
    /\ acked = <<>> /\ swapped = NoInode

\* The hash of the last frame: zero, the empty chain, if there is none.
HeadOf(frames) == IF frames = <<>> THEN <<>> ELSE frames[Len(frames)]

\* DecodeFrame accepts frame k: it is complete and names the hash before it.
Decodes(frames, k) ==
    /\ frames[k] # Torn /\ frames[k] # <<>>
    /\ SubSeq(frames[k], 1, Len(frames[k]) - 1) = HeadOf(SubSeq(frames, 1, k - 1))

\* The scan of recoverLocked: a torn frame is repairable only at the end.
HasTornTail(frames) == frames # <<>> /\ HeadOf(frames) = Torn
Complete(frames) == IF HasTornTail(frames) THEN SubSeq(frames, 1, Len(frames) - 1) ELSE frames
Corrupt(frames) == \E k \in 1..Len(Complete(frames)) : ~Decodes(frames, k)

\* A file nothing refers to: createExclusiveTemp and O_CREAT may be given it.
Unused(i) ==
    /\ i \notin names \cup {name}
    /\ \A p \in Procs : fd[p] # i /\ spare[p] # i

-----------------------------------------------------------------------------
(* openLockedRegular and newJournal.                                        *)

\* The process ends, or gives up opening: its locks go with its descriptors.
Release(p) ==
    /\ owner' = [i \in Inodes |-> IF owner[i] = p THEN NoProc ELSE owner[i]]
    /\ pc' = [pc EXCEPT ![p] = "down"]
    /\ fd' = [fd EXCEPT ![p] = NoInode] /\ spare' = [spare EXCEPT ![p] = NoInode]
    /\ index' = [index EXCEPT ![p] = <<>>] /\ failed' = [failed EXCEPT ![p] = FALSE]

OpenPath(p) ==
    /\ pc[p] = "down"
    /\ pc' = [pc EXCEPT ![p] = "opened"]
    /\ \/ /\ name # NoInode
          /\ fd' = [fd EXCEPT ![p] = name]
          /\ UNCHANGED disk
       \/ /\ name = NoInode
          /\ \E i \in Inodes :
                /\ Unused(i)
                /\ name' = i /\ names' = names \cup {i}
                /\ file' = [file EXCEPT ![i] = <<>>] /\ safe' = [safe EXCEPT ![i] = 0]
                /\ fd' = [fd EXCEPT ![p] = i]
    /\ UNCHANGED <<owner, spare, index, failed, reader, acked, swapped>>

Flock(p) ==
    /\ pc[p] = "opened"
    /\ \/ /\ owner[fd[p]] = NoProc
          /\ owner' = [owner EXCEPT ![fd[p]] = p]
          /\ pc' = [pc EXCEPT ![p] = "flocked"]
          /\ UNCHANGED <<fd, spare, index, failed>>
       \/ owner[fd[p]] # NoProc /\ Release(p)
    /\ UNCHANGED <<disk, reader, acked, swapped>>

\* Mutation: the path is not compared again once the lock is held.
CheckIdentityTrusting(p) ==
    /\ pc[p] = "flocked"
    /\ pc' = [pc EXCEPT ![p] = "locked"]
    /\ UNCHANGED <<disk, owner, fd, spare, index, failed, reader, acked, swapped>>

\* The path must still name the file that is now locked.
CheckIdentity(p) ==
    /\ pc[p] = "flocked"
    /\ \/ /\ name = fd[p]
          /\ pc' = [pc EXCEPT ![p] = "locked"]
          /\ UNCHANGED <<owner, fd, spare, index, failed>>
       \/ name # fd[p] /\ Release(p)
    /\ UNCHANGED <<disk, reader, acked, swapped>>

\* Mutation: the file is scanned without being synced first.
SyncOpenedNot(p) ==
    /\ pc[p] = "locked"
    /\ names' = {fd[p]}
    /\ pc' = [pc EXCEPT ![p] = "synced"]
    /\ UNCHANGED <<name, file, safe, owner, fd, spare, index, failed, reader, acked, swapped>>

\* The file, then its directory; either may fail.
SyncOpened(p) ==
    /\ pc[p] = "locked"
    /\ \/ /\ safe' = [safe EXCEPT ![fd[p]] = Len(file[fd[p]])]
          /\ \/ /\ names' = {fd[p]}
                /\ pc' = [pc EXCEPT ![p] = "synced"]
                /\ UNCHANGED <<owner, fd, spare, index, failed>>
             \/ Release(p) /\ UNCHANGED names
       \/ Release(p) /\ UNCHANGED <<safe, names>>
    /\ UNCHANGED <<name, file, reader, acked, swapped>>

\* recoverLocked: a torn tail is cut off once the caller's intent is recorded.
RecoverLocked(p) ==
    LET frames == Complete(file[fd[p]])
    IN  /\ pc[p] = "synced"
        /\ \/ /\ HasTornTail(file[fd[p]]) \/ Corrupt(file[fd[p]])
              /\ Release(p) /\ UNCHANGED <<file, safe, acked, swapped>>
           \/ /\ ~Corrupt(file[fd[p]])
              /\ file' = [file EXCEPT ![fd[p]] = frames]
              /\ safe' = [safe EXCEPT ![fd[p]] = IF @ < Len(frames) THEN @ ELSE Len(frames)]
              /\ index' = [index EXCEPT ![p] = frames]
              /\ acked' = HeadOf(frames) /\ swapped' = NoInode
              /\ pc' = [pc EXCEPT ![p] = "open"]
              /\ UNCHANGED <<owner, fd, spare, failed>>
        /\ UNCHANGED <<name, names, reader>>

Close(p) ==
    /\ pc[p] = "open"
    /\ Release(p)
    /\ UNCHANGED <<disk, reader, acked, swapped>>

-----------------------------------------------------------------------------
(* Append and Checkpoint, both under the journal's mutex.                   *)

Writable(p) == pc[p] = "open" /\ ~failed[p]

Grown(p, frame) == file' = [file EXCEPT ![fd[p]] = Append(@, frame)]

\* Nothing, a part or all of the frame was written, or its sync failed.
AppendFails(p, frame) ==
    /\ failed' = [failed EXCEPT ![p] = TRUE]
    /\ Grown(p, Torn) \/ Grown(p, frame) \/ UNCHANGED file
    /\ UNCHANGED <<safe, index, acked>>

AppendSucceeds(p, frame, critical) ==
    /\ Grown(p, frame)
    /\ index' = [index EXCEPT ![p] = Append(@, frame)]
    /\ \/ critical /\ safe' = [safe EXCEPT ![fd[p]] = Len(file'[fd[p]])] /\ acked' = frame
       \/ ~critical /\ UNCHANGED <<safe, acked>>
    /\ UNCHANGED failed

AppendFrame(p, payload, critical) ==
    LET frame == Append(HeadOf(index[p]), payload)
    IN  /\ Writable(p) /\ Len(index[p]) < MaxFrames
        /\ AppendFails(p, frame) \/ AppendSucceeds(p, frame, critical)
        /\ UNCHANGED <<name, names, owner, pc, fd, spare, reader, swapped>>

\* A synced and locked temporary file with the one frame.
CheckpointWrite(p, payload) ==
    /\ Writable(p)
    /\ \E i \in Inodes :
          /\ Unused(i)
          /\ file' = [file EXCEPT ![i] = <<<<payload>>>>] /\ safe' = [safe EXCEPT ![i] = 1]
          /\ owner' = [owner EXCEPT ![i] = p]
          /\ spare' = [spare EXCEPT ![p] = i]
    /\ pc' = [pc EXCEPT ![p] = "publish"]
    /\ UNCHANGED <<name, names, fd, index, failed, reader, acked, swapped>>

\* The rename, and the Journal that now works on the new file; or the temporary
\* file is removed again.
CheckpointRename(p) ==
    /\ pc[p] = "publish"
    /\ \/ /\ name' = spare[p] /\ names' = names \cup {spare[p]}
          /\ fd' = [fd EXCEPT ![p] = spare[p]] /\ spare' = [spare EXCEPT ![p] = fd[p]]
          /\ index' = [index EXCEPT ![p] = file[spare[p]]]
          /\ swapped' = spare[p]
          /\ pc' = [pc EXCEPT ![p] = "published"]
          /\ UNCHANGED owner
       \/ /\ owner' = [owner EXCEPT ![spare[p]] = NoProc]
          /\ spare' = [spare EXCEPT ![p] = NoInode]
          /\ pc' = [pc EXCEPT ![p] = "open"]
          /\ UNCHANGED <<name, names, fd, index, swapped>>
    /\ UNCHANGED <<file, safe, failed, reader, acked>>

\* The old file is unlocked and the directory synced; if that fails, so has the journal.
CheckpointFinish(p) ==
    /\ pc[p] = "published"
    /\ owner' = [owner EXCEPT ![spare[p]] = NoProc]
    /\ spare' = [spare EXCEPT ![p] = NoInode]
    /\ pc' = [pc EXCEPT ![p] = "open"]
    /\ \/ /\ names' = {fd[p]}
          /\ acked' = HeadOf(index[p]) /\ swapped' = NoInode
          /\ UNCHANGED failed
       \/ /\ failed' = [failed EXCEPT ![p] = TRUE]
          /\ names' \in {names, {fd[p]}}
          /\ UNCHANGED <<acked, swapped>>
    /\ UNCHANGED <<name, file, safe, fd, index, reader>>

-----------------------------------------------------------------------------
(* ReadPage, for a client that pins the head it saw with its first page.    *)

\* Mutation: only the length of the snapshot is compared.
ValidSnapshotByCount(p, count, head) == count <= Len(index[p])

ValidSnapshot(p, count, head) ==
    /\ count = 0 => head = <<>>
    /\ count > 0 => count <= Len(index[p]) /\ index[p][count] = head

\* How many of the frames after the cursor fit into one page: as many as the limits allow.
PageLengths(frames, after, count) ==
    LET most == IF count - after < Limit THEN count - after ELSE Limit
        bytes[k \in 0..most] ==
            IF k = 0 THEN 0 ELSE bytes[k - 1] + Weight[HeadOf(frames[after + k])]
    IN  {k \in 0..most : bytes[k] <= MaxPageBytes /\ (k < most => bytes[k + 1] > MaxPageBytes)}

ReadPage(p) ==
    LET count == IF reader.on THEN reader.count ELSE Len(index[p])
        head == IF reader.on THEN reader.head ELSE HeadOf(index[p])
        after == Len(reader.got)
        page(length) == [k \in 1..length |-> HeadOf(file[fd[p]][after + k])]
    IN  /\ Writable(p)
        /\ \/ /\ ValidSnapshot(p, count, head)
              /\ \E length \in PageLengths(index[p], after, count) :
                    /\ length = 0 => after = count
                    /\ reader' = [on |-> TRUE, count |-> count, head |-> head,
                                  got |-> reader.got \o page(length)]
           \/ ~ValidSnapshot(p, count, head) /\ reader' = NotReading
        /\ UNCHANGED <<disk, owner, proc, acked, swapped>>

\* The client is done, or starts over.
StopReading ==
    /\ reader.on
    /\ reader' = NotReading
    /\ UNCHANGED <<disk, owner, proc, acked, swapped>>

-----------------------------------------------------------------------------
(* Failures of a process and of the host.                                   *)

Crash(p) ==
    /\ pc[p] # "down"
    /\ Release(p)
    /\ UNCHANGED <<disk, reader, acked, swapped>>

\* What a power loss may leave of a file: a prefix with at least its durable frames,
\* the last of them possibly cut.
Remains(frames, durable) ==
    {SubSeq(frames, 1, k) : k \in durable..Len(frames)}
        \cup {Append(SubSeq(frames, 1, k), Torn) : k \in durable..(Len(frames) - 1)}

PowerLoss ==
    /\ \E i \in names :
          /\ name' = i /\ names' = {i}
          /\ \/ i = NoInode /\ file' = [j \in Inodes |-> <<>>]
             \/ /\ i # NoInode
                /\ \E left \in Remains(file[i], safe[i]) :
                      file' = [j \in Inodes |-> IF j = i THEN left ELSE <<>>]
    /\ safe' = [i \in Inodes |-> Len(file'[i])]
    /\ owner' = [i \in Inodes |-> NoProc]
    /\ pc' = [p \in Procs |-> "down"]
    /\ fd' = [p \in Procs |-> NoInode] /\ spare' = fd'
    /\ index' = [p \in Procs |-> <<>>] /\ failed' = [p \in Procs |-> FALSE]
    /\ UNCHANGED <<reader, acked, swapped>>

Next ==
    \/ \E p \in Procs :
          \/ OpenPath(p) \/ Flock(p) \/ CheckIdentity(p) \/ SyncOpened(p) \/ RecoverLocked(p)
          \/ Close(p)
          \/ \E payload \in Payloads :
                (\E critical \in BOOLEAN : AppendFrame(p, payload, critical)) \/ CheckpointWrite(p, payload)
          \/ CheckpointRename(p) \/ CheckpointFinish(p)
          \/ ReadPage(p) \/ Crash(p)
    \/ StopReading
    \/ PowerLoss

Spec == Init /\ [][Next]_vars

-----------------------------------------------------------------------------
(* Properties.                                                              *)

\* Every variable keeps its type.
TypeOK ==
    /\ name \in Inodes \cup {NoInode} /\ names \subseteq Inodes \cup {NoInode}
    /\ file \in [Inodes -> Seq(Seq(Payloads) \cup {Torn})]
    /\ safe \in [Inodes -> 0..MaxFrames]
    /\ owner \in [Inodes -> Procs \cup {NoProc}]
    /\ pc \in [Procs -> {"down", "opened", "flocked", "locked", "synced", "open",
                          "publish", "published"}]
    /\ {fd, spare} \subseteq [Procs -> Inodes \cup {NoInode}]
    /\ index \in [Procs -> Seq(Seq(Payloads))] /\ failed \in [Procs -> BOOLEAN]
    /\ reader \in Reading
    /\ acked \in Seq(Payloads) /\ swapped \in Inodes \cup {NoInode}

\* At most one process works on the journal, and the file it works on is the one the
\* path names: openLockedRegular never lets a second process append, neither to the
\* published file nor to one that a checkpoint has just replaced.
SoleWriter ==
    \A p \in Procs : pc[p] \in {"locked", "synced", "open", "publish", "published"} =>
        /\ fd[p] = name
        /\ owner[fd[p]] = p

\* What a caller was told is durable survives every power loss: each file that the
\* path may then name holds the last acknowledged frame among its durable ones, except
\* the single frame of a checkpoint that was published and never reported.
AckedSurvives ==
    \A i \in names :
        \/ acked = <<>>
        \/ i # NoInode /\ i = swapped /\ safe[i] > 0
        \/ i # NoInode /\ \E k \in 1..safe[i] : file[i][k] = acked

\* No crash, failed append or power loss leaves a file that recovery calls corrupt:
\* only a final frame is ever incomplete.
NeverCorrupt == \A i \in Inodes : ~Corrupt(file[i])

\* ReadPage of a working journal never reports ErrJournalCorrupt: the index and the
\* file agree frame by frame.
IndexMatchesFile == \A p \in Procs : Writable(p) => index[p] = file[fd[p]]

\* The pages of one snapshot, read across appends, checkpoints, restarts and power
\* losses, are the frames the pinned head commits to, in order and without a gap.
PagesReassemble ==
    reader.on =>
        /\ Len(reader.head) = reader.count
        /\ reader.got = SubSeq(reader.head, 1, Len(reader.got))
=============================================================================

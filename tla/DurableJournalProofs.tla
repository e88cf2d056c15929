------------------------ MODULE DurableJournalProofs ------------------------
(***************************************************************************)
(* What the locked journal guarantees, for any number of processes, files,   *)
(* payloads and frames.  The argument rests on three facts about a state:    *)
(* who holds which lock, what each file may hold (a chain of frames, the     *)
(* last of them possibly torn), and what a process at each step of open,     *)
(* append and checkpoint knows of the file it works on.                      *)
(***************************************************************************)
EXTENDS DurableJournal, TLAPS

\* SMT, then Zenon, with time to spare on a slow machine.
USE SMTT(30), ZenonT(20)

-----------------------------------------------------------------------------
(* The inductive invariant.                                                 *)

Working == {"locked", "synced", "open", "publish", "published"}
Swapping == {"publish", "published"}

\* A process that has locked a file holds its lock; the file it works on is the one the
\* path names; the two files of a checkpoint are both locked.
Holds(p) ==
    /\ pc[p] # "down" => fd[p] \in Inodes
    /\ pc[p] \in Working \cup {"flocked"} => owner[fd[p]] = p
    /\ pc[p] \in Working => fd[p] = name
    /\ pc[p] \in Swapping => spare[p] \in Inodes /\ spare[p] # fd[p] /\ owner[spare[p]] = p
LockOK == \A p \in Procs : Holds(p)

\* Frame k names the k payloads of the frames up to it.
Chained(frames, k) ==
    /\ frames[k] \in Seq(Payloads) /\ Len(frames[k]) = k
    /\ \A j \in 1..k : \A m \in 1..j : frames[j][m] = frames[k][m]

\* The frames of a file are chained, and only the last may be torn.
Sound(frames) ==
    \A k \in 1..Len(frames) : Chained(frames, k) \/ (k = Len(frames) /\ frames[k] = Torn)

DiskOK ==
    /\ name \in names
    /\ \A i \in Inodes : Sound(file[i]) /\ safe[i] <= Len(file[i]) /\ Len(file[i]) <= MaxFrames

\* What a process knows of the file it works on: when nothing else can be found under
\* the name after a power loss, and when its index is the file.
Trusted(p) == pc[p] \in {"open", "publish"} /\ ~failed[p]
Knows(p) ==
    /\ pc[p] = "synced" => names = {name} /\ safe[name] = Len(file[name])
    /\ pc[p] \in Swapping => ~failed[p]
    /\ Trusted(p) => names = {name} /\ swapped = NoInode /\ index[p] = file[name]
    /\ pc[p] = "publish" =>
          /\ safe[spare[p]] = 1 /\ Len(file[spare[p]]) = 1
          /\ file[spare[p]] \in Seq(Seq(Payloads))
    /\ pc[p] = "published" => index[p] = file[name] /\ Len(index[p]) = 1 /\ safe[name] = 1
WorkOK == \A p \in Procs : Knows(p)

\* The pages so far are the first payloads of the chain the pinned head commits to.
ReaderOK ==
    /\ ~reader.on => reader = NotReading
    /\ reader.on =>
        /\ Len(reader.head) = reader.count /\ Len(reader.got) <= reader.count
        /\ reader.count <= MaxFrames
        /\ \A m \in 1..Len(reader.got) : reader.got[m] = reader.head[m]

Frames == Seq(Payloads) \cup {Torn}
DiskType ==
    /\ name \in Inodes \cup {NoInode} /\ names \subseteq Inodes \cup {NoInode}
    /\ file \in [Inodes -> Seq(Frames)] /\ safe \in [Inodes -> Nat]
LockType ==
    /\ owner \in [Inodes -> Procs \cup {NoProc}]
    /\ pc \in [Procs -> {"down", "opened", "flocked", "locked", "synced", "open",
                          "publish", "published"}]
    /\ fd \in [Procs -> Inodes \cup {NoInode}] /\ spare \in [Procs -> Inodes \cup {NoInode}]
WorkType == index \in [Procs -> Seq(Seq(Payloads))] /\ failed \in [Procs -> BOOLEAN]
HistoryType == acked \in Seq(Payloads) /\ swapped \in Inodes \cup {NoInode}
ReaderType ==
    reader \in [on : BOOLEAN, count : Nat, head : Seq(Payloads), got : Seq(Payloads)]
Types == DiskType /\ LockType /\ WorkType /\ HistoryType /\ ReaderType

IInv == Types /\ LockOK /\ DiskOK /\ WorkOK /\ AckedSurvives /\ ReaderOK

-----------------------------------------------------------------------------
(* Files.                                                                   *)

\* A torn frame is not a chain of payloads.
LEMMA TornIsNot == Torn \notin Seq(Payloads)
  BY JournalConstants DEF Torn

\* An empty file and the file of a checkpoint.
LEMMA SoundNew ==
    /\ <<>> \in Seq(Frames) /\ Sound(<<>>) /\ Len(<<>>) = 0
    /\ \A x \in Payloads :
          /\ <<<<x>>>> \in Seq(Frames) /\ Sound(<<<<x>>>>) /\ Len(<<<<x>>>>) = 1
          /\ <<<<x>>>> \in Seq(Seq(Payloads))
<1>1. <<>> \in Seq(Frames) /\ Sound(<<>>) /\ Len(<<>>) = 0 BY DEF Sound
<1>2. ASSUME NEW x \in Payloads
      PROVE /\ <<<<x>>>> \in Seq(Frames) /\ Sound(<<<<x>>>>) /\ Len(<<<<x>>>>) = 1
            /\ <<<<x>>>> \in Seq(Seq(Payloads))
  <2>1. <<x>> \in Seq(Payloads) /\ Len(<<x>>) = 1 OBVIOUS
  <2>2. <<<<x>>>> \in Seq(Seq(Payloads)) /\ <<<<x>>>> \in Seq(Frames) BY <2>1 DEF Frames
  <2>3. Chained(<<<<x>>>>, 1) BY <2>1 DEF Chained
  <2>. QED BY <2>2, <2>3 DEF Sound
<1>. QED BY <1>1, <1>2

\* A frame appended to a file that ends with a chain.
LEMMA SoundGrown ==
    ASSUME NEW s \in Seq(Seq(Payloads)), Sound(s), NEW x \in Payloads
    PROVE  LET f == Append(HeadOf(s), x)
           IN  /\ f \in Seq(Payloads) /\ f \in Frames
               /\ Append(s, f) \in Seq(Seq(Payloads)) /\ Append(s, f) \in Seq(Frames)
               /\ Sound(Append(s, f))
               /\ Append(s, Torn) \in Seq(Frames) /\ Sound(Append(s, Torn))
<1>. DEFINE f == Append(HeadOf(s), x)
<1>1. \A k \in 1..Len(s) : s[k] # Torn /\ Chained(s, k) BY TornIsNot DEF Sound
<1>2. f \in Seq(Payloads) /\ Len(f) = Len(s) + 1
  <2>1. CASE s = <<>> BY <2>1 DEF HeadOf
  <2>2. CASE s # <<>>
    <3>1. Len(s) \in 1..Len(s) BY <2>2
    <3>. QED BY <2>2, <3>1, <1>1 DEF HeadOf, Chained
  <2>. QED BY <2>1, <2>2
<1>3. Append(s, f) \in Seq(Seq(Payloads)) /\ Append(s, f) \in Seq(Frames)
      /\ Append(s, Torn) \in Seq(Frames)
  BY <1>2 DEF Frames
<1>4. \A k \in 1..Len(s) : Chained(Append(s, f), k) /\ Chained(Append(s, Torn), k)
  BY <1>1, <1>2 DEF Chained
<1>5. Chained(Append(s, f), Len(s) + 1)
  <2>1. ASSUME NEW j \in 1..Len(s), NEW m \in 1..j PROVE s[j][m] = f[m]
    <3>1. Len(s) \in 1..Len(s) /\ s # <<>> OBVIOUS
    <3>2. s[j][m] = s[Len(s)][m] /\ Len(s[Len(s)]) = Len(s) BY <1>1, <3>1 DEF Chained
    <3>. QED BY <3>1, <3>2 DEF HeadOf
  <2>. QED BY <2>1, <1>2 DEF Chained
<1>6. Sound(Append(s, f)) BY <1>2, <1>4, <1>5 DEF Sound
<1>7. Sound(Append(s, Torn)) BY <1>4 DEF Sound
<1>. QED BY <1>2, <1>3, <1>6, <1>7 DEF Frames

\* What recovery keeps of a file, and that it finds no corruption in it.
LEMMA SoundComplete ==
    ASSUME NEW s \in Seq(Frames), Sound(s)
    PROVE  /\ Complete(s) \in Seq(Seq(Payloads)) /\ Complete(s) \in Seq(Frames)
           /\ Sound(Complete(s)) /\ Len(Complete(s)) <= Len(s)
           /\ ~Corrupt(s)
<1>. DEFINE c == Complete(s)
<1>1. /\ Len(c) \in Nat /\ Len(c) <= Len(s) /\ c \in Seq(Frames)
      /\ \A k \in 1..Len(c) : c[k] = s[k] /\ Chained(s, k)
  <2>1. CASE HasTornTail(s)
    <3>0. Len(s) \in Nat /\ Len(s) # 0 BY <2>1 DEF HasTornTail
    <3>a. PICK l : l = Len(s) BY Zenon
    <3>b. l \in Nat /\ l # 0 BY Zenon, <3>0, <3>a
    <3>1. PICK n \in 0..Len(s) : n = Len(s) - 1
      <4>1. l - 1 \in 0..l BY <3>b
      <4>. QED BY Zenon, <3>a, <4>1
    <3>2. c = SubSeq(s, 1, n) BY <2>1, <3>1 DEF Complete
    <3>3. Len(c) = n /\ c \in Seq(Frames) /\ \A k \in 1..n : c[k] = s[k] BY <3>2
    <3>. QED BY <3>1, <3>3 DEF Sound
  <2>2. CASE ~HasTornTail(s)
    <3>1. c = s BY <2>2 DEF Complete
    <3>2. Len(s) \in 1..Len(s) => s[Len(s)] # Torn BY <2>2 DEF HasTornTail, HeadOf
    <3>. QED BY <3>1, <3>2 DEF Sound
  <2>. QED BY <2>1, <2>2
<1>2. \A k \in 1..Len(c) : c[k] \in Seq(Payloads) BY <1>1 DEF Chained
<1>3. c \in Seq(Seq(Payloads)) BY <1>1, <1>2
<1>4. Sound(c) BY <1>1 DEF Sound, Chained
<1>5. ASSUME NEW k \in 1..Len(c) PROVE Decodes(s, k)
  <2>1. s[k] \in Seq(Payloads) /\ Len(s[k]) = k BY <1>1 DEF Chained
  <2>2. s[k] # Torn /\ s[k] # <<>> BY <2>1, TornIsNot
  <2>3. CASE k = 1 BY <2>1, <2>2, <2>3 DEF Decodes, HeadOf
  <2>4. CASE k # 1
    <3>1. k - 1 \in 1..Len(c) BY <2>4
    <3>2. s[k - 1] \in Seq(Payloads) /\ Len(s[k - 1]) = k - 1 BY <1>1, <3>1 DEF Chained
    <3>3. \A m \in 1..(k - 1) : s[k - 1][m] = s[k][m] BY <1>1, <3>1 DEF Chained
    <3>4. SubSeq(s[k], 1, k - 1) = s[k - 1] BY <2>1, <3>1, <3>2, <3>3
    <3>5. HeadOf(SubSeq(s, 1, k - 1)) = s[k - 1] BY <1>1, <3>1 DEF HeadOf
    <3>. QED BY <2>1, <2>2, <3>4, <3>5 DEF Decodes
  <2>. QED BY <2>3, <2>4
<1>. QED BY <1>1, <1>3, <1>4, <1>5 DEF Corrupt

\* What a power loss leaves of a file.
LEMMA SoundRemains ==
    ASSUME NEW s \in Seq(Frames), Sound(s), NEW d \in 0..Len(s), NEW left \in Remains(s, d)
    PROVE  /\ left \in Seq(Frames) /\ Sound(left)
           /\ d <= Len(left) /\ Len(left) <= Len(s)
           /\ \A k \in 1..d : left[k] = s[k]
<1>1. CASE \E k \in d..Len(s) : left = SubSeq(s, 1, k)
  <2>1. PICK k \in d..Len(s) : left = SubSeq(s, 1, k) BY <1>1
  <2>2. Len(left) = k /\ left \in Seq(Frames) /\ \A m \in 1..k : left[m] = s[m] BY <2>1
  <2>. QED BY <2>1, <2>2 DEF Sound, Chained
<1>2. CASE \E k \in d..(Len(s) - 1) : left = Append(SubSeq(s, 1, k), Torn)
  <2>1. PICK k \in d..(Len(s) - 1) : left = Append(SubSeq(s, 1, k), Torn) BY <1>2
  <2>2. /\ Len(left) = k + 1 /\ left \in Seq(Frames) /\ left[k + 1] = Torn
        /\ \A m \in 1..k : left[m] = s[m]
    BY <2>1 DEF Frames
  <2>3. \A m \in 1..k : Chained(s, m) BY <2>1 DEF Sound
  <2>. QED BY <2>1, <2>2, <2>3 DEF Sound, Chained
<1>. QED BY Zenon, <1>1, <1>2 DEF Remains

-----------------------------------------------------------------------------
(* Locks.                                                                   *)

\* At most one process works on the journal.
LEMMA OneWorks ==
    ASSUME LockOK, NEW p \in Procs, pc[p] \in Working, NEW q \in Procs, pc[q] \in Working
    PROVE  p = q
  BY DEF LockOK, Holds

\* A process that lets go of its locks leaves the others theirs.
LEMMA ReleaseLocks ==
    ASSUME LockType, LockOK, NEW p \in Procs, Release(p), UNCHANGED name
    PROVE  LockType' /\ LockOK' /\ pc'[p] = "down"
<1>1. LockType' /\ pc'[p] = "down" BY DEF Release, LockType
<1>2. Holds(p)' BY <1>1 DEF Holds, Working, Swapping
<1>3. ASSUME NEW q \in Procs, q # p PROVE Holds(q)'
  <2>1. pc'[q] = pc[q] /\ fd'[q] = fd[q] /\ spare'[q] = spare[q] BY <1>3 DEF Release, LockType
  <2>2. \A i \in Inodes : owner[i] = q => owner'[i] = q BY <1>3 DEF Release, LockType
  <2>. QED BY <2>1, <2>2 DEF LockOK, Holds, Working, Swapping
<1>. QED BY <1>1, <1>2, <1>3 DEF LockOK

\* A process that ends or gives up lets go of its own locks and of no other; a lock is
\* taken of a file nobody holds, and the path is compared once it is held.
LEMMA LockStep ==
    ASSUME Types, LockOK, [Next]_vars
    PROVE  LockType' /\ LockOK'
<1>. USE DEF disk, proc
<1>1. DiskType /\ LockType BY DEF Types
<1>2. ASSUME NEW p \in Procs, OpenPath(p) PROVE LockType' /\ LockOK'
  <2>1. pc[p] = "down" BY <1>2 DEF OpenPath
  <2>2. PICK i \in Inodes : fd' = [fd EXCEPT ![p] = i]
    BY <1>1, <1>2 DEF OpenPath, DiskType
  <2>5. fd'[p] \in Inodes /\ LockType' BY <1>1, <1>2, <2>2 DEF OpenPath, LockType
  <2>3. Holds(p)' BY <1>1, <1>2, <2>5 DEF OpenPath, Holds, Working, Swapping, LockType
  <2>4. ASSUME NEW q \in Procs, q # p PROVE Holds(q)'
    BY <1>1, <1>2, <2>4, JournalConstants DEF OpenPath, LockOK, Holds, LockType, Working
  <2>. QED BY <2>5, <2>3, <2>4 DEF LockOK
<1>3. ASSUME NEW p \in Procs, Flock(p) PROVE LockType' /\ LockOK'
  <2>1. CASE Release(p) BY <1>1, <1>3, <2>1, ReleaseLocks DEF Flock
  <2>2. CASE /\ owner[fd[p]] = NoProc /\ owner' = [owner EXCEPT ![fd[p]] = p]
             /\ pc' = [pc EXCEPT ![p] = "flocked"]
             /\ UNCHANGED <<fd, spare, index, failed>>
    <3>1. fd[p] \in Inodes BY <1>3 DEF Flock, LockOK, Holds
    <3>2. LockType' BY <1>1, <2>2, <3>1 DEF LockType
    <3>3. Holds(p)' BY <1>1, <2>2, <3>1 DEF LockType, Holds, Working, Swapping
    <3>4. ASSUME NEW q \in Procs, q # p PROVE Holds(q)'
      BY <1>1, <1>3, <2>2, <3>1, <3>4, JournalConstants DEF Flock, LockType, LockOK, Holds
    <3>. QED BY <3>2, <3>3, <3>4 DEF LockOK
  <2>. QED BY <1>3, <2>1, <2>2 DEF Flock
<1>4. ASSUME NEW p \in Procs, CheckIdentity(p) PROVE LockType' /\ LockOK'
  <2>1. CASE Release(p) BY <1>1, <1>4, <2>1, ReleaseLocks DEF CheckIdentity
  <2>2. CASE name = fd[p] /\ pc' = [pc EXCEPT ![p] = "locked"] /\ UNCHANGED <<owner, fd, spare>>
    <3>1. LockType' BY <1>1, <2>2 DEF LockType
    <3>2. Holds(p)' BY <1>1, <1>4, <2>2 DEF CheckIdentity, LockType, LockOK, Holds, Swapping
    <3>3. ASSUME NEW q \in Procs, q # p PROVE Holds(q)'
      BY <1>1, <1>4, <2>2, <3>3 DEF CheckIdentity, LockType, LockOK, Holds
    <3>. QED BY <3>1, <3>2, <3>3 DEF LockOK
  <2>. QED BY <1>4, <2>1, <2>2 DEF CheckIdentity
<1>5. ASSUME NEW p \in Procs, NEW s \in {"synced", "open"}, pc[p] \in {"locked", "synced"},
             pc' = [pc EXCEPT ![p] = s], UNCHANGED <<name, owner, fd, spare>>
      PROVE LockType' /\ LockOK'
  <2>1. LockType' BY <1>1, <1>5 DEF LockType
  <2>2. Holds(p)' BY <1>1, <1>5 DEF LockType, LockOK, Holds, Working, Swapping
  <2>3. ASSUME NEW q \in Procs, q # p PROVE Holds(q)'
    BY <1>1, <1>5, <2>3 DEF LockType, LockOK, Holds
  <2>. QED BY <2>1, <2>2, <2>3 DEF LockOK
<1>6. ASSUME NEW p \in Procs, SyncOpened(p) PROVE LockType' /\ LockOK'
  BY <1>1, <1>5, <1>6, ReleaseLocks DEF SyncOpened
<1>7. ASSUME NEW p \in Procs, RecoverLocked(p) PROVE LockType' /\ LockOK'
  BY <1>1, <1>5, <1>7, ReleaseLocks DEF RecoverLocked
<1>8. ASSUME NEW p \in Procs, Close(p) \/ Crash(p) PROVE LockType' /\ LockOK'
  BY <1>1, <1>8, ReleaseLocks DEF Close, Crash
<1>9. CASE UNCHANGED <<name, owner, pc, fd, spare>>
  BY <1>1, <1>9 DEF LockType, LockOK, Holds
<1>10. ASSUME NEW p \in Procs, NEW x \in Payloads, CheckpointWrite(p, x) PROVE LockType' /\ LockOK'
  <2>1. PICK i \in Inodes : /\ Unused(i) /\ owner' = [owner EXCEPT ![i] = p]
                            /\ spare' = [spare EXCEPT ![p] = i]
    BY <1>10, Zenon DEF CheckpointWrite
  <2>2. pc[p] = "open" /\ pc' = [pc EXCEPT ![p] = "publish"] /\ UNCHANGED <<name, fd>>
    BY <1>10 DEF CheckpointWrite, Writable
  <2>3. LockType' BY <1>1, <2>1, <2>2 DEF LockType
  <2>4. Holds(p)'
    BY <1>1, <2>1, <2>2 DEF LockType, LockOK, Holds, Working, Swapping, Unused
  <2>5. ASSUME NEW q \in Procs, q # p PROVE Holds(q)'
    BY <1>1, <2>1, <2>2, <2>5 DEF LockType, LockOK, Holds, Unused
  <2>. QED BY <2>3, <2>4, <2>5 DEF LockOK
<1>11. ASSUME NEW p \in Procs, CheckpointRename(p) PROVE LockType' /\ LockOK'
  <2>1. /\ pc[p] = "publish" /\ spare[p] \in Inodes /\ spare[p] # fd[p] /\ fd[p] \in Inodes
        /\ owner[spare[p]] = p /\ owner[fd[p]] = p /\ fd[p] = name
    BY <1>11 DEF CheckpointRename, LockOK, Holds, Working, Swapping
  <2>2. \A q \in Procs : q # p => pc[q] \notin Working BY <2>1, OneWorks DEF Working
  <2>3. CASE /\ name' = spare[p] /\ UNCHANGED owner /\ pc' = [pc EXCEPT ![p] = "published"]
             /\ fd' = [fd EXCEPT ![p] = spare[p]] /\ spare' = [spare EXCEPT ![p] = fd[p]]
    <3>1. LockType' BY <1>1, <2>1, <2>3 DEF LockType
    <3>2. Holds(p)' BY <1>1, <2>1, <2>3 DEF LockType, Holds
    <3>3. ASSUME NEW q \in Procs, q # p PROVE Holds(q)'
      BY <1>1, <2>2, <2>3, <3>3 DEF LockType, LockOK, Holds, Working, Swapping
    <3>. QED BY <3>1, <3>2, <3>3 DEF LockOK
  <2>4. CASE /\ owner' = [owner EXCEPT ![spare[p]] = NoProc] /\ pc' = [pc EXCEPT ![p] = "open"]
             /\ spare' = [spare EXCEPT ![p] = NoInode] /\ UNCHANGED <<name, fd>>
    <3>1. LockType' BY <1>1, <2>1, <2>4 DEF LockType
    <3>2. Holds(p)' BY <1>1, <2>1, <2>4 DEF LockType, Holds, Swapping
    <3>3. ASSUME NEW q \in Procs, q # p PROVE Holds(q)'
      BY <1>1, <2>1, <2>2, <2>4, <3>3 DEF LockType, LockOK, Holds, Working, Swapping
    <3>. QED BY <3>1, <3>2, <3>3 DEF LockOK
  <2>. QED BY <1>11, <2>3, <2>4 DEF CheckpointRename
<1>12. ASSUME NEW p \in Procs, CheckpointFinish(p) PROVE LockType' /\ LockOK'
  <2>1. /\ pc[p] = "published" /\ spare[p] \in Inodes /\ spare[p] # fd[p] /\ fd[p] \in Inodes
        /\ owner[spare[p]] = p /\ owner[fd[p]] = p /\ fd[p] = name
    BY <1>12 DEF CheckpointFinish, LockOK, Holds, Working, Swapping
  <2>2. \A q \in Procs : q # p => pc[q] \notin Working BY <2>1, OneWorks DEF Working
  <2>3. /\ owner' = [owner EXCEPT ![spare[p]] = NoProc] /\ pc' = [pc EXCEPT ![p] = "open"]
        /\ spare' = [spare EXCEPT ![p] = NoInode] /\ UNCHANGED <<name, fd>>
    BY <1>12 DEF CheckpointFinish
  <2>4. LockType' BY <1>1, <2>1, <2>3 DEF LockType
  <2>5. Holds(p)' BY <1>1, <2>1, <2>3 DEF LockType, Holds, Swapping
  <2>6. ASSUME NEW q \in Procs, q # p PROVE Holds(q)'
    BY <1>1, <2>1, <2>2, <2>3, <2>6 DEF LockType, LockOK, Holds, Working, Swapping
  <2>. QED BY <2>4, <2>5, <2>6 DEF LockOK
<1>13. CASE PowerLoss
  <2>1. LockType' BY <1>13 DEF PowerLoss, LockType
  <2>. QED BY <2>1, <1>13 DEF PowerLoss, LockOK, Holds, Working, Swapping
<1>14. ASSUME NEW p \in Procs, NEW x \in Payloads, NEW c \in BOOLEAN, AppendFrame(p, x, c)
       PROVE UNCHANGED <<name, owner, pc, fd, spare>>
  BY <1>14 DEF AppendFrame
<1>15. ASSUME NEW p \in Procs, ReadPage(p) PROVE UNCHANGED <<name, owner, pc, fd, spare>>
  BY <1>15 DEF ReadPage
<1>16. CASE StopReading \/ UNCHANGED vars BY <1>9, <1>16 DEF StopReading, vars
<1>. QED
  BY <1>2, <1>3, <1>4, <1>6, <1>7, <1>8, <1>9, <1>10, <1>11, <1>12, <1>13, <1>14, <1>15, <1>16
  DEF Next

-----------------------------------------------------------------------------
(* The files and the name.                                                  *)

\* A file that is replaced by a sound one.
LEMMA OneFile ==
    ASSUME DiskType, DiskOK, NEW i \in Inodes, NEW s \in Seq(Frames), NEW n \in Nat,
           Sound(s), Len(s) <= MaxFrames, n <= Len(s),
           file' = [file EXCEPT ![i] = s], safe' = [safe EXCEPT ![i] = n],
           name' \in names', names' \subseteq Inodes \cup {NoInode}
    PROVE  DiskType' /\ DiskOK'
<1>1. DiskType' BY DEF DiskType
<1>2. ASSUME NEW j \in Inodes
      PROVE Sound(file'[j]) /\ safe'[j] <= Len(file'[j]) /\ Len(file'[j]) <= MaxFrames
  <2>1. CASE j = i BY <2>1 DEF DiskType
  <2>2. CASE j # i BY <2>2 DEF DiskType, DiskOK
  <2>. QED BY <2>1, <2>2
<1>. QED BY Zenon, <1>1, <1>2 DEF DiskOK, Sound, Chained

\* Every file holds a chain of frames of which only the last may be torn.
LEMMA DiskStep ==
    ASSUME Types, LockOK, DiskOK, WorkOK, [Next]_vars
    PROVE  DiskType' /\ DiskOK'
<1>. USE DEF disk, proc
<1>1. DiskType /\ LockType /\ WorkType BY DEF Types
<1>2. CASE UNCHANGED <<name, names, file, safe>>
  BY <1>1, <1>2 DEF DiskType, DiskOK, Sound, Chained
<1>3. ASSUME NEW i \in Inodes, NEW n \in Nat, n <= Len(file[i]), UNCHANGED file,
             safe' = [safe EXCEPT ![i] = n], name' \in names', names' \subseteq Inodes \cup {NoInode}
      PROVE  DiskType' /\ DiskOK'
  <2>1. file' = [file EXCEPT ![i] = file[i]] /\ file[i] \in Seq(Frames) BY <1>1, <1>3 DEF DiskType
  <2>. QED BY <1>1, <1>3, <2>1, OneFile, Zenon DEF DiskOK
<1>4. ASSUME NEW p \in Procs, OpenPath(p) PROVE DiskType' /\ DiskOK'
  <2>1. CASE UNCHANGED disk BY <1>2, <2>1
  <2>2. CASE \E i \in Inodes :
                /\ name' = i /\ names' = names \cup {i}
                /\ file' = [file EXCEPT ![i] = <<>>] /\ safe' = [safe EXCEPT ![i] = 0]
    <3>1. PICK s \in Seq(Frames) : s = <<>> BY SoundNew, Zenon
    <3>2. Sound(s) /\ Len(s) <= MaxFrames /\ 0 <= Len(s) /\ 0 \in Nat
      BY <3>1, SoundNew, JournalConstants
    <3>3. PICK i \in Inodes : /\ name' = i /\ names' = names \cup {i}
                              /\ file' = [file EXCEPT ![i] = s] /\ safe' = [safe EXCEPT ![i] = 0]
      BY <2>2, <3>1, Zenon
    <3>4. name' \in names' /\ names' \subseteq Inodes \cup {NoInode} BY <1>1, <3>3 DEF DiskType
    <3>. QED BY <1>1, <3>2, <3>3, <3>4, OneFile, Zenon
  <2>. QED BY <1>4, <2>1, <2>2 DEF OpenPath
<1>5. ASSUME NEW p \in Procs, pc[p] \in Working
      PROVE  /\ fd[p] = name /\ name \in Inodes /\ file[name] \in Seq(Frames)
             /\ Sound(file[name]) /\ Len(file[name]) \in Nat /\ safe[name] \in Nat
  BY <1>1, <1>5 DEF LockOK, Holds, Working, DiskType, DiskOK
<1>6. ASSUME NEW p \in Procs, SyncOpened(p) PROVE DiskType' /\ DiskOK'
  <2>1. pc[p] \in Working BY <1>6 DEF SyncOpened, Working
  <2>2. CASE UNCHANGED <<safe, names>> BY <1>2, <1>6, <2>2 DEF SyncOpened
  <2>3. CASE safe' = [safe EXCEPT ![fd[p]] = Len(file[fd[p]])] /\ (names' = {fd[p]} \/ UNCHANGED names)
    BY <1>1, <1>3, <1>5, <1>6, <2>1, <2>3 DEF SyncOpened, DiskType, DiskOK
  <2>. QED BY <1>6, <2>2, <2>3 DEF SyncOpened
<1>7. ASSUME NEW p \in Procs, RecoverLocked(p) PROVE DiskType' /\ DiskOK'
  <2>1. pc[p] \in Working BY <1>7 DEF RecoverLocked, Working
  <2>2. CASE UNCHANGED <<file, safe>> BY <1>2, <1>7, <2>2 DEF RecoverLocked
  <2>3. CASE /\ file' = [file EXCEPT ![fd[p]] = Complete(file[fd[p]])]
             /\ safe' = [safe EXCEPT ![fd[p]] =
                   IF @ < Len(Complete(file[fd[p]])) THEN @ ELSE Len(Complete(file[fd[p]]))]
    <3>. DEFINE c == Complete(file[name])
    <3>1. c \in Seq(Frames) /\ Sound(c) /\ Len(c) <= Len(file[name]) /\ Len(c) \in Nat
      BY <1>5, <2>1, SoundComplete
    <3>2. PICK n \in Nat : n = IF safe[name] < Len(c) THEN safe[name] ELSE Len(c)
      BY <1>5, <2>1, <3>1
    <3>3. n <= Len(c) BY <1>5, <2>1, <3>1, <3>2
    <3>4. file' = [file EXCEPT ![name] = c] /\ safe' = [safe EXCEPT ![name] = n]
      BY <1>1, <1>5, <2>1, <2>3, <3>2, Zenon DEF DiskType
    <3>5. Len(c) <= MaxFrames BY <1>5, <2>1, <3>1, JournalConstants DEF DiskOK
    <3>. HIDE DEF c
    <3>. QED BY Zenon, <1>1, <1>5, <1>7, <2>1, <3>1, <3>3, <3>4, <3>5, OneFile
             DEF RecoverLocked, DiskType, DiskOK
  <2>. QED BY <1>7, <2>2, <2>3 DEF RecoverLocked
<1>8. ASSUME NEW p \in Procs, NEW x \in Payloads, NEW c \in BOOLEAN, AppendFrame(p, x, c)
      PROVE  DiskType' /\ DiskOK'
  <2>. DEFINE f == Append(HeadOf(index[p]), x)
  <2>1. /\ pc[p] \in Working /\ index[p] = file[name] /\ Len(index[p]) < MaxFrames
        /\ index[p] \in Seq(Seq(Payloads)) /\ fd[p] = name /\ name \in Inodes
        /\ Sound(index[p]) /\ UNCHANGED <<name, names>>
    BY Zenon, <1>1, <1>5, <1>8
    DEF AppendFrame, Writable, WorkOK, Knows, Trusted, Working, WorkType, DiskOK
  <2>2. /\ Append(index[p], f) \in Seq(Frames) /\ Sound(Append(index[p], f))
        /\ Append(index[p], Torn) \in Seq(Frames) /\ Sound(Append(index[p], Torn))
        /\ Len(Append(index[p], f)) = Len(index[p]) + 1
        /\ Len(Append(index[p], Torn)) = Len(index[p]) + 1
    BY <2>1, SoundGrown
  <2>3. name' \in names' /\ names' \subseteq Inodes \cup {NoInode} BY <1>1, <2>1 DEF DiskOK, DiskType
  <2>4. safe[name] \in Nat /\ safe[name] <= Len(index[p]) BY <1>1, <2>1 DEF DiskType, DiskOK
  <2>5. CASE UNCHANGED <<file, safe>> BY <1>2, <2>1, <2>5
  <2>6. ASSUME NEW g \in {f, Torn}, file' = [file EXCEPT ![name] = Append(index[p], g)],
               NEW n \in {safe[name], Len(index[p]) + 1}, safe' = [safe EXCEPT ![name] = n]
        PROVE  DiskType' /\ DiskOK'
    <3>1. PICK s : s = Append(index[p], g) BY Zenon
    <3>2. s \in Seq(Frames) /\ Sound(s) /\ Len(s) = Len(index[p]) + 1 BY <2>2, <2>6, <3>1, Zenon
    <3>3. n \in Nat /\ n <= Len(s) /\ Len(s) <= MaxFrames
      BY <2>1, <2>4, <2>6, <3>2, JournalConstants
    <3>. QED BY <1>1, <2>1, <2>3, <2>6, <3>1, <3>2, <3>3, OneFile, Zenon
  <2>7. CASE AppendFails(p, f)
    <3>1. safe' = [safe EXCEPT ![name] = safe[name]] /\ UNCHANGED safe
      BY <1>1, <2>1, <2>7 DEF AppendFails, DiskType
    <3>2. \/ UNCHANGED file
          \/ \E g \in {f, Torn} : file' = [file EXCEPT ![name] = Append(index[p], g)]
      BY <2>1, <2>7 DEF AppendFails, Grown
    <3>. QED BY <2>5, <2>6, <3>1, <3>2
  <2>8. CASE AppendSucceeds(p, f, c)
    <3>1. file' = [file EXCEPT ![name] = Append(index[p], f)]
      BY <2>1, <2>8 DEF AppendSucceeds, Grown
    <3>2. file'[name] = Append(index[p], f) BY Zenon, <1>1, <2>1, <3>1 DEF DiskType
    <3>3. \E n \in {safe[name], Len(index[p]) + 1} : safe' = [safe EXCEPT ![name] = n]
      BY Zenon, <1>1, <2>1, <2>2, <2>8, <3>2 DEF AppendSucceeds, DiskType
    <3>. QED BY <2>6, <3>1, <3>3, Zenon
  <2>. QED BY <1>8, <2>7, <2>8 DEF AppendFrame
<1>9. ASSUME NEW p \in Procs, NEW x \in Payloads, CheckpointWrite(p, x) PROVE DiskType' /\ DiskOK'
  <2>1. PICK i \in Inodes : file' = [file EXCEPT ![i] = <<<<x>>>>] /\ safe' = [safe EXCEPT ![i] = 1]
    BY <1>9, Zenon DEF CheckpointWrite
  <2>2. 1 <= MaxFrames /\ 1 \in Nat BY JournalConstants
  <2>3. name' \in names' /\ names' \subseteq Inodes \cup {NoInode}
    BY <1>1, <1>9 DEF CheckpointWrite, DiskOK, DiskType
  <2>4. PICK s \in Seq(Frames) : s = <<<<x>>>> /\ Sound(s) /\ Len(s) = 1 BY SoundNew, Zenon
  <2>5. Len(s) <= MaxFrames /\ 1 <= Len(s) /\ 1 \in Nat BY <2>2, <2>4
  <2>. QED BY <1>1, <2>1, <2>3, <2>4, <2>5, OneFile, Zenon
<1>10. ASSUME UNCHANGED <<file, safe>>, name' \in names', names' \subseteq Inodes \cup {NoInode}
       PROVE  DiskType' /\ DiskOK'
  BY <1>1, <1>10 DEF DiskType, DiskOK, Sound, Chained
<1>11. ASSUME NEW p \in Procs, CheckpointRename(p) \/ CheckpointFinish(p) PROVE DiskType' /\ DiskOK'
  <2>1. pc[p] \in Working /\ pc[p] \in Swapping BY Zenon, <1>11 DEF CheckpointRename, CheckpointFinish, Working, Swapping
  <2>2. UNCHANGED <<file, safe>> BY <1>11 DEF CheckpointRename, CheckpointFinish
  <2>3. name' \in names' /\ names' \subseteq Inodes \cup {NoInode}
    BY <1>1, <1>5, <1>11, <2>1 DEF CheckpointRename, CheckpointFinish, DiskOK, DiskType, LockOK, Holds
  <2>. QED BY <1>10, <2>2, <2>3
<1>12. CASE PowerLoss
  <2>1. PICK i \in names :
           /\ name' = i /\ names' = {i}
           /\ \/ i = NoInode /\ file' = [j \in Inodes |-> <<>>]
              \/ /\ i # NoInode
                 /\ \E left \in Remains(file[i], safe[i]) :
                       file' = [j \in Inodes |-> IF j = i THEN left ELSE <<>>]
    BY Zenon, <1>12 DEF PowerLoss
  <2>2. safe' = [j \in Inodes |-> Len(file'[j])] BY Zenon, <1>12 DEF PowerLoss
  <2>3. ASSUME NEW s \in Seq(Frames), Sound(s), Len(s) <= MaxFrames,
               file' = [j \in Inodes |-> IF j = i THEN s ELSE <<>>]
        PROVE  DiskType' /\ DiskOK'
    <3>1. \A j \in Inodes : /\ file'[j] \in Seq(Frames) /\ Sound(file'[j]) /\ Len(file'[j]) \in Nat
                            /\ Len(file'[j]) <= MaxFrames
      BY <2>3, SoundNew, JournalConstants
    <3>2. DiskType' BY <1>1, <2>1, <2>2, <2>3, <3>1 DEF DiskType
    <3>3. name' \in names' BY <2>1
    <3>4. ASSUME NEW j \in Inodes
          PROVE Sound(file'[j]) /\ safe'[j] <= Len(file'[j]) /\ Len(file'[j]) <= MaxFrames
      BY <2>2, <3>1
    <3>. QED BY Zenon, <3>2, <3>3, <3>4 DEF DiskOK, Sound, Chained
  <2>4. CASE i = NoInode /\ file' = [j \in Inodes |-> <<>>]
    <3>1. PICK s \in Seq(Frames) : s = <<>> BY SoundNew, Zenon
    <3>2. Sound(s) /\ Len(s) <= MaxFrames BY <3>1, SoundNew, JournalConstants
    <3>3. file' = [j \in Inodes |-> IF j = i THEN s ELSE <<>>] BY <2>4, <3>1
    <3>. QED BY <2>3, <3>2, <3>3
  <2>5. CASE i # NoInode
    <3>1. PICK left \in Remains(file[i], safe[i]) :
             file' = [j \in Inodes |-> IF j = i THEN left ELSE <<>>]
      BY <2>1, <2>5
    <3>2. i \in Inodes /\ file[i] \in Seq(Frames) /\ safe[i] \in 0..Len(file[i]) /\ Sound(file[i])
      BY <1>1, <2>1, <2>5 DEF DiskType, DiskOK
    <3>3. left \in Seq(Frames) /\ Sound(left) /\ Len(left) <= Len(file[i]) BY Zenon, <3>2, SoundRemains
    <3>4. Len(left) <= MaxFrames BY <3>2, <3>3, JournalConstants DEF DiskOK
    <3>. QED BY Zenon, <2>3, <3>1, <3>3, <3>4
  <2>. QED BY Zenon, <2>1, <2>4, <2>5
<1>13. ASSUME NEW p \in Procs, Flock(p) \/ CheckIdentity(p) \/ Close(p) \/ Crash(p) \/ ReadPage(p)
       PROVE  UNCHANGED <<name, names, file, safe>>
  BY Zenon, <1>13 DEF Flock, CheckIdentity, Close, Crash, ReadPage
<1>14. CASE StopReading \/ UNCHANGED vars BY <1>2, <1>14 DEF StopReading, vars
<1>. QED
  BY <1>2, <1>4, <1>6, <1>7, <1>8, <1>9, <1>11, <1>12, <1>13, <1>14 DEF Next

-----------------------------------------------------------------------------
(* What a process knows of the file it works on.                            *)

\* While one process works, no other has anything to know,
LEMMA OthersIdle ==
    ASSUME LockOK, NEW p \in Procs, pc[p] \in Working, NEW q \in Procs, q # p, pc'[q] = pc[q]
    PROVE  Knows(q)'
<1>1. pc[q] \notin Working BY OneWorks
<1>. QED BY <1>1 DEF Knows, Trusted, Working, Swapping

\* and what a process knows stays true while nothing of it changes.
LEMMA StillKnows ==
    ASSUME NEW q \in Procs, Knows(q), UNCHANGED <<name, names, file, safe, swapped>>,
           pc'[q] = pc[q], spare'[q] = spare[q], index'[q] = index[q], failed'[q] = failed[q]
    PROVE  Knows(q)'
  BY Zenon DEF Knows, Trusted

\* A process that lets go of the journal leaves the others what they know.
LEMMA ReleaseWork ==
    ASSUME LockType, WorkType, LockOK, WorkOK, NEW p \in Procs, Release(p),
           pc[p] \in Working \/ UNCHANGED <<name, names, file, safe, swapped>>
    PROVE  WorkType' /\ WorkOK'
<1>1. WorkType' BY DEF WorkType, Release
<1>2. Knows(p)' BY Zenon DEF LockType, Release, Knows, Trusted, Swapping
<1>3. ASSUME NEW q \in Procs, q # p PROVE Knows(q)'
  <2>1. /\ pc'[q] = pc[q] /\ spare'[q] = spare[q] /\ index'[q] = index[q] /\ failed'[q] = failed[q]
    BY <1>3 DEF LockType, WorkType, Release
  <2>. QED BY Zenon, <1>3, <2>1, OthersIdle, StillKnows DEF WorkOK
<1>. QED BY <1>1, <1>2, <1>3 DEF WorkOK

\* The index of a working journal is its file, which is the only one that a power loss can
\* leave under the name.
LEMMA WorkStep ==
    ASSUME Types, LockOK, DiskOK, WorkOK, [Next]_vars
    PROVE  WorkType' /\ WorkOK'
<1>. USE DEF disk, proc
<1>1. DiskType /\ LockType /\ WorkType BY DEF Types
<1>2. CASE UNCHANGED <<name, names, file, safe, swapped, pc, spare, index, failed>>
  BY Zenon, <1>1, <1>2, StillKnows DEF WorkType, WorkOK
<1>3. ASSUME NEW p \in Procs, pc[p] \in Working
      PROVE  /\ fd[p] = name /\ name \in Inodes /\ file[name] \in Seq(Frames)
             /\ Sound(file[name]) /\ Knows(p)
  BY <1>1, <1>3 DEF LockOK, Holds, Working, DiskType, DiskOK, WorkOK
<1>4. ASSUME NEW p \in Procs, NEW s \in {"opened", "flocked", "locked"}, pc' = [pc EXCEPT ![p] = s],
             UNCHANGED <<spare, index, failed, swapped>>,
             \/ UNCHANGED <<name, names, file, safe>>
             \/ name = NoInode
      PROVE  WorkType' /\ WorkOK'
  <2>1. Knows(p)' BY Zenon, <1>1, <1>4 DEF LockType, Knows, Trusted, Swapping
  <2>2. ASSUME NEW q \in Procs, q # p PROVE Knows(q)'
    <3>1. pc'[q] = pc[q] BY <1>1, <1>4, <2>2 DEF LockType
    <3>2. CASE UNCHANGED <<name, names, file, safe>> BY Zenon, <1>4, <3>1, <3>2, StillKnows DEF WorkOK
    <3>3. CASE name = NoInode
      <4>1. pc[q] \notin Working BY <1>3, <3>3, JournalConstants
      <4>. QED BY Zenon, <3>1, <4>1 DEF Knows, Trusted, Working, Swapping
    <3>. QED BY <1>4, <3>2, <3>3
  <2>. QED BY <1>1, <1>4, <2>1, <2>2 DEF WorkType, WorkOK
<1>5. ASSUME NEW p \in Procs, OpenPath(p) PROVE WorkType' /\ WorkOK'
  BY <1>4, <1>5, Zenon DEF OpenPath
<1>6. ASSUME NEW p \in Procs, Flock(p) PROVE WorkType' /\ WorkOK'
  BY Zenon, <1>1, <1>4, <1>6, ReleaseWork DEF Flock
<1>7. ASSUME NEW p \in Procs, CheckIdentity(p) PROVE WorkType' /\ WorkOK'
  BY Zenon, <1>1, <1>4, <1>7, ReleaseWork DEF CheckIdentity
<1>8. ASSUME NEW p \in Procs, Close(p) \/ Crash(p) PROVE WorkType' /\ WorkOK'
  BY <1>1, <1>8, ReleaseWork DEF Close, Crash
\* From here on, only the process that works is of interest.
<1>9. ASSUME NEW p \in Procs, pc[p] \in Working, WorkType', Knows(p)',
             \A q \in Procs : q # p => pc'[q] = pc[q]
      PROVE  WorkType' /\ WorkOK'
  BY <1>9, OthersIdle DEF WorkOK
<1>10. ASSUME NEW p \in Procs, SyncOpened(p) PROVE WorkType' /\ WorkOK'
  <2>1. pc[p] \in Working /\ pc[p] = "locked" BY <1>10 DEF SyncOpened, Working
  <2>2. CASE Release(p) BY <1>1, <2>1, <2>2, ReleaseWork
  <2>3. CASE /\ safe' = [safe EXCEPT ![fd[p]] = Len(file[fd[p]])] /\ names' = {fd[p]}
             /\ pc' = [pc EXCEPT ![p] = "synced"] /\ UNCHANGED <<fd, spare, index, failed>>
    <3>1. Knows(p)'
      BY Zenon, <1>1, <1>3, <1>10, <2>1, <2>3 DEF SyncOpened, Knows, Trusted, Swapping, LockType, DiskType
    <3>2. WorkType' BY <1>1, <2>3 DEF WorkType
    <3>. QED BY <1>1, <1>9, <2>1, <2>3, <3>1, <3>2 DEF LockType
  <2>. QED BY <1>10, <2>2, <2>3 DEF SyncOpened
<1>11. ASSUME NEW p \in Procs, RecoverLocked(p) PROVE WorkType' /\ WorkOK'
  <2>1. pc[p] \in Working /\ pc[p] = "synced" BY <1>11 DEF RecoverLocked, Working
  <2>2. CASE Release(p) BY <1>1, <2>1, <2>2, ReleaseWork
  <2>3. CASE /\ file' = [file EXCEPT ![fd[p]] = Complete(file[fd[p]])]
             /\ index' = [index EXCEPT ![p] = Complete(file[fd[p]])]
             /\ swapped' = NoInode /\ pc' = [pc EXCEPT ![p] = "open"]
             /\ UNCHANGED <<fd, spare, failed>>
    <3>1. PICK c : c = Complete(file[name]) OBVIOUS
    <3>2. c \in Seq(Seq(Payloads)) BY Zenon, <1>3, <2>1, <3>1, SoundComplete
    <3>3. /\ file' = [file EXCEPT ![name] = c] /\ index' = [index EXCEPT ![p] = c]
          /\ UNCHANGED <<name, names>>
      BY <1>3, <1>11, <2>1, <2>3, <3>1, Zenon DEF RecoverLocked
    <3>4. names = {name} /\ name \in Inodes BY Zenon, <1>3, <2>1 DEF Knows
    <3>5. WorkType' BY <1>1, <2>3, <3>2, <3>3 DEF WorkType
    <3>6. pc'[p] = "open" /\ index'[p] = c /\ file'[name] = c
      BY Zenon, <1>1, <2>3, <3>3, <3>4 DEF LockType, WorkType, DiskType
    <3>7. Knows(p)' BY Zenon, <2>3, <3>3, <3>4, <3>6 DEF Knows, Trusted, Swapping
    <3>. QED BY <1>1, <1>9, <2>1, <2>3, <3>5, <3>7 DEF LockType
  <2>. QED BY Zenon, <1>11, <2>2, <2>3 DEF RecoverLocked
<1>12. ASSUME NEW p \in Procs, NEW x \in Payloads, NEW c \in BOOLEAN, AppendFrame(p, x, c)
       PROVE  WorkType' /\ WorkOK'
  <2>. DEFINE f == Append(HeadOf(index[p]), x)
  <2>1. /\ pc[p] \in Working /\ pc[p] = "open" /\ ~failed[p]
        /\ UNCHANGED <<name, names, pc, fd, spare, swapped>>
    BY Zenon, <1>12 DEF AppendFrame, Writable, Working
  <2>2. names = {name} /\ swapped = NoInode /\ index[p] = file[name] /\ fd[p] = name /\ name \in Inodes
    BY Zenon, <1>3, <2>1 DEF Knows, Trusted
  <2>3. CASE AppendFails(p, f)
    <3>1. WorkType' BY <1>1, <2>3 DEF AppendFails, WorkType
    <3>2. failed'[p] BY <1>1, <2>3 DEF AppendFails, WorkType
    <3>3. Knows(p)' BY Zenon, <2>1, <3>2 DEF Knows, Trusted, Swapping
    <3>. QED BY <1>9, <2>1, <3>1, <3>3
  <2>4. CASE AppendSucceeds(p, f, c)
    <3>1. index[p] \in Seq(Seq(Payloads)) /\ Sound(index[p]) BY Zenon, <1>1, <1>3, <2>1, <2>2 DEF WorkType
    <3>2. PICK s : s = Append(index[p], f) BY Zenon
    <3>3. s \in Seq(Seq(Payloads)) BY <3>1, <3>2, SoundGrown
    <3>4. file' = [file EXCEPT ![name] = s] /\ index' = [index EXCEPT ![p] = s] /\ UNCHANGED failed
      BY Zenon, <2>2, <2>4, <3>2 DEF AppendSucceeds, Grown
    <3>5. WorkType' BY <1>1, <3>3, <3>4 DEF WorkType
    <3>6. Knows(p)' BY Zenon, <1>1, <2>1, <2>2, <3>4 DEF Knows, Trusted, Swapping, DiskType, WorkType
    <3>. QED BY <1>9, <2>1, <3>5, <3>6
  <2>. QED BY <1>12, <2>3, <2>4 DEF AppendFrame
<1>13. ASSUME NEW p \in Procs, NEW x \in Payloads, CheckpointWrite(p, x) PROVE WorkType' /\ WorkOK'
  <2>1. PICK i \in Inodes :
           /\ Unused(i) /\ spare' = [spare EXCEPT ![p] = i]
           /\ file' = [file EXCEPT ![i] = <<<<x>>>>] /\ safe' = [safe EXCEPT ![i] = 1]
    BY <1>13, Zenon DEF CheckpointWrite
  <2>2. /\ pc[p] \in Working /\ pc[p] = "open" /\ ~failed[p] /\ pc' = [pc EXCEPT ![p] = "publish"]
        /\ UNCHANGED <<name, names, fd, index, failed, swapped>>
    BY <1>13 DEF CheckpointWrite, Writable, Working
  <2>3. names = {name} /\ swapped = NoInode /\ index[p] = file[name] /\ name \in Inodes
    BY Zenon, <1>3, <2>2 DEF Knows, Trusted
  <2>4. i # name /\ file'[name] = file[name] BY <1>1, <2>1 DEF Unused, DiskType
  <2>5. PICK s \in Seq(Seq(Payloads)) : s = <<<<x>>>> /\ Len(s) = 1 BY SoundNew, Zenon
  <2>6. spare'[p] = i /\ file'[i] = s /\ safe'[i] = 1 /\ pc'[p] = "publish"
    BY <1>1, <2>1, <2>2, <2>5 DEF LockType, DiskType
  <2>7. Knows(p)' BY Zenon, <2>2, <2>3, <2>4, <2>5, <2>6 DEF Knows, Trusted
  <2>8. WorkType' BY <1>1, <2>2 DEF WorkType
  <2>. QED BY <1>1, <1>9, <2>2, <2>7, <2>8 DEF LockType
<1>14. ASSUME NEW p \in Procs, CheckpointRename(p) PROVE WorkType' /\ WorkOK'
  <2>1. pc[p] \in Working /\ pc[p] = "publish" /\ UNCHANGED <<file, safe, failed>>
    BY Zenon, <1>14 DEF CheckpointRename, Working
  <2>2. /\ names = {name} /\ swapped = NoInode /\ index[p] = file[name] /\ ~failed[p]
        /\ safe[spare[p]] = 1 /\ Len(file[spare[p]]) = 1 /\ file[spare[p]] \in Seq(Seq(Payloads))
    BY Zenon, <1>3, <2>1 DEF Knows, Trusted, Swapping
  <2>3. CASE /\ name' = spare[p] /\ index' = [index EXCEPT ![p] = file[spare[p]]]
             /\ pc' = [pc EXCEPT ![p] = "published"]
    <3>1. WorkType' BY Zenon, <1>1, <2>1, <2>2, <2>3 DEF WorkType
    <3>2. pc'[p] = "published" /\ index'[p] = file[spare[p]] BY <1>1, <2>3 DEF LockType, WorkType
    <3>3. Knows(p)' BY Zenon, <2>1, <2>2, <2>3, <3>2 DEF Knows, Trusted
    <3>. QED BY Zenon, <1>1, <1>9, <2>1, <2>3, <3>1, <3>3 DEF LockType
  <2>4. CASE pc' = [pc EXCEPT ![p] = "open"] /\ UNCHANGED <<name, names, fd, index, swapped>>
    <3>1. WorkType' BY <1>1, <2>1, <2>4 DEF WorkType
    <3>2. Knows(p)' BY Zenon, <1>1, <2>1, <2>2, <2>4 DEF Knows, Trusted, Swapping, LockType
    <3>. QED BY Zenon, <1>1, <1>9, <2>1, <2>4, <3>1, <3>2 DEF LockType
  <2>. QED BY Zenon, <1>14, <2>3, <2>4 DEF CheckpointRename
<1>15. ASSUME NEW p \in Procs, CheckpointFinish(p) PROVE WorkType' /\ WorkOK'
  <2>1. /\ pc[p] \in Working /\ pc[p] = "published" /\ pc' = [pc EXCEPT ![p] = "open"]
        /\ UNCHANGED <<name, file, index>>
    BY Zenon, <1>15 DEF CheckpointFinish, Working
  <2>2. index[p] = file[name] /\ ~failed[p] /\ fd[p] = name BY Zenon, <1>3, <2>1 DEF Knows, Swapping
  <2>3. WorkType' BY <1>1, <1>15, Zenon DEF CheckpointFinish, WorkType
  <2>4. failed'[p] \/ (names' = {name} /\ swapped' = NoInode)
    BY Zenon, <1>1, <1>15, <2>2 DEF CheckpointFinish, WorkType
  <2>5. Knows(p)' BY Zenon, <1>1, <2>1, <2>2, <2>4 DEF Knows, Trusted, Swapping, LockType
  <2>. QED BY Zenon, <1>1, <1>9, <2>1, <2>3, <2>5 DEF LockType
<1>16. CASE PowerLoss
  <2>1. WorkType' BY <1>16 DEF PowerLoss, WorkType
  <2>. QED BY Zenon, <1>16, <2>1 DEF PowerLoss, WorkOK, Knows, Trusted, Swapping
<1>17. ASSUME NEW p \in Procs, ReadPage(p)
       PROVE  UNCHANGED <<name, names, file, safe, swapped, pc, spare, index, failed>>
  BY Zenon, <1>17 DEF ReadPage
<1>18. CASE StopReading \/ UNCHANGED vars BY Zenon, <1>2, <1>18 DEF StopReading, vars
<1>. QED
  BY Zenon, <1>2, <1>5, <1>6, <1>7, <1>8, <1>10, <1>11, <1>12, <1>13, <1>14, <1>15, <1>16, <1>17, <1>18
  DEF Next

-----------------------------------------------------------------------------
(* What was acknowledged.                                                   *)

\* File i holds the last acknowledged frame, or is a checkpoint nobody was told of.
Kept(i) ==
    \/ acked = <<>>
    \/ i # NoInode /\ i = swapped /\ safe[i] > 0
    \/ i # NoInode /\ \E k \in 1..safe[i] : file[i][k] = acked

\* AckedSurvives says it of every file that a power loss can leave under the name.
LEMMA KeptBy == (AckedSurvives <=> \A i \in names : Kept(i)) /\ (AckedSurvives <=> \A i \in names : Kept(i))'
  BY Zenon DEF AckedSurvives, Kept

\* A file keeps it for as long as its durable frames stay.
LEMMA StillKept ==
    ASSUME NEW i \in Inodes \cup {NoInode}, Kept(i), UNCHANGED <<acked, swapped>>,
           i # NoInode => /\ safe[i] \in Nat /\ safe'[i] \in Nat /\ safe[i] <= safe'[i]
                          /\ \A k \in 1..safe[i] : file'[i][k] = file[i][k]
    PROVE  Kept(i)'
  BY DEF Kept

\* An append, a sync, a checkpoint and a power loss lose no acknowledged frame.
LEMMA AckedStep ==
    ASSUME Types, LockOK, DiskOK, WorkOK, AckedSurvives, [Next]_vars
    PROVE  HistoryType' /\ AckedSurvives'
<1>. USE DEF disk, proc
<1>1. DiskType /\ LockType /\ WorkType /\ HistoryType BY DEF Types
<1>0. \A i \in names : i \in Inodes \cup {NoInode} /\ Kept(i) BY <1>1, KeptBy DEF DiskType
<1>2. ASSUME UNCHANGED <<file, safe, acked, swapped>>, names' \subseteq names
      PROVE  HistoryType' /\ AckedSurvives'
  <2>1. \A i \in names : Kept(i)' BY <1>0, <1>2 DEF Kept
  <2>. QED BY <1>1, <1>2, <2>1, KeptBy DEF HistoryType
<1>3. ASSUME NEW p \in Procs, pc[p] \in Working
      PROVE  /\ fd[p] = name /\ name \in Inodes /\ file[name] \in Seq(Frames)
             /\ Sound(file[name]) /\ Knows(p) /\ safe[name] \in Nat /\ safe[name] <= Len(file[name])
  BY <1>1, <1>3 DEF LockOK, Holds, Working, DiskType, DiskOK, WorkOK
<1>4. ASSUME NEW p \in Procs, OpenPath(p) PROVE HistoryType' /\ AckedSurvives'
  <2>1. CASE UNCHANGED disk BY Zenon, <1>2, <1>4, <2>1 DEF OpenPath
  <2>2. CASE name = NoInode
    <3>1. acked = <<>> BY <1>0, <2>2 DEF DiskOK, Kept
    <3>. QED BY Zenon, <1>1, <1>4, <3>1 DEF OpenPath, AckedSurvives, HistoryType
  <2>. QED BY Zenon, <1>4, <2>1, <2>2 DEF OpenPath
\* A file grows, or more of it becomes durable.
<1>5. ASSUME NEW i \in Inodes, safe'[i] \in Nat, safe[i] <= safe'[i], UNCHANGED <<acked, swapped>>,
             \A k \in 1..safe[i] : file'[i][k] = file[i][k],
             \A j \in Inodes : j # i => file'[j] = file[j] /\ safe'[j] = safe[j],
             names' \subseteq names
      PROVE  HistoryType' /\ AckedSurvives'
  <2>1. ASSUME NEW j \in names PROVE Kept(j)'
    <3>1. j \in Inodes => /\ safe[j] \in Nat /\ safe'[j] \in Nat /\ safe[j] <= safe'[j]
                          /\ \A k \in 1..safe[j] : file'[j][k] = file[j][k]
      <4>1. j \in Inodes => safe[j] \in Nat BY Zenon, <1>1 DEF DiskType
      <4>2. CASE j = i BY Zenon, <1>5, <4>1, <4>2
      <4>3. CASE j # i
        <5>1. j \in Inodes => safe[j] <= safe[j] BY <4>1
        <5>. QED BY Zenon, <1>5, <4>1, <4>3, <5>1
      <4>. QED BY Zenon, <4>2, <4>3
    <3>. QED BY Zenon, <1>0, <1>5, <3>1, StillKept
  <2>. QED BY Zenon, <1>1, <1>5, <2>1, KeptBy DEF HistoryType
<1>6. ASSUME NEW p \in Procs, SyncOpened(p) PROVE HistoryType' /\ AckedSurvives'
  <2>1. pc[p] \in Working /\ UNCHANGED <<name, file, acked, swapped>> BY Zenon, <1>6 DEF SyncOpened, Working
  <2>2. names' \subseteq names BY Zenon, <1>3, <1>6, <2>1 DEF SyncOpened, DiskOK
  <2>3. CASE UNCHANGED safe BY <1>2, <2>1, <2>2, <2>3
  <2>4. CASE safe' = [safe EXCEPT ![fd[p]] = Len(file[fd[p]])]
    <3>1. /\ fd[p] \in Inodes /\ file[fd[p]] \in Seq(Frames)
          /\ safe[fd[p]] \in Nat /\ safe[fd[p]] <= Len(file[fd[p]])
      BY Zenon, <1>1, <1>3, <2>1 DEF DiskType
    <3>2. safe \in [Inodes -> Nat] BY Zenon, <1>1 DEF DiskType
    <3>3. safe'[fd[p]] = Len(file[fd[p]]) /\ \A j \in Inodes : j # fd[p] => safe'[j] = safe[j]
      BY Zenon, <2>4, <3>1, <3>2
    <3>4. Len(file[fd[p]]) \in Nat BY <3>1
    <3>. QED BY Zenon, <1>5, <2>1, <2>2, <3>1, <3>3, <3>4
  <2>. QED BY Zenon, <1>6, <2>3, <2>4 DEF SyncOpened
\* The one file under the name has the frame that is now reported.
<1>7. ASSUME names' = {name}, name \in Inodes, acked' \in Seq(Payloads),
             swapped' \in Inodes \cup {NoInode},
             acked' = <<>> \/ \E k \in 1..safe'[name] : file'[name][k] = acked'
      PROVE  HistoryType' /\ AckedSurvives'
  <2>1. name # NoInode BY <1>7, JournalConstants
  <2>. QED BY Zenon, <1>7, <2>1 DEF HistoryType, AckedSurvives
<1>8. ASSUME NEW p \in Procs, RecoverLocked(p) PROVE HistoryType' /\ AckedSurvives'
  <2>1. pc[p] \in Working /\ pc[p] = "synced" /\ UNCHANGED <<name, names>>
    BY <1>8 DEF RecoverLocked, Working
  <2>2. CASE UNCHANGED <<file, safe, acked, swapped>> BY <1>2, <2>1, <2>2
  <2>3. CASE /\ file' = [file EXCEPT ![fd[p]] = Complete(file[fd[p]])]
             /\ safe' = [safe EXCEPT ![fd[p]] =
                   IF @ < Len(Complete(file[fd[p]])) THEN @ ELSE Len(Complete(file[fd[p]]))]
             /\ acked' = HeadOf(Complete(file[fd[p]])) /\ swapped' = NoInode
    <3>1. PICK c : c = Complete(file[name]) OBVIOUS
    <3>2. c \in Seq(Seq(Payloads)) /\ Len(c) <= Len(file[name]) BY Zenon, <1>3, <2>1, <3>1, SoundComplete
    <3>3. names = {name} /\ safe[name] = Len(file[name]) BY Zenon, <1>3, <2>1 DEF Knows
    <3>4. file'[name] = c /\ safe'[name] = Len(c) /\ acked' = HeadOf(c)
      <4>1. fd[p] = name /\ name \in Inodes BY Zenon, <1>3, <2>1
      <4>2. file \in [Inodes -> Seq(Frames)] /\ safe \in [Inodes -> Nat] BY Zenon, <1>1 DEF DiskType
      <4>3. file'[name] = c /\ acked' = HeadOf(c)
            /\ safe'[name] = IF safe[name] < Len(c) THEN safe[name] ELSE Len(c)
        BY Zenon, <2>3, <3>1, <4>1, <4>2
      <4>4. Len(c) \in Nat /\ Len(file[name]) \in Nat BY <3>2, <4>1, <4>2
      <4>. QED BY <3>2, <3>3, <4>3, <4>4
    <3>5. acked' \in Seq(Payloads) /\ (acked' = <<>> \/ \E k \in 1..Len(c) : c[k] = acked')
      BY <3>2, <3>4 DEF HeadOf
    <3>. QED BY Zenon, <1>3, <1>7, <2>1, <2>3, <3>3, <3>4, <3>5
  <2>. QED BY Zenon, <1>8, <2>2, <2>3 DEF RecoverLocked
<1>9. ASSUME NEW p \in Procs, NEW x \in Payloads, NEW c \in BOOLEAN, AppendFrame(p, x, c)
      PROVE  HistoryType' /\ AckedSurvives'
  <2>1. PICK f : f = Append(HeadOf(index[p]), x) BY Zenon
  <2>2. /\ pc[p] \in Working /\ pc[p] = "open" /\ ~failed[p] /\ UNCHANGED <<name, names, swapped>>
        /\ (AppendFails(p, f) \/ AppendSucceeds(p, f, c))
    BY Zenon, <1>9, <2>1 DEF AppendFrame, Writable, Working
  <2>3. names = {name} /\ index[p] = file[name] /\ fd[p] = name /\ name \in Inodes
    BY Zenon, <1>3, <2>2 DEF Knows, Trusted
  <2>4. index[p] \in Seq(Seq(Payloads)) /\ Sound(index[p]) BY Zenon, <1>1, <1>3, <2>2, <2>3 DEF WorkType
  <2>5. f \in Seq(Payloads) /\ f \in Frames /\ Torn \in Frames BY <2>1, <2>4, SoundGrown DEF Frames
  <2>6. ASSUME NEW g \in Frames, Grown(p, g)
        PROVE  /\ file' = [file EXCEPT ![name] = Append(file[name], g)]
               /\ \A k \in 1..Len(file[name]) : file'[name][k] = file[name][k]
               /\ Len(file'[name]) = Len(file[name]) + 1 /\ file'[name][Len(file[name]) + 1] = g
    <3>1. file' = [file EXCEPT ![name] = Append(file[name], g)] BY Zenon, <2>3, <2>6 DEF Grown
    <3>2. PICK s : s = file[name] OBVIOUS
    <3>3. s \in Seq(Frames) BY Zenon, <1>1, <2>3, <3>2 DEF DiskType
    <3>4. file'[name] = Append(s, g) BY Zenon, <1>1, <2>3, <3>1, <3>2 DEF DiskType
    <3>5. /\ \A k \in 1..Len(s) : Append(s, g)[k] = s[k]
          /\ Len(Append(s, g)) = Len(s) + 1 /\ Append(s, g)[Len(s) + 1] = g
      BY <2>6, <3>3
    <3>. QED BY Zenon, <3>1, <3>2, <3>4, <3>5
  <2>7. ASSUME NEW g \in Frames, Grown(p, g), UNCHANGED <<safe, acked>> PROVE HistoryType' /\ AckedSurvives'
    <3>1. \A k \in 1..safe[name] : file'[name][k] = file[name][k]
      <4>1. \A k \in 1..Len(file[name]) : file'[name][k] = file[name][k] BY Zenon, <2>6, <2>7
      <4>2. safe[name] \in Nat /\ safe[name] <= Len(file[name]) /\ file[name] \in Seq(Frames)
        BY Zenon, <1>1, <1>3, <2>2, <2>3 DEF DiskType
      <4>3. 1..safe[name] \subseteq 1..Len(file[name]) BY <4>2
      <4>. QED BY Zenon, <4>1, <4>3
    <3>2. \A j \in Inodes : j # name => file'[j] = file[j] BY Zenon, <1>1, <2>3, <2>6, <2>7 DEF DiskType
    <3>3. /\ name \in Inodes /\ safe'[name] \in Nat /\ safe[name] <= safe'[name]
          /\ UNCHANGED <<acked, swapped>> /\ names' \subseteq names
      BY <1>1, <2>2, <2>3, <2>7 DEF DiskType
    <3>4. \A j \in Inodes : j # name => file'[j] = file[j] /\ safe'[j] = safe[j] BY Zenon, <2>7, <3>2
    <3>. QED BY Zenon, <1>5, <3>1, <3>3, <3>4
  <2>8. CASE AppendFails(p, f) BY Zenon, <1>2, <2>2, <2>5, <2>7, <2>8 DEF AppendFails
  <2>9. CASE AppendSucceeds(p, f, c)
    <3>1. CASE UNCHANGED <<safe, acked>> BY <2>5, <2>7, <2>9, <3>1 DEF AppendSucceeds
    <3>2. CASE safe' = [safe EXCEPT ![fd[p]] = Len(file'[fd[p]])] /\ acked' = f
      <4>1. Grown(p, f) BY <2>9 DEF AppendSucceeds
      <4>2. safe'[name] = Len(file[name]) + 1 /\ file'[name][Len(file[name]) + 1] = acked'
        BY Zenon, <1>1, <2>3, <2>5, <2>6, <3>2, <4>1 DEF DiskType
      <4>3. Len(file[name]) + 1 \in 1..safe'[name] BY <1>3, <2>2, <4>2
      <4>. QED BY Zenon, <1>1, <1>7, <2>2, <2>3, <2>5, <3>2, <4>2, <4>3 DEF HistoryType
    <3>. QED BY <2>9, <3>1, <3>2 DEF AppendSucceeds
  <2>. QED BY Zenon, <2>2, <2>8, <2>9
<1>10. ASSUME NEW p \in Procs, NEW x \in Payloads, CheckpointWrite(p, x)
       PROVE  HistoryType' /\ AckedSurvives'
  <2>1. PICK i \in Inodes : /\ i \notin names
                            /\ file' = [file EXCEPT ![i] = <<<<x>>>>] /\ safe' = [safe EXCEPT ![i] = 1]
    BY <1>10, Zenon DEF CheckpointWrite, Unused
  <2>2. UNCHANGED <<names, acked, swapped>> BY <1>10 DEF CheckpointWrite
  <2>3. ASSUME NEW j \in names PROVE Kept(j)'
    <3>1. j \in Inodes => file'[j] = file[j] /\ safe'[j] = safe[j] /\ safe[j] \in Nat
      BY <1>1, <2>1, <2>3 DEF DiskType
    <3>. QED BY <1>0, <2>2, <3>1, StillKept
  <2>. QED BY <1>1, <2>2, <2>3, KeptBy DEF HistoryType
<1>11. ASSUME NEW p \in Procs, CheckpointRename(p) PROVE HistoryType' /\ AckedSurvives'
  <2>1. /\ pc[p] \in Working /\ pc[p] = "publish" /\ UNCHANGED <<file, safe, acked>>
        /\ spare[p] \in Inodes
    BY Zenon, <1>11 DEF CheckpointRename, Working, LockOK, Holds, Swapping
  <2>2. CASE UNCHANGED <<names, swapped>> BY Zenon, <1>2, <2>1, <2>2
  <2>3. CASE names' = names \cup {spare[p]} /\ swapped' = spare[p]
    <3>1. PICK old \in Inodes, new \in Inodes : old = name /\ new = spare[p] BY Zenon, <1>3, <2>1
    <3>2. /\ names = {old} /\ swapped = NoInode /\ safe[new] = 1 /\ old # NoInode /\ new # NoInode
      BY Zenon, <1>3, <2>1, <3>1, JournalConstants DEF Knows, Trusted, Swapping
    <3>3. Kept(new)' BY <2>1, <2>3, <3>1, <3>2 DEF Kept
    <3>4. Kept(old)' BY Zenon, <1>0, <2>1, <3>2 DEF Kept
    <3>. QED BY Zenon, <1>1, <2>1, <2>3, <3>1, <3>2, <3>3, <3>4, KeptBy DEF HistoryType
  <2>. QED BY Zenon, <1>11, <2>2, <2>3 DEF CheckpointRename
<1>12. ASSUME NEW p \in Procs, CheckpointFinish(p) PROVE HistoryType' /\ AckedSurvives'
  <2>1. pc[p] \in Working /\ pc[p] = "published" /\ UNCHANGED <<name, file, safe, index>>
    BY Zenon, <1>12 DEF CheckpointFinish, Working
  <2>2. CASE UNCHANGED <<acked, swapped>> /\ names' \in {names, {fd[p]}}
    BY Zenon, <1>2, <1>3, <2>1, <2>2 DEF DiskOK
  <2>3. CASE names' = {fd[p]} /\ acked' = HeadOf(index[p]) /\ swapped' = NoInode
    <3>1. index[p] = file[name] /\ Len(index[p]) = 1 /\ safe[name] = 1 BY Zenon, <1>3, <2>1 DEF Knows
    <3>2. index[p] \in Seq(Seq(Payloads)) BY <1>1 DEF WorkType
    <3>3. acked' \in Seq(Payloads) /\ file[name][1] = acked' BY <2>3, <3>1, <3>2 DEF HeadOf
    <3>4. fd[p] = name /\ name \in Inodes BY Zenon, <1>3, <2>1
    <3>5. 1 \in 1..1 OBVIOUS
    <3>6. \E k \in 1..safe'[name] : file'[name][k] = acked' BY Zenon, <2>1, <3>1, <3>3, <3>5
    <3>7. names' = {name} /\ swapped' \in Inodes \cup {NoInode} BY Zenon, <2>3, <3>4
    <3>8. name' = name BY Zenon, <2>1
    <3>. QED BY Zenon, <1>7, <3>3, <3>4, <3>6, <3>7, <3>8
  <2>. QED BY Zenon, <1>12, <2>2, <2>3 DEF CheckpointFinish
<1>13. CASE PowerLoss
  <2>1. PICK i \in names :
           /\ names' = {i}
           /\ \/ i = NoInode
              \/ /\ i # NoInode
                 /\ \E left \in Remains(file[i], safe[i]) :
                       file' = [j \in Inodes |-> IF j = i THEN left ELSE <<>>]
    BY <1>13, Zenon DEF PowerLoss
  <2>2. safe' = [j \in Inodes |-> Len(file'[j])] /\ UNCHANGED <<acked, swapped>> BY Zenon, <1>13 DEF PowerLoss
  <2>3. CASE i = NoInode
    <3>1. Kept(i)' BY Zenon, <1>0, <2>2, <2>3 DEF Kept
    <3>. QED BY Zenon, <1>1, <2>1, <2>2, <3>1, KeptBy DEF HistoryType
  <2>4. CASE i # NoInode
    <3>1. PICK left \in Remains(file[i], safe[i]) :
             file' = [j \in Inodes |-> IF j = i THEN left ELSE <<>>]
      BY Zenon, <2>1, <2>4
    <3>2. i \in Inodes /\ file[i] \in Seq(Frames) /\ safe[i] \in 0..Len(file[i]) /\ Sound(file[i])
      BY <1>0, <1>1, <2>4 DEF DiskType, DiskOK
    <3>3. /\ left \in Seq(Frames) /\ safe[i] <= Len(left) /\ \A k \in 1..safe[i] : left[k] = file[i][k]
      BY Zenon, <3>2, SoundRemains
    <3>4. file'[i] = left /\ safe'[i] = Len(left) /\ safe'[i] \in Nat /\ safe[i] \in Nat
      BY <2>2, <3>1, <3>2, <3>3
    <3>5. Kept(i)' BY <1>0, <2>2, <3>2, <3>3, <3>4, StillKept, Zenon
    <3>. QED BY Zenon, <1>1, <2>1, <2>2, <3>5, KeptBy DEF HistoryType
  <2>. QED BY <2>3, <2>4
<1>14. ASSUME NEW p \in Procs, Flock(p) \/ CheckIdentity(p) \/ Close(p) \/ Crash(p) \/ ReadPage(p)
       PROVE  UNCHANGED <<names, file, safe, acked, swapped>>
  BY Zenon, <1>14 DEF Flock, CheckIdentity, Close, Crash, ReadPage
<1>15. CASE StopReading \/ UNCHANGED vars BY Zenon, <1>2, <1>15 DEF StopReading, vars
<1>. QED
  BY Zenon, <1>2, <1>4, <1>6, <1>8, <1>9, <1>10, <1>11, <1>12, <1>13, <1>14, <1>15 DEF Next

-----------------------------------------------------------------------------
(* The pages.                                                               *)

\* A page has no more frames than are left of the snapshot.
LEMMA PageFits ==
    ASSUME NEW s, NEW after \in Nat, NEW count \in Nat, NEW n \in PageLengths(s, after, count),
           after <= count
    PROVE  n \in Nat /\ after + n <= count
<1>1. n \in 0..(IF count - after < Limit THEN count - after ELSE Limit) BY DEF PageLengths
<1>. QED BY <1>1, JournalConstants

\* The payload of a frame of a chain is the one the head names at its place.
LEMMA FramePayload ==
    ASSUME NEW s \in Seq(Seq(Payloads)), Sound(s), NEW n \in 1..Len(s), NEW k \in 1..n
    PROVE  HeadOf(s[k]) = s[n][k] /\ HeadOf(s[k]) \in Payloads /\ Len(s[n]) = n
<1>1. Chained(s, k) /\ Chained(s, n)
  <2>1. s[k] \in Seq(Payloads) /\ s[n] \in Seq(Payloads) /\ k \in 1..Len(s) OBVIOUS
  <2>2. s[k] # Torn /\ s[n] # Torn BY Zenon, <2>1, TornIsNot
  <2>. QED BY Zenon, <2>1, <2>2 DEF Sound
<1>2. s[k] \in Seq(Payloads) /\ Len(s[k]) = k /\ s[k][k] = s[n][k] /\ Len(s[n]) = n
  BY <1>1 DEF Chained
<1>. QED BY <1>2 DEF HeadOf

\* A page continues the pages before it, whatever happened to the journal meanwhile.
LEMMA ReaderStep ==
    ASSUME Types, LockOK, DiskOK, WorkOK, ReaderOK, [Next]_vars
    PROVE  ReaderType' /\ ReaderOK'
<1>. USE DEF disk, proc
<1>1. DiskType /\ LockType /\ WorkType /\ ReaderType BY DEF Types
<1>2. CASE UNCHANGED reader BY Zenon, <1>1, <1>2 DEF ReaderType, ReaderOK
<1>3. CASE reader' = NotReading BY <1>3 DEF ReaderType, ReaderOK, NotReading
<1>4. ASSUME NEW p \in Procs, ReadPage(p) PROVE ReaderType' /\ ReaderOK'
  <2>1. PICK s : s = index[p] OBVIOUS
  <2>2. /\ s = file[fd[p]] /\ s \in Seq(Seq(Payloads)) /\ Sound(s) /\ Len(s) \in Nat
        /\ Len(s) <= MaxFrames
    <3>1. pc[p] = "open" /\ ~failed[p] BY Zenon, <1>4 DEF ReadPage, Writable
    <3>2. fd[p] = name /\ name \in Inodes /\ index[p] = file[name]
      BY Zenon, <3>1 DEF LockOK, Holds, Working, WorkOK, Knows, Trusted
    <3>. QED BY <1>1, <2>1, <3>2 DEF WorkType, DiskOK
  <2>3. PICK count, head, after :
           /\ count = IF reader.on THEN reader.count ELSE Len(s)
           /\ head = IF reader.on THEN reader.head ELSE HeadOf(s)
           /\ after = Len(reader.got)
    BY Zenon
  <2>4. /\ reader.on \in BOOLEAN /\ reader.count \in Nat /\ reader.head \in Seq(Payloads)
        /\ reader.got \in Seq(Payloads)
    BY <1>1 DEF ReaderType
  <2>5. /\ count \in Nat /\ after \in Nat /\ after <= count /\ count <= MaxFrames
        /\ head \in Seq(Payloads) /\ Len(head) = count
        /\ \A m \in 1..after : reader.got[m] = head[m]
    <3>1. CASE reader.on BY <2>3, <2>4, <3>1 DEF ReaderOK
    <3>2. CASE ~reader.on
      <4>1. after = 0 /\ count = Len(s) /\ head = HeadOf(s)
        BY <2>3, <3>2 DEF ReaderOK, NotReading
      <4>2. CASE s = <<>> BY <2>2, <4>1, <4>2 DEF HeadOf
      <4>3. CASE s # <<>>
        <5>1. Len(s) \in 1..Len(s) /\ head = s[Len(s)] BY <2>2, <4>1, <4>3 DEF HeadOf
        <5>. QED BY <2>2, <4>1, <5>1, FramePayload
      <4>. QED BY Zenon, <4>2, <4>3
    <3>. QED BY <3>1, <3>2
  <2>6. CASE ValidSnapshot(p, count, head)
    <3>1. PICK n \in PageLengths(s, after, count) :
             reader' = [on |-> TRUE, count |-> count, head |-> head,
                        got |-> reader.got \o [k \in 1..n |-> HeadOf(s[after + k])]]
      BY <1>4, <2>1, <2>2, <2>3, <2>6, Zenon DEF ReadPage
    <3>2. n \in Nat /\ after + n <= count BY Zenon, <2>5, <3>1, PageFits
    <3>3. ASSUME NEW k \in 1..n
          PROVE  HeadOf(s[after + k]) = head[after + k] /\ HeadOf(s[after + k]) \in Payloads
      <4>1. count > 0 /\ after + k \in 1..count BY <2>5, <3>2
      <4>2. count \in 1..Len(s) /\ s[count] = head BY <2>1, <2>2, <2>5, <2>6, <4>1 DEF ValidSnapshot
      <4>. QED BY <2>2, <4>1, <4>2, FramePayload, Zenon
    <3>4. PICK page : page = [k \in 1..n |-> HeadOf(s[after + k])] BY Zenon
    <3>5. page \in Seq(Payloads) /\ Len(page) = n /\ \A k \in 1..n : page[k] = head[after + k]
      BY <3>2, <3>3, <3>4
    <3>6. PICK got : got = reader.got \o page BY Zenon
    <3>7. got \in Seq(Payloads) /\ Len(got) = after + n BY <2>3, <2>4, <3>5, <3>6
    <3>8. ASSUME NEW m \in 1..(after + n) PROVE got[m] = head[m]
      <4>1. CASE m <= after BY <2>3, <2>4, <2>5, <3>5, <3>6, <4>1
      <4>2. CASE m > after
        <5>1. after \in Nat /\ after = Len(reader.got) /\ reader.got \in Seq(Payloads)
          BY Zenon, <2>3, <2>4, <2>5
        <5>2. PICK d : d = m - after OBVIOUS
        <5>3. d \in 1..n /\ m = after + d BY <3>2, <4>2, <5>1, <5>2
        <5>4. PICK r : r = reader.got OBVIOUS
        <5>5. got[m] = page[d]
          <6>1. r \in Seq(Payloads) /\ after = Len(r) /\ got = r \o page BY Zenon, <3>6, <5>1, <5>4
          <6>. QED BY <3>2, <3>5, <5>3, <6>1
        <5>. QED BY Zenon, <3>5, <5>3, <5>5
      <4>. QED BY <2>5, <4>1, <4>2
    <3>9. reader' = [on |-> TRUE, count |-> count, head |-> head, got |-> got] BY Zenon, <3>1, <3>4, <3>6
    <3>10. ReaderType' BY Zenon, <2>5, <3>7, <3>9 DEF ReaderType
    <3>. QED BY Zenon, <2>5, <3>2, <3>7, <3>8, <3>9, <3>10 DEF ReaderOK
  <2>7. CASE ~ValidSnapshot(p, count, head)
    BY Zenon, <1>3, <1>4, <2>1, <2>3, <2>7 DEF ReadPage
  <2>. QED BY <2>6, <2>7
<1>5. CASE StopReading BY <1>3, <1>5 DEF StopReading
<1>6. ASSUME NEW p \in Procs,
             \/ OpenPath(p) \/ Flock(p) \/ CheckIdentity(p) \/ SyncOpened(p) \/ RecoverLocked(p)
             \/ Close(p) \/ Crash(p) \/ CheckpointRename(p) \/ CheckpointFinish(p)
      PROVE  UNCHANGED reader
  BY Zenon, <1>6 DEF OpenPath, Flock, CheckIdentity, SyncOpened, RecoverLocked, Close, Crash,
              CheckpointRename, CheckpointFinish
<1>7. ASSUME NEW p \in Procs, NEW x \in Payloads,
             (\E c \in BOOLEAN : AppendFrame(p, x, c)) \/ CheckpointWrite(p, x)
      PROVE  UNCHANGED reader
  BY Zenon, <1>7 DEF AppendFrame, CheckpointWrite
<1>8. CASE PowerLoss \/ UNCHANGED vars BY Zenon, <1>2, <1>8 DEF PowerLoss, vars
<1>. QED BY Zenon, <1>2, <1>4, <1>5, <1>6, <1>7, <1>8 DEF Next

-----------------------------------------------------------------------------
(* The theorems.                                                            *)

\* The invariant holds of a fresh state directory,
LEMMA InitInvariant == Init => IInv
<1>. SUFFICES ASSUME Init PROVE IInv OBVIOUS
<1>1. DiskType BY SoundNew DEF Init, DiskType
<1>2. LockType BY DEF Init, LockType
<1>3. WorkType /\ HistoryType BY DEF Init, WorkType, HistoryType
<1>4. ReaderType /\ ReaderOK BY DEF Init, ReaderType, ReaderOK, NotReading
<1>5. LockOK BY Zenon DEF Init, LockOK, Holds, Working, Swapping
<1>6. DiskOK BY SoundNew, JournalConstants DEF Init, DiskOK
<1>7. WorkOK BY Zenon DEF Init, WorkOK, Knows, Trusted, Swapping
<1>8. AckedSurvives BY DEF Init, AckedSurvives
<1>. QED BY <1>1, <1>2, <1>3, <1>4, <1>5, <1>6, <1>7, <1>8 DEF IInv, Types

\* and every step keeps it.
LEMMA StepInvariant == IInv /\ [Next]_vars => IInv'
  BY LockStep, DiskStep, WorkStep, AckedStep, ReaderStep, Zenon DEF IInv, Types

\* The invariant holds in every state of every behaviour.
THEOREM Invariant == Spec => []IInv
<1>1. Init => IInv BY InitInvariant
<1>2. IInv /\ [Next]_vars => IInv' BY StepInvariant
<1>. QED BY <1>1, <1>2, PTL DEF Spec

\* The variables keep their types, whatever the processes and the host do.
THEOREM TypeCorrect == Spec => []TypeOK
<1>1. IInv => TypeOK
  <2>. SUFFICES ASSUME IInv PROVE TypeOK OBVIOUS
  <2>1. Types /\ DiskOK /\ ReaderOK BY DEF IInv
  <2>2. safe \in [Inodes -> 0..MaxFrames]
    <3>1. \A i \in Inodes : safe[i] \in 0..MaxFrames
      BY <2>1, JournalConstants DEF Types, DiskType, DiskOK
    <3>. QED BY <2>1, <3>1 DEF Types, DiskType
  <2>3. reader \in Reading
    BY <2>1, JournalConstants DEF Types, ReaderType, ReaderOK, NotReading, Reading
  <2>. QED BY Zenon, <2>1, <2>2, <2>3
           DEF Types, DiskType, LockType, WorkType, HistoryType, Frames, TypeOK
<1>. QED BY <1>1, Invariant, PTL

\* openLockedRegular lets at most one process work on the journal, and on the file that the
\* path names, for any number of processes and files.
THEOREM OneWriter == Spec => []SoleWriter
<1>1. IInv => SoleWriter BY Zenon DEF IInv, LockOK, Holds, Working, SoleWriter
<1>. QED BY <1>1, Invariant, PTL

\* What an append, a recovery or a checkpoint reported as durable is found again after any
\* number of failed appends, crashes and power losses.
THEOREM AckedKept == Spec => []AckedSurvives
<1>1. IInv => AckedSurvives BY DEF IInv
<1>. QED BY <1>1, Invariant, PTL

\* No file that the program leaves behind is one that recovery calls corrupt.
THEOREM NoCorruption == Spec => []NeverCorrupt
<1>1. IInv => NeverCorrupt
  <2>. SUFFICES ASSUME IInv, NEW i \in Inodes PROVE ~Corrupt(file[i]) BY DEF NeverCorrupt
  <2>1. file[i] \in Seq(Frames) /\ Sound(file[i]) BY DEF IInv, Types, DiskType, DiskOK
  <2>. QED BY <2>1, SoundComplete
<1>. QED BY <1>1, Invariant, PTL

\* The index of a journal that can be written is its file, frame by frame.
THEOREM IndexExact == Spec => []IndexMatchesFile
<1>1. IInv => IndexMatchesFile
  BY Zenon DEF IInv, IndexMatchesFile, Writable, WorkOK, Knows, Trusted, LockOK, Holds, Working
<1>. QED BY <1>1, Invariant, PTL

\* The pages a client reads against one pinned head are the payloads that head commits to,
\* in order and without a gap, for every page size and whatever happened between two pages.
THEOREM PagesExact == Spec => []PagesReassemble
<1>1. IInv => PagesReassemble
  <2>. SUFFICES ASSUME IInv, reader.on
       PROVE /\ Len(reader.head) = reader.count
             /\ reader.got = SubSeq(reader.head, 1, Len(reader.got))
    BY DEF PagesReassemble
  <2>1. /\ reader.head \in Seq(Payloads) /\ reader.got \in Seq(Payloads)
        /\ Len(reader.head) = reader.count /\ Len(reader.got) <= reader.count
        /\ \A m \in 1..Len(reader.got) : reader.got[m] = reader.head[m]
    BY Zenon DEF IInv, Types, ReaderType, ReaderOK
  <2>2. PICK n \in 0..Len(reader.head) : n = Len(reader.got) BY <2>1
  <2>3. PICK s : s = SubSeq(reader.head, 1, n) BY Zenon
  <2>4. s \in Seq(Payloads) /\ Len(s) = n /\ \A m \in 1..n : s[m] = reader.head[m] BY <2>1, <2>2, <2>3
  <2>5. reader.got = s BY <2>1, <2>2, <2>4
  <2>. QED BY Zenon, <2>1, <2>2, <2>3, <2>5
<1>. QED BY <1>1, Invariant, PTL

=============================================================================

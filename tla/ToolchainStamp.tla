----------------------------- MODULE ToolchainStamp -----------------------------
(***************************************************************************)
(* The content stamp of a compiler tool (toolchain_cache.go), computed     *)
(* while another program may replace the tool or write into it.  A file is *)
(* read chunk by chunk.  Its fingerprint is its inode and its change time. *)
(* The file system gives every change a time that no stat has shown before *)
(* and times are only compared for equality, so a time may come back once  *)
(* no fingerprint in use has it: the files may change without end.  The    *)
(* model is of the systems where the fingerprint is stable.                *)
(***************************************************************************)
EXTENDS Integers

CONSTANTS
    Caller,      \* threads that ask for the stamp
    Inode,
    Chunks,      \* the length of a file
    Byte,        \* what a chunk may hold
    Magic,       \* the bytes that begin a native image
    Time,        \* change times
    None

ASSUME ChunksAssumption == Chunks \in Nat \ {0}

ASSUME NoneAssumption == None \notin Inode \cup Caller \cup Time

VARIABLES
    path,     \* the inode the path selects, None if there is no file
    chunks,   \* what each inode holds
    ctime,    \* and when it changed last
    memo,     \* toolchainStampCache at the path
    mu,       \* toolchainStampMu
    pc, native, attempt, before, fd, after, pos, stamp, \* the locals of each caller
    seen      \* what the path held when the caller looked at it last

fs == <<path, chunks, ctime>>
locals == <<attempt, before, fd, after, pos, stamp>>
vars == <<fs, memo, mu, pc, native, locals, seen>>

Contents == [1 .. Chunks -> Byte]
NoFingerprint == [ino |-> None, ctime |-> None]
NoMemo == [print |-> NoFingerprint, stamp |-> None, native |-> FALSE]

Init ==
    /\ path \in Inode
    /\ chunks \in [Inode -> Contents]
    /\ ctime \in [Inode -> Time]
    /\ memo = NoMemo
    /\ mu = None
    /\ pc = [c \in Caller |-> "idle"]
    /\ native = [c \in Caller |-> FALSE]
    /\ attempt = [c \in Caller |-> 0]
    /\ before = [c \in Caller |-> NoFingerprint]
    /\ fd = [c \in Caller |-> None]
    /\ after = [c \in Caller |-> NoFingerprint]
    /\ pos = [c \in Caller |-> 1]
    /\ stamp = [c \in Caller |-> None]
    /\ seen = [c \in Caller |-> None]

-----------------------------------------------------------------------------
(* Other programs.                                                         *)

\* No fingerprint in use shows inode i changed at time m.
Unseen(i, m) ==
    LET print == [ino |-> i, ctime |-> m]
    IN  /\ ctime[i] # m /\ memo.print # print
        /\ \A c \in Caller : before[c] # print /\ after[c] # print

\* One chunk is written in place, or only the metadata change.
Write(i) ==
    /\ \E m \in Time : Unseen(i, m) /\ ctime' = [ctime EXCEPT ![i] = m]
    /\ \E n \in 1 .. Chunks, b \in Byte : chunks' = [chunks EXCEPT ![i] = [@ EXCEPT ![n] = b]]
    /\ UNCHANGED <<path, memo, mu, pc, native, locals, seen>>

\* Another file is renamed to the path; its inode may have been used before.
Replace(i) ==
    /\ i # path /\ \A c \in Caller : fd[c] # i
    /\ \E m \in Time : Unseen(i, m) /\ ctime' = [ctime EXCEPT ![i] = m]
    /\ \E content \in Contents : chunks' = [chunks EXCEPT ![i] = content]
    /\ path' = i
    /\ UNCHANGED <<memo, mu, pc, native, locals, seen>>

Unlink ==
    /\ path # None
    /\ path' = None
    /\ UNCHANGED <<chunks, ctime, memo, mu, pc, native, locals, seen>>

-----------------------------------------------------------------------------
(* toolchainContentStampWithNativeRequirement                              *)

\* toolchainFileFingerprint
Fingerprint(i) == [ino |-> i, ctime |-> ctime[i]]

Goto(c, place) == pc' = [pc EXCEPT ![c] = place]

Call(c) ==
    /\ pc[c] = "idle"
    /\ \E b \in BOOLEAN : native' = [native EXCEPT ![c] = b]
    /\ Goto(c, "lock")
    /\ UNCHANGED <<fs, memo, mu, locals, seen>>

Lock(c) ==
    /\ pc[c] = "lock" /\ mu = None
    /\ mu' = c
    /\ attempt' = [attempt EXCEPT ![c] = 1]
    /\ Goto(c, "stat")
    /\ UNCHANGED <<fs, memo, native, before, fd, after, pos, stamp, seen>>

\* The variables of one attempt end with it, and the descriptor is closed.
EndAttempt(c) ==
    /\ before' = [before EXCEPT ![c] = NoFingerprint]
    /\ fd' = [fd EXCEPT ![c] = None]
    /\ after' = [after EXCEPT ![c] = NoFingerprint]
    /\ pos' = [pos EXCEPT ![c] = 1]

\* The call returns, with a stamp or an error.
Leave(c, outcome, result) ==
    /\ EndAttempt(c)
    /\ attempt' = [attempt EXCEPT ![c] = 0]
    /\ mu' = None
    /\ stamp' = [stamp EXCEPT ![c] = result]
    /\ Goto(c, outcome)

Fail(c) == Leave(c, "failed", None) /\ UNCHANGED <<fs, memo, native, seen>>

Retry(c) ==
    IF attempt[c] = 3 THEN Fail(c)
    ELSE /\ EndAttempt(c)
         /\ attempt' = [attempt EXCEPT ![c] = @ + 1]
         /\ stamp' = [stamp EXCEPT ![c] = None]
         /\ Goto(c, "stat")
         /\ UNCHANGED <<fs, memo, mu, native, seen>>

\* Mutant: any memo of the same file will do.
MemoHitAny(c, print) == memo.print = print

MemoHit(c, print) == memo.print = print /\ (native[c] => memo.native)

Stat(c) ==
    /\ pc[c] = "stat" /\ path # None
    /\ IF MemoHit(c, Fingerprint(path))
       THEN /\ seen' = [seen EXCEPT ![c] = chunks[path]]
            /\ Leave(c, "done", memo.stamp)
       ELSE /\ before' = [before EXCEPT ![c] = Fingerprint(path)]
            /\ Goto(c, "open")
            /\ UNCHANGED <<mu, attempt, fd, after, pos, stamp, seen>>
    /\ UNCHANGED <<fs, memo, native>>

Open(c) ==
    /\ pc[c] = "open" /\ path # None
    /\ fd' = [fd EXCEPT ![c] = path]
    /\ Goto(c, "fstat")
    /\ UNCHANGED <<fs, memo, mu, native, attempt, before, after, pos, stamp, seen>>

\* os.Stat or open finds no file.
Missing(c) == pc[c] \in {"stat", "open", "selected"} /\ path = None /\ Fail(c)

\* opened: the descriptor is of the file that was looked at.
Fstat(c) ==
    /\ pc[c] = "fstat"
    /\ IF Fingerprint(fd[c]) = before[c]
       THEN /\ pos' = [pos EXCEPT ![c] = 1]
            /\ Goto(c, IF native[c] THEN "magic" ELSE "hash")
            /\ UNCHANGED <<fs, memo, mu, native, attempt, before, fd, after, stamp, seen>>
       ELSE Retry(c)

ReadMagic(c) ==
    /\ pc[c] = "magic"
    /\ IF chunks[fd[c]][1] \in Magic
       THEN /\ Goto(c, "hash")
            /\ UNCHANGED <<fs, memo, mu, native, locals, seen>>
       ELSE Fail(c)

\* hashOpenToolchainFile
Hash(c) ==
    LET old == IF pos[c] = 1 THEN [n \in 1 .. Chunks |-> None] ELSE stamp[c]
    IN  /\ pc[c] = "hash"
        /\ stamp' = [stamp EXCEPT ![c] = [old EXCEPT ![pos[c]] = chunks[fd[c]][pos[c]]]]
        /\ pos' = [pos EXCEPT ![c] = @ + 1]
        /\ Goto(c, IF pos[c] = Chunks THEN "after" ELSE "hash")
        /\ UNCHANGED <<fs, memo, mu, native, attempt, before, fd, after, seen>>

After(c) ==
    /\ pc[c] = "after"
    /\ after' = [after EXCEPT ![c] = Fingerprint(fd[c])]
    /\ Goto(c, "selected")
    /\ UNCHANGED <<fs, memo, mu, native, attempt, before, fd, pos, stamp, seen>>

\* Mutant: the path is not looked at again.
UnchangedOpen(c) == before[c] = after[c]

\* Mutant: the descriptor is not compared with what was opened.
UnchangedPath(c) == after[c] = Fingerprint(path)

UnchangedWhileHashed(c) == before[c] = after[c] /\ after[c] = Fingerprint(path)

Selected(c) ==
    /\ pc[c] = "selected" /\ path # None
    /\ IF UnchangedWhileHashed(c)
       THEN /\ seen' = [seen EXCEPT ![c] = chunks[path]]
            /\ memo' = [print |-> after[c], stamp |-> stamp[c], native |-> native[c]]
            /\ Leave(c, "done", stamp[c])
            /\ UNCHANGED <<fs, native>>
       ELSE Retry(c)

Return(c) ==
    /\ pc[c] \in {"done", "failed"}
    /\ native' = [native EXCEPT ![c] = FALSE]
    /\ stamp' = [stamp EXCEPT ![c] = None] /\ seen' = [seen EXCEPT ![c] = None]
    /\ Goto(c, "idle")
    /\ UNCHANGED <<fs, memo, mu, attempt, before, fd, after, pos>>

Work(c) ==
    \/ Stat(c) \/ Open(c) \/ Missing(c) \/ Fstat(c) \/ ReadMagic(c) \/ Hash(c) \/ After(c) \/ Selected(c)

Next ==
    \/ Unlink \/ \E i \in Inode : Write(i) \/ Replace(i)
    \/ \E c \in Caller : Call(c) \/ Lock(c) \/ Work(c) \/ Return(c)

Spec == Init /\ [][Next]_vars

-----------------------------------------------------------------------------
(* Properties.                                                             *)

Prints == [ino : Inode \cup {None}, ctime : Time \cup {None}]
Stamps == [1 .. Chunks -> Byte \cup {None}]

TypeOK ==
    /\ path \in Inode \cup {None}
    /\ chunks \in [Inode -> Contents] /\ ctime \in [Inode -> Time]
    /\ memo \in [print : Prints, stamp : Contents \cup {None}, native : BOOLEAN]
    /\ mu \in Caller \cup {None}
    /\ pc \in [Caller -> {"idle", "lock", "stat", "open", "fstat", "magic", "hash", "after", "selected", "done", "failed"}]
    /\ native \in [Caller -> BOOLEAN] /\ attempt \in [Caller -> 0 .. 3]
    /\ before \in [Caller -> Prints] /\ after \in [Caller -> Prints]
    /\ fd \in [Caller -> Inode \cup {None}] /\ pos \in [Caller -> 1 .. Chunks + 1]
    /\ stamp \in [Caller -> Stamps \cup Contents \cup {None}] /\ seen \in [Caller -> Contents \cup {None}]

\* The memo is right about the file as long as it has its fingerprint.
MemoInv ==
    /\ \A i \in Inode : memo.print = Fingerprint(i) => memo.stamp = chunks[i]
    /\ memo.native => memo.stamp \in Contents /\ memo.stamp[1] \in Magic

\* While a file keeps the fingerprint it had, what was read of it is what it
\* holds.
AttemptInv(c) ==
    LET same == before[c] = Fingerprint(fd[c])
    IN  /\ pc[c] \in {"fstat", "magic", "hash", "after", "selected"} => fd[c] \in Inode
        /\ pc[c] \in {"magic", "hash", "after", "selected"} => before[c].ino = fd[c]
        /\ pc[c] \in {"hash", "after", "selected"} /\ native[c] /\ same => chunks[fd[c]][1] \in Magic
        /\ pc[c] = "magic" => pos[c] = 1
        /\ pc[c] = "hash" => /\ pos[c] \in 1 .. Chunks
                             /\ pos[c] > 1 => stamp[c] \in Stamps
                             /\ same => \A n \in 1 .. pos[c] - 1 : stamp[c][n] = chunks[fd[c]][n]
        /\ pc[c] \in {"after", "selected"} => stamp[c] \in Stamps /\ (same => stamp[c] = chunks[fd[c]])
        /\ pc[c] = "done" => stamp[c] = seen[c] /\ (native[c] => stamp[c][1] \in Magic)

StampInv == TypeOK /\ MemoInv /\ \A c \in Caller : AttemptInv(c)

\* A stamp that is returned is of the complete content that the path selected
\* at the caller's last look at it, although files are replaced and written
\* while they are hashed, and is never a mixture of two versions.
StampExact == \A c \in Caller : pc[c] = "done" => stamp[c] = seen[c]

\* A caller that requires a native tool gets only the stamp of a native image,
\* also when the stamp was memoized by a caller that does not.
NativeRespected == \A c \in Caller : pc[c] = "done" /\ native[c] => stamp[c][1] \in Magic

=============================================================================

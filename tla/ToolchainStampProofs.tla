-------------------------- MODULE ToolchainStampProofs --------------------------
(***************************************************************************)
(* The stamps of ToolchainStamp are exact, for any number of callers, any  *)
(* files of any length and however they change.  The argument: a           *)
(* fingerprint that was taken of an inode and that the inode still has     *)
(* proves that its content has not changed since (StampInv), because every *)
(* change gives it a fingerprint that nobody holds (Unseen).               *)
(***************************************************************************)
EXTENDS ToolchainStamp, TLAPS

\* Other programs keep the types.
LEMMA FileStepTypes ==
    ASSUME TypeOK, NEW i \in Inode, Write(i) \/ Replace(i) \/ Unlink
    PROVE  TypeOK'
<1>1. CASE Write(i)
    BY <1>1 DEF TypeOK, Write, Contents, locals, Prints, Stamps
<1>2. CASE Replace(i)
    BY <1>2 DEF TypeOK, Replace, Contents, locals, Prints, Stamps
<1>3. CASE Unlink
    BY <1>3, Zenon DEF TypeOK, Unlink, Contents, locals, Prints, Stamps
<1> QED BY <1>1, <1>2, <1>3, Zenon

\* What changing the file i does to what is known of it, and of the others.
LEMMA ChangeInvalidates ==
    ASSUME StampInv, NEW i \in Inode, Write(i) \/ Replace(i)
    PROVE  /\ \A j \in Inode : j # i => Fingerprint(j)' = Fingerprint(j) /\ chunks'[j] = chunks[j]
           /\ memo.print # Fingerprint(i)'
           /\ \A c \in Caller : before[c] # Fingerprint(i)' /\ after[c] # Fingerprint(i)'
<1>1. CASE Write(i)
    <2>1. PICK m \in Time : Unseen(i, m) /\ ctime' = [ctime EXCEPT ![i] = m]
        BY <1>1, Zenon DEF Write
    <2>2. Fingerprint(i)' = [ino |-> i, ctime |-> m]
        BY <2>1, Zenon DEF Fingerprint, StampInv, TypeOK
    <2>3. \A j \in Inode : j # i => ctime'[j] = ctime[j] /\ chunks'[j] = chunks[j]
        BY <1>1, <2>1, Zenon DEF Write, StampInv, TypeOK
    <2> QED BY <2>1, <2>2, <2>3, Zenon DEF Fingerprint, Unseen
<1>2. CASE Replace(i)
    <2>1. PICK m \in Time : Unseen(i, m) /\ ctime' = [ctime EXCEPT ![i] = m]
        BY <1>2, Zenon DEF Replace
    <2>2. Fingerprint(i)' = [ino |-> i, ctime |-> m]
        BY <2>1, Zenon DEF Fingerprint, StampInv, TypeOK
    <2>3. \A j \in Inode : j # i => ctime'[j] = ctime[j] /\ chunks'[j] = chunks[j]
        BY <1>2, <2>1, Zenon DEF Replace, StampInv, TypeOK
    <2> QED BY <2>1, <2>2, <2>3, Zenon DEF Fingerprint, Unseen
<1> QED BY <1>1, <1>2, Zenon

\* Other programs keep the invariant.
LEMMA FileStepInv ==
    ASSUME StampInv, NEW i \in Inode, Write(i) \/ Replace(i) \/ Unlink
    PROVE  StampInv'
<1>1. TypeOK'
    BY FileStepTypes, Zenon DEF StampInv
<1>2. UNCHANGED <<memo, mu, pc, native, attempt, before, fd, after, pos, stamp, seen>>
    BY Zenon DEF Write, Replace, Unlink, locals
<1>3. CASE Unlink
    <2>1. UNCHANGED <<chunks, ctime>>
        BY <1>3, Zenon DEF Unlink
    <2> QED BY <1>1, <1>2, <2>1, Zenon DEF StampInv, MemoInv, AttemptInv, Fingerprint
<1>4. CASE Write(i) \/ Replace(i)
    <2>1. /\ \A j \in Inode : j # i => Fingerprint(j)' = Fingerprint(j) /\ chunks'[j] = chunks[j]
          /\ memo.print # Fingerprint(i)'
          /\ \A c \in Caller : before[c] # Fingerprint(i)' /\ after[c] # Fingerprint(i)'
        BY <1>4, ChangeInvalidates, Zenon
    <2>2. MemoInv'
        BY <1>2, <2>1, Zenon DEF StampInv, MemoInv
    <2>3. ASSUME NEW c \in Caller PROVE AttemptInv(c)'
        <3>1. AttemptInv(c)
            BY Zenon DEF StampInv
        <3>2. fd'[c] = fd[c] /\ before'[c] = before[c]
            BY <1>2, Zenon
        <3>3. CASE fd[c] = i
            <4>1. before'[c] # Fingerprint(fd[c])'
                BY <2>1, <3>2, <3>3, Zenon
            <4> QED BY <1>2, <3>1, <3>2, <4>1, Zenon DEF AttemptInv
        <3>4. CASE fd[c] # i /\ fd[c] \in Inode
            <4>1. Fingerprint(fd[c])' = Fingerprint(fd[c]) /\ chunks'[fd[c]] = chunks[fd[c]]
                BY <2>1, <3>2, <3>4, Zenon
            <4> QED BY <1>2, <3>1, <3>2, <4>1, Zenon DEF AttemptInv
        <3>5. CASE fd[c] \notin Inode
            BY <1>2, <3>1, <3>5, Zenon DEF AttemptInv
        <3> QED BY <3>3, <3>4, <3>5, Zenon
    <2> QED BY <1>1, <2>2, <2>3, Zenon DEF StampInv
<1> QED BY <1>3, <1>4, Zenon

\* Leaving a call, and an attempt, keep the types.
LEMMA EndAttemptTypes ==
    ASSUME TypeOK, NEW c \in Caller, EndAttempt(c)
    PROVE  /\ before' \in [Caller -> Prints] /\ after' \in [Caller -> Prints]
           /\ fd' \in [Caller -> Inode \cup {None}] /\ pos' \in [Caller -> 1 .. Chunks + 1]
<1>1. NoFingerprint \in Prints
    BY Zenon DEF NoFingerprint, Prints
<1> QED BY <1>1, ChunksAssumption DEF TypeOK, EndAttempt

LEMMA LeaveTypes ==
    ASSUME TypeOK, NEW c \in Caller, NEW outcome \in {"done", "failed"}, NEW result \in Contents \cup {None},
           Leave(c, outcome, result)
    PROVE  /\ EndAttempt(c)
           /\ attempt' \in [Caller -> 0 .. 3] /\ mu' \in Caller \cup {None}
           /\ stamp' \in [Caller -> Stamps \cup Contents \cup {None}]
           /\ pc' \in [Caller -> {"idle", "lock", "stat", "open", "fstat", "magic", "hash", "after", "selected", "done", "failed"}]
    BY DEF TypeOK, Leave, Goto

LEMMA FailTypes ==
    ASSUME TypeOK, NEW c \in Caller, Fail(c)
    PROVE  TypeOK'
<1>1. Leave(c, "failed", None) /\ UNCHANGED <<path, chunks, ctime, memo, native, seen>>
    BY Zenon DEF Fail, fs
<1>2. None \in Contents \cup {None} /\ "failed" \in {"done", "failed"}
    BY Zenon
<1>3. /\ EndAttempt(c)
      /\ attempt' \in [Caller -> 0 .. 3] /\ mu' \in Caller \cup {None}
      /\ stamp' \in [Caller -> Stamps \cup Contents \cup {None}]
      /\ pc' \in [Caller -> {"idle", "lock", "stat", "open", "fstat", "magic", "hash", "after", "selected", "done", "failed"}]
    BY <1>1, <1>2, LeaveTypes, Zenon
<1> QED BY <1>1, <1>3, EndAttemptTypes, Zenon DEF TypeOK

LEMMA RetryTypes ==
    ASSUME TypeOK, NEW c \in Caller, Retry(c)
    PROVE  TypeOK'
<1>1. CASE attempt[c] = 3
    BY <1>1, FailTypes, Zenon DEF Retry
<1>2. CASE attempt[c] # 3
    <2>1. EndAttempt(c) /\ UNCHANGED <<path, chunks, ctime, memo, mu, native, seen>>
        BY <1>2, Zenon DEF Retry, fs
    <2>2. attempt'  \in [Caller -> 0 .. 3]
        BY <1>2 DEF Retry, TypeOK
    <2>3. /\ stamp' \in [Caller -> Stamps \cup Contents \cup {None}]
          /\ pc' \in [Caller -> {"idle", "lock", "stat", "open", "fstat", "magic", "hash", "after", "selected", "done", "failed"}]
        BY <1>2, Zenon DEF Retry, TypeOK, Goto
    <2> QED BY <2>1, <2>2, <2>3, EndAttemptTypes, Zenon DEF TypeOK
<1> QED BY <1>1, <1>2, Zenon

\* The steps of a caller keep the types.
LEMMA CallerStepTypes ==
    ASSUME StampInv, NEW c \in Caller,
           Call(c) \/ Lock(c) \/ Missing(c) \/ Stat(c) \/ Open(c) \/ Fstat(c)
           \/ ReadMagic(c) \/ Hash(c) \/ After(c) \/ Selected(c) \/ Return(c)
    PROVE  TypeOK'
<1> USE ChunksAssumption DEF StampInv, TypeOK, AttemptInv, Prints, Stamps, Contents, NoFingerprint, Goto, fs, locals
<1>1. CASE Call(c)
    BY <1>1 DEF Call
<1>2. CASE Lock(c)
    BY <1>2 DEF Lock
<1>3. CASE Missing(c)
    BY <1>3, FailTypes, Zenon DEF Missing
<1>4. CASE Stat(c)
    <2>1. Fingerprint(path) \in Prints /\ chunks[path] \in Contents /\ memo.stamp \in Contents \cup {None}
        BY <1>4, Zenon DEF Stat, Fingerprint
    <2>2. CASE MemoHit(c, Fingerprint(path))
        <3>1. Leave(c, "done", memo.stamp) /\ UNCHANGED <<path, chunks, ctime, memo, native>>
            BY <1>4, <2>2, Zenon DEF Stat
        <3>2. seen' \in [Caller -> Contents \cup {None}]
            BY <1>4, <2>1, <2>2, Zenon DEF Stat
        <3>3. "done" \in {"done", "failed"}
            BY Zenon
        <3> HIDE DEF StampInv, TypeOK, Prints, Stamps, Contents
        <3>4. /\ EndAttempt(c)
              /\ attempt' \in [Caller -> 0 .. 3] /\ mu' \in Caller \cup {None}
              /\ stamp' \in [Caller -> Stamps \cup Contents \cup {None}]
              /\ pc' \in [Caller -> {"idle", "lock", "stat", "open", "fstat", "magic", "hash", "after", "selected", "done", "failed"}]
            BY <2>1, <3>1, <3>3, LeaveTypes, Zenon DEF StampInv
        <3> QED BY <3>1, <3>2, <3>4, EndAttemptTypes, Zenon DEF StampInv, TypeOK
    <2>3. CASE ~MemoHit(c, Fingerprint(path))
        <3> HIDE DEF Prints, Stamps, Contents
        <3> QED BY <1>4, <2>1, <2>3 DEF Stat
    <2> QED BY <2>2, <2>3, Zenon
<1>5. CASE Open(c)
    BY <1>5, Zenon DEF Open
<1>6. CASE Fstat(c)
    <2>1. CASE Retry(c)
        BY <2>1, RetryTypes, Zenon
    <2>2. CASE ~Retry(c)
        <3> HIDE DEF Prints, Stamps, Contents
        <3> QED BY <1>6, <2>2 DEF Fstat
    <2> QED BY <2>1, <2>2, Zenon
<1>7. CASE ReadMagic(c)
    <2>1. CASE Fail(c)
        BY <2>1, FailTypes, Zenon
    <2>2. CASE ~Fail(c)
        BY <1>7, <2>2, ZenonT(60) DEF ReadMagic
    <2> QED BY <2>1, <2>2, Zenon
<1>8. CASE Hash(c)
    BY <1>8 DEF Hash
<1>9. CASE After(c)
    BY <1>9, Zenon DEF After, Fingerprint
<1>10. CASE Selected(c)
    <2>1. CASE Retry(c)
        BY <2>1, RetryTypes, Zenon
    <2>2. CASE UnchangedWhileHashed(c)
        <3>1. path \in Inode /\ after[c] = Fingerprint(path) /\ before[c] = after[c] /\ fd[c] \in Inode /\ before[c].ino = fd[c]
            BY <1>10, <2>2, Zenon DEF Selected, UnchangedWhileHashed
        <3>2. path = fd[c] /\ stamp[c] = chunks[path]
            BY <1>10, <3>1 DEF Selected, Fingerprint
        <3>3. stamp[c] \in Contents
            BY <3>1, <3>2, Zenon
        <3>4. native[c] \in BOOLEAN
            BY Zenon
        <3> HIDE DEF Prints, Stamps, Contents
        <3>5. memo' \in [print : Prints, stamp : Contents \cup {None}, native : BOOLEAN]
            BY <1>10, <2>2, <3>3, <3>4 DEF Selected
        <3>6. seen' \in [Caller -> Contents \cup {None}]
            BY <1>10, <2>2, <3>1 DEF Selected
        <3>7. Leave(c, "done", stamp[c]) /\ UNCHANGED <<path, chunks, ctime, native>>
            BY <1>10, <2>2, Zenon DEF Selected
        <3>8. stamp[c] \in Contents \cup {None} /\ "done" \in {"done", "failed"}
            BY <3>3, Zenon
        <3> HIDE DEF StampInv, TypeOK
        <3>9. /\ EndAttempt(c)
              /\ attempt' \in [Caller -> 0 .. 3] /\ mu' \in Caller \cup {None}
              /\ stamp' \in [Caller -> Stamps \cup Contents \cup {None}]
              /\ pc' \in [Caller -> {"idle", "lock", "stat", "open", "fstat", "magic", "hash", "after", "selected", "done", "failed"}]
            BY <3>7, <3>8, LeaveTypes, Zenon DEF StampInv
        <3> QED BY <3>5, <3>6, <3>7, <3>9, EndAttemptTypes, Zenon DEF StampInv, TypeOK
    <2> QED BY <1>10, <2>1, <2>2, Zenon DEF Selected
<1>11. CASE Return(c)
    BY <1>11, Zenon DEF Return
<1> QED BY <1>1, <1>2, <1>3, <1>4, <1>5, <1>6, <1>7, <1>8, <1>9, <1>10, <1>11, Zenon

\* A caller memoizes only the content of the file that has the fingerprint.
LEMMA SelectedExact ==
    ASSUME StampInv, NEW c \in Caller, Selected(c), UnchangedWhileHashed(c)
    PROVE  /\ path \in Inode /\ path = fd[c] /\ after[c] = Fingerprint(path)
           /\ stamp[c] = chunks[path] /\ stamp[c] \in Contents
           /\ native[c] => stamp[c][1] \in Magic
<1>1. path \in Inode /\ after[c] = Fingerprint(path) /\ before[c] = after[c] /\ pc[c] = "selected"
    BY Zenon DEF StampInv, TypeOK, Selected, UnchangedWhileHashed
<1>2. AttemptInv(c)
    BY Zenon DEF StampInv
<1>3. fd[c] \in Inode /\ before[c].ino = fd[c]
    BY <1>1, <1>2, Zenon DEF AttemptInv
<1>4. path = fd[c] /\ before[c] = Fingerprint(fd[c])
    BY <1>1, <1>3 DEF Fingerprint
<1>5. stamp[c] = chunks[path] /\ (native[c] => stamp[c][1] \in Magic)
    BY <1>1, <1>2, <1>4, Zenon DEF AttemptInv
<1>6. chunks[path] \in Contents
    BY <1>1, Zenon DEF StampInv, TypeOK
<1> QED BY <1>1, <1>4, <1>5, <1>6, Zenon

\* The steps of a caller keep the memo right.
LEMMA CallerStepMemo ==
    ASSUME StampInv, NEW c \in Caller,
           Call(c) \/ Lock(c) \/ Missing(c) \/ Stat(c) \/ Open(c) \/ Fstat(c)
           \/ ReadMagic(c) \/ Hash(c) \/ After(c) \/ Selected(c) \/ Return(c)
    PROVE  MemoInv' /\ UNCHANGED <<path, chunks, ctime>>
<1>1. UNCHANGED <<path, chunks, ctime>>
    BY Zenon DEF Call, Lock, Missing, Stat, Open, Fstat, ReadMagic, Hash, After, Selected, Return, Retry, Fail, fs
<1>2. CASE Selected(c) /\ UnchangedWhileHashed(c)
    <2>1. memo' = [print |-> after[c], stamp |-> stamp[c], native |-> native[c]]
        BY <1>2, Zenon DEF Selected
    <2>2. /\ path \in Inode /\ path = fd[c] /\ after[c] = Fingerprint(path)
          /\ stamp[c] = chunks[path] /\ stamp[c] \in Contents
          /\ native[c] => stamp[c][1] \in Magic
        BY <1>2, SelectedExact, Zenon
    <2>3. memo'.print = Fingerprint(path) /\ memo'.stamp = chunks[path] /\ memo'.native = native[c]
        BY <2>1, <2>2, Zenon
    <2>4. memo'.native => memo'.stamp \in Contents /\ memo'.stamp[1] \in Magic
        BY <2>2, <2>3, Zenon
    <2>5. ASSUME NEW i \in Inode, memo'.print = Fingerprint(i)' PROVE memo'.stamp = chunks'[i]
        <3>1. i = path
            BY <1>1, <2>3, <2>5 DEF Fingerprint
        <3> QED BY <1>1, <2>3, <3>1, Zenon
    <2> QED BY <1>1, <2>4, <2>5, Zenon DEF MemoInv
<1>3. CASE ~(Selected(c) /\ UnchangedWhileHashed(c))
    <2>1. memo' = memo
        BY <1>3, Zenon DEF Call, Lock, Missing, Stat, Open, Fstat, ReadMagic, Hash, After, Selected, Return, Retry, Fail
    <2> QED BY <1>1, <2>1, Zenon DEF StampInv, MemoInv, Fingerprint
<1> QED BY <1>1, <1>2, <1>3, Zenon

\* Ending an attempt leaves nothing to be known of it.
LEMMA RetryInv ==
    ASSUME StampInv, NEW c \in Caller, Retry(c) \/ Fail(c)
    PROVE  pc'[c] \in {"stat", "failed"}
    BY Zenon DEF Retry, Fail, Leave, Goto, StampInv, TypeOK

\* The steps of a caller keep what it knows of its file.
LEMMA CallerStepOwn ==
    ASSUME StampInv, NEW c \in Caller,
           Call(c) \/ Lock(c) \/ Missing(c) \/ Stat(c) \/ Open(c) \/ Fstat(c)
           \/ ReadMagic(c) \/ Hash(c) \/ After(c) \/ Selected(c) \/ Return(c)
    PROVE  AttemptInv(c)'
<1>0. AttemptInv(c) /\ TypeOK /\ MemoInv
    BY Zenon DEF StampInv
<1>f. UNCHANGED <<path, chunks, ctime>>
    BY CallerStepMemo, Zenon
<1>r. ASSUME pc'[c] \in {"idle", "lock", "stat", "open", "failed"} PROVE AttemptInv(c)'
    BY <1>r, Zenon DEF AttemptInv
<1>1. CASE Call(c) \/ Lock(c) \/ Missing(c) \/ Return(c) \/ Retry(c) \/ Fail(c)
    <2>1. pc'[c] \in {"idle", "lock", "stat", "failed"}
        BY <1>1, RetryInv, Zenon DEF Call, Lock, Missing, Return, Goto, StampInv, TypeOK
    <2> QED BY <1>r, <2>1, Zenon
<1>2. CASE Stat(c)
    <2>1. CASE ~MemoHit(c, Fingerprint(path))
        <3>1. pc'[c] = "open"
            BY <1>2, <2>1, Zenon DEF Stat, Goto, StampInv, TypeOK
        <3> QED BY <1>r, <3>1, Zenon
    <2>2. CASE MemoHit(c, Fingerprint(path))
        <3>1. pc'[c] = "done" /\ stamp'[c] = memo.stamp /\ seen'[c] = chunks[path] /\ native'[c] = native[c]
            BY <1>2, <2>2, <1>0 DEF Stat, Leave, Goto, TypeOK
        <3>2. path \in Inode
            BY <1>2, <1>0, Zenon DEF Stat, TypeOK
        <3>3. memo.stamp = chunks[path] /\ (native[c] => memo.stamp[1] \in Magic)
            BY <1>0, <2>2, <3>2, Zenon DEF MemoHit, MemoInv
        <3> QED BY <3>1, <3>3, Zenon DEF AttemptInv
    <2> QED BY <2>1, <2>2, Zenon
<1>3. CASE Open(c)
    <2>1. pc'[c] = "fstat" /\ fd'[c] \in Inode
        BY <1>3, <1>0 DEF Open, Goto, TypeOK
    <2> QED BY <2>1, Zenon DEF AttemptInv
<1>4. CASE Fstat(c) /\ ~Retry(c)
    <2>1. /\ Fingerprint(fd[c]) = before[c] /\ pos'[c] = 1 /\ fd[c] \in Inode
          /\ pc'[c] = IF native[c] THEN "magic" ELSE "hash"
          /\ UNCHANGED <<fd, before, native, stamp>>
        BY <1>4, <1>0, Zenon DEF Fstat, Goto, TypeOK, AttemptInv
    <2>2. before[c].ino = fd[c]
        BY <2>1 DEF Fingerprint
    <2> QED BY <1>0, <2>1, <2>2, ChunksAssumption DEF AttemptInv
<1>5. CASE ReadMagic(c) /\ ~Fail(c)
    <2>1. /\ pc[c] = "magic" /\ pc'[c] = "hash" /\ chunks[fd[c]][1] \in Magic
          /\ UNCHANGED <<fd, before, native, stamp, pos>>
        BY <1>5, <1>0, Zenon DEF ReadMagic, Goto, TypeOK, locals
    <2> QED BY <1>0, <1>f, <2>1, ChunksAssumption DEF AttemptInv, Fingerprint
<1>6. CASE Hash(c)
    <2>1. pc[c] = "hash" /\ pos[c] \in 1 .. Chunks /\ fd[c] \in Inode /\ before[c].ino = fd[c]
        BY <1>0, <1>6, Zenon DEF Hash, AttemptInv
    <2>2. PICK old : /\ old = IF pos[c] = 1 THEN [n \in 1 .. Chunks |-> None] ELSE stamp[c]
                     /\ stamp' = [stamp EXCEPT ![c] = [old EXCEPT ![pos[c]] = chunks[fd[c]][pos[c]]]]
        BY <1>6, Zenon DEF Hash
    <2>3. old \in Stamps
        BY <1>0, <2>1, <2>2 DEF AttemptInv, Stamps
    <2>4. chunks[fd[c]][pos[c]] \in Byte
        <3>1. chunks[fd[c]] \in Contents
            BY <1>0, <2>1, Zenon DEF TypeOK
        <3> QED BY <2>1, <3>1, Zenon DEF Contents
    <2>5. stamp'[c] = [old EXCEPT ![pos[c]] = chunks[fd[c]][pos[c]]]
        BY <1>0, <2>2, Zenon DEF TypeOK
    <2>6. stamp'[c] \in Stamps
        BY <2>1, <2>3, <2>4, <2>5, Zenon DEF Stamps
    <2>7. ASSUME before[c] = Fingerprint(fd[c]) PROVE \A n \in 1 .. pos[c] : stamp'[c][n] = chunks[fd[c]][n]
        <3>1. \A n \in 1 .. pos[c] - 1 : old[n] = chunks[fd[c]][n]
            BY <1>0, <2>1, <2>2, <2>7 DEF AttemptInv
        <3> QED BY <2>1, <2>3, <2>5, <3>1, SMTT(30) DEF Stamps
    <2>8. /\ pos'[c] = pos[c] + 1 /\ UNCHANGED <<fd, before, native>>
          /\ pc'[c] = IF pos[c] = Chunks THEN "after" ELSE "hash"
        BY <1>0, <1>6, Zenon DEF Hash, Goto, TypeOK
    <2>9. Fingerprint(fd[c])' = Fingerprint(fd[c])
        BY <1>f, <2>8, Zenon DEF Fingerprint
    <2>10. CASE pos[c] = Chunks
        <3>1. before[c] = Fingerprint(fd[c]) => stamp'[c] = chunks[fd[c]]
            <4>1. chunks[fd[c]] \in Contents
                BY <1>0, <2>1, Zenon DEF TypeOK
            <4>2. PICK s, t : s = stamp'[c] /\ t = chunks[fd[c]]
                BY Zenon
            <4>3. DOMAIN s = 1 .. Chunks /\ DOMAIN t = 1 .. Chunks /\ s = [n \in DOMAIN s |-> s[n]] /\ t = [n \in DOMAIN t |-> t[n]]
                BY <2>6, <4>1, <4>2, Zenon DEF Stamps, Contents
            <4>4. before[c] = Fingerprint(fd[c]) => \A n \in 1 .. Chunks : s[n] = t[n]
                BY <2>7, <2>10, <4>2, Zenon
            <4>5. before[c] = Fingerprint(fd[c]) => s = t
                BY <4>3, <4>4, Zenon
            <4> QED BY <4>2, <4>5, Zenon
        <3>2. pc'[c] = "after"
            BY <2>8, <2>10, Zenon
        <3> QED BY <1>0, <1>f, <2>1, <2>6, <2>8, <2>9, <3>1, <3>2, Zenon DEF AttemptInv
    <2>11. CASE pos[c] # Chunks
        <3>1. pc'[c] = "hash" /\ pos'[c] \in 1 .. Chunks /\ pos'[c] - 1 = pos[c]
            BY <2>1, <2>8, <2>11, ChunksAssumption
        <3>2. before[c] = Fingerprint(fd[c]) => \A n \in 1 .. pos'[c] - 1 : stamp'[c][n] = chunks[fd[c]][n]
            BY <2>7, <3>1, Zenon
        <3> QED BY <1>0, <1>f, <2>1, <2>6, <2>8, <2>9, <3>1, <3>2, Zenon DEF AttemptInv
    <2> QED BY <2>10, <2>11, Zenon
<1>7. CASE After(c)
    <2>1. /\ pc[c] = "after" /\ pc'[c] = "selected"
          /\ UNCHANGED <<fd, before, native, stamp>>
        BY <1>0, <1>7, Zenon DEF After, Goto, TypeOK
    <2> QED BY <1>0, <1>f, <2>1, Zenon DEF AttemptInv, Fingerprint
<1>8. CASE Selected(c) /\ ~Retry(c)
    <2>1. UnchangedWhileHashed(c) /\ Selected(c)
        BY <1>8, Zenon DEF Selected
    <2>2. stamp[c] = chunks[path] /\ (native[c] => stamp[c][1] \in Magic)
        BY <2>1, SelectedExact, Zenon
    <2>3. pc'[c] = "done" /\ stamp'[c] = stamp[c] /\ seen'[c] = chunks[path] /\ native'[c] = native[c]
        BY <1>0, <2>1 DEF Selected, Leave, Goto, TypeOK
    <2> QED BY <2>2, <2>3, Zenon DEF AttemptInv
<1> QED BY <1>1, <1>2, <1>3, <1>4, <1>5, <1>6, <1>7, <1>8, Zenon

\* The steps of a caller leave the others alone.
LEMMA CallerStepOthers ==
    ASSUME StampInv, NEW c \in Caller, NEW v \in Caller, v # c,
           Call(c) \/ Lock(c) \/ Missing(c) \/ Stat(c) \/ Open(c) \/ Fstat(c)
           \/ ReadMagic(c) \/ Hash(c) \/ After(c) \/ Selected(c) \/ Return(c)
    PROVE  AttemptInv(v)'
<1>0. AttemptInv(v) /\ TypeOK
    BY Zenon DEF StampInv
<1>1. UNCHANGED <<path, chunks, ctime>>
    BY CallerStepMemo, Zenon
<1>2. pc'[v] = pc[v] /\ native'[v] = native[v]
    BY <1>0, Zenon DEF TypeOK, Call, Lock, Missing, Stat, Open, Fstat, ReadMagic, Hash, After, Selected, Return,
                Retry, Fail, Leave, Goto, locals
<1>3. before'[v] = before[v] /\ fd'[v] = fd[v] /\ pos'[v] = pos[v]
    BY <1>0, Zenon DEF TypeOK, Call, Lock, Missing, Stat, Open, Fstat, ReadMagic, Hash, After, Selected, Return,
                Retry, Fail, Leave, EndAttempt, locals
<1>4. stamp'[v] = stamp[v] /\ seen'[v] = seen[v]
    BY <1>0, Zenon DEF TypeOK, Call, Lock, Missing, Stat, Open, Fstat, ReadMagic, Hash, After, Selected, Return,
                Retry, Fail, Leave, locals
<1> QED BY <1>0, <1>1, <1>2, <1>3, <1>4, Zenon DEF AttemptInv, Fingerprint

\* The invariant holds when the program starts.
LEMMA InitInv == Init => StampInv
<1> SUFFICES ASSUME Init PROVE StampInv
    BY Zenon
<1>1. TypeOK
    BY ChunksAssumption DEF Init, TypeOK, NoMemo, NoFingerprint, Prints
<1>2. MemoInv
    BY NoneAssumption, Zenon DEF Init, MemoInv, NoMemo, NoFingerprint, Fingerprint
<1>3. \A c \in Caller : AttemptInv(c)
    BY Zenon DEF Init, AttemptInv
<1> QED BY <1>1, <1>2, <1>3, Zenon DEF StampInv

\* While a file keeps its fingerprint, the memo and what callers have read of
\* it are right about it.
THEOREM StampInvariant == Spec => []StampInv
<1>1. StampInv /\ [Next]_vars => StampInv'
    <2> SUFFICES ASSUME StampInv, [Next]_vars PROVE StampInv'
        BY Zenon
    <2>1. CASE Unlink
        <3>1. CASE Inode = {}
            BY <2>1, <3>1, Zenon DEF Unlink, StampInv, TypeOK
        <3>2. CASE Inode # {}
            BY <2>1, <3>2, FileStepInv, Zenon
        <3> QED BY <3>1, <3>2, Zenon
    <2>2. ASSUME NEW i \in Inode, Write(i) \/ Replace(i) PROVE StampInv'
        BY <2>2, FileStepInv, Zenon
    <2>3. ASSUME NEW c \in Caller, Call(c) \/ Lock(c) \/ Work(c) \/ Return(c) PROVE StampInv'
        <3>1. Call(c) \/ Lock(c) \/ Missing(c) \/ Stat(c) \/ Open(c) \/ Fstat(c)
              \/ ReadMagic(c) \/ Hash(c) \/ After(c) \/ Selected(c) \/ Return(c)
            BY <2>3, Zenon DEF Work
        <3>2. TypeOK' /\ MemoInv'
            BY <3>1, CallerStepTypes, CallerStepMemo, Zenon
        <3>3. ASSUME NEW v \in Caller PROVE AttemptInv(v)'
            BY <3>1, CallerStepOwn, CallerStepOthers, Zenon
        <3> QED BY <3>2, <3>3, Zenon DEF StampInv
    <2>4. CASE UNCHANGED vars
        BY <2>4 DEF vars, fs, locals, StampInv, TypeOK, MemoInv, AttemptInv, Fingerprint
    <2> QED BY <2>1, <2>2, <2>3, <2>4, Zenon DEF Next
<1> HIDE DEF StampInv
<1> QED BY InitInv, <1>1, PTL DEF Spec

\* toolchainContentStamp returns the stamp of a content the path selected, for
\* any number of callers and however the files change.
THEOREM StampsExact == Spec => []StampExact
<1>1. StampInv => StampExact
    BY Zenon DEF StampInv, AttemptInv, StampExact
<1> QED BY <1>1, StampInvariant, PTL

\* toolchainNativeContentStamp returns only stamps of native images.
THEOREM StampsNative == Spec => []NativeRespected
<1>1. StampInv => NativeRespected
    BY Zenon DEF StampInv, AttemptInv, NativeRespected
<1> QED BY <1>1, StampInvariant, PTL

=============================================================================

----------------------------- MODULE FileLogger -----------------------------
(***************************************************************************)
(* logger.FileLogger: lines appended to a file that is renamed to a chain  *)
(* of numbered backups when it is full, by goroutines that share fl.mu,    *)
(* beside a Close that does not take it, and a program that may be killed  *)
(* at any point of a rotation and started again over the files it left.    *)
(*                                                                         *)
(* Name 0 is the log file, name i its backup ".i".  A line is its number   *)
(* and its size, newline included.                                         *)
(***************************************************************************)
EXTENDS FiniteSets, LogLines

CONSTANTS
  Writers,      \* goroutines that write
  MaxSize,      \* fl.maxSize
  BackupCounts, \* bound: values of fl.backupCount
  Sizes,        \* bound: sizes of lines
  MaxLines,     \* bound: lines that are written
  MaxBoots,     \* bound: how often the program is started
  MaxFaults,    \* bound: renames and opens that fail
  Nobody        \* fl.mu is free

ASSUME FileLoggerAssumption ==
  /\ MaxSize \in Nat /\ BackupCounts \subseteq Nat /\ MaxLines \in Nat
  /\ MaxBoots \in Nat /\ MaxFaults \in Nat
  /\ Sizes \subseteq Nat \ {0} /\ Sizes # {}
  /\ Nobody \notin Writers \cup {"init"}
  /\ "init" \notin Writers

VARIABLES
  backupCount,  \* fl.backupCount, which never changes
  files,        \* the lines of the files that exist
  up,           \* the program is running
  enabled,      \* fl.enabled
  handle,       \* fl.file: "nil", or an open or a closed file
  currentSize,  \* fl.currentSize
  rotatedCount, \* fl.rotatedCount
  holder,       \* who holds fl.mu
  at,           \* where the holder is in init, Write and rotate
  shifting,     \* i of the renaming loop of rotate
  size,         \* lineSize of the Write that holds fl.mu
  waiting,      \* writers that have found a file and wait for fl.mu
  closer,       \* where Close is
  count,        \* history: lines Write has taken to the file
  boots,        \* history: how often the program was started
  faults,       \* history: operations that failed
  mishaps       \* history: "rename" or "open" failed, "close" was called

logFields == <<backupCount, enabled, handle, currentSize, rotatedCount>>
locked == <<holder, at, shifting, size, waiting>>
history == <<count, boots, faults, mishaps>>
fileVars == <<backupCount, files, up, logFields, locked, closer, history>>

FileInit ==
  /\ backupCount \in BackupCounts
  /\ files = [i \in {} |-> <<>>]
  /\ up = FALSE
  /\ enabled = FALSE
  /\ handle = "nil"
  /\ currentSize = 0
  /\ rotatedCount = 0
  /\ holder = Nobody
  /\ at = "none"
  /\ shifting = 0
  /\ size = 0
  /\ waiting = {}
  /\ closer = "no"
  /\ count = 0
  /\ boots = 0
  /\ faults = 0
  /\ mishaps = {}

Exists(i) == i \in DOMAIN files

Rename(i, j) ==
  files' = [k \in (DOMAIN files \ {i}) \cup {j} |-> IF k = j THEN files[i] ELSE files[k]]

\* O_CREATE: an existing file keeps its lines.
Create(i) == files' = [k \in DOMAIN files \cup {i} |-> IF Exists(k) THEN files[k] ELSE <<>>]

Fails(kind) ==
  /\ faults < MaxFaults
  /\ faults' = faults + 1
  /\ mishaps' = mishaps \cup {kind}
  /\ UNCHANGED <<count, boots>>
-----------------------------------------------------------------------------
(* NewFileLogger and init *)

\* An init that does not look at the file the last run left.
BootForgetsSize ==
  /\ ~up /\ boots < MaxBoots
  /\ up' = TRUE
  /\ enabled' = TRUE
  /\ handle' = "nil"
  /\ rotatedCount' = 0
  /\ currentSize' = 0
  /\ holder' = "init"
  /\ at' = "open"
  /\ closer' = "no"
  /\ boots' = boots + 1
  /\ UNCHANGED <<backupCount, files, shifting, size, waiting, count, faults, mishaps>>

\* The program starts; a file that is full already is rotated first.
Boot ==
  /\ ~up /\ boots < MaxBoots
  /\ up' = TRUE
  /\ enabled' = TRUE
  /\ handle' = "nil"
  /\ rotatedCount' = 0
  /\ currentSize' = IF Exists(0) THEN TotalSize(files[0]) ELSE 0
  /\ holder' = "init"
  /\ at' = IF Exists(0) /\ currentSize' >= MaxSize THEN "remove" ELSE "open"
  /\ closer' = "no"
  /\ boots' = boots + 1
  /\ UNCHANGED <<backupCount, files, shifting, size, waiting, count, faults, mishaps>>

\* An open that empties the file the last run left.
InitOpenTruncates ==
  /\ at = "open"
  /\ files' = [k \in DOMAIN files \cup {0} |-> IF k = 0 THEN <<>> ELSE files[k]]
  /\ handle' = "open"
  /\ holder' = Nobody
  /\ at' = "none"
  /\ UNCHANGED <<backupCount, up, enabled, currentSize, rotatedCount, shifting, size,
                 waiting, closer, history>>

\* A logger whose file cannot be opened is disabled.
InitOpen ==
  /\ at = "open"
  /\ \/ /\ Create(0)
        /\ handle' = "open"
        /\ UNCHANGED <<enabled, history>>
     \/ /\ Fails("open")
        /\ enabled' = FALSE
        /\ UNCHANGED <<files, handle>>
  /\ holder' = Nobody
  /\ at' = "none"
  /\ UNCHANGED <<backupCount, up, currentSize, rotatedCount, shifting, size, waiting, closer>>

\* The program is killed: what is left is the files.
Crash ==
  /\ up
  /\ up' = FALSE
  /\ enabled' = FALSE
  /\ handle' = "nil"
  /\ currentSize' = 0
  /\ rotatedCount' = 0
  /\ holder' = Nobody
  /\ at' = "none"
  /\ shifting' = 0
  /\ size' = 0
  /\ waiting' = {}
  /\ closer' = "no"
  /\ UNCHANGED <<backupCount, files, history>>
-----------------------------------------------------------------------------
(* rotate, called with fl.mu held *)

Keep == UNCHANGED <<backupCount, up, enabled, holder, size, waiting, closer>>

\* A rotation that removes the backup before the oldest.
RemoveOffByOne ==
  /\ at = "remove"
  /\ rotatedCount' = rotatedCount + 1
  /\ files' = [i \in DOMAIN files \ ({backupCount - 1} \ {0}) |-> files[i]]
  /\ shifting' = backupCount - 1
  /\ at' = "shift"
  /\ Keep /\ UNCHANGED <<handle, currentSize, history>>

\* The oldest backup goes; without backups there is none of that name.
RemoveOldest ==
  /\ at = "remove"
  /\ rotatedCount' = rotatedCount + 1
  /\ files' = [i \in DOMAIN files \ ({backupCount} \ {0}) |-> files[i]]
  /\ shifting' = backupCount - 1
  /\ at' = "shift"
  /\ Keep /\ UNCHANGED <<handle, currentSize, history>>

\* Each backup takes the next number, the oldest first.  An error is ignored.
Shift ==
  /\ at = "shift"
  /\ \/ /\ shifting >= 1
        /\ \/ /\ IF Exists(shifting) THEN Rename(shifting, shifting + 1) ELSE UNCHANGED files
              /\ UNCHANGED history
           \/ /\ Exists(shifting) /\ Fails("rename")
              /\ UNCHANGED files
        /\ shifting' = shifting - 1
        /\ UNCHANGED at
     \/ /\ shifting < 1
        /\ at' = "close"
        /\ UNCHANGED <<files, shifting, history>>
  /\ Keep /\ UNCHANGED <<handle, currentSize, rotatedCount>>

CloseOld ==
  /\ at = "close"
  /\ handle' = IF handle = "open" THEN "closed" ELSE handle
  /\ at' = "current"
  /\ Keep /\ UNCHANGED <<files, currentSize, rotatedCount, shifting, history>>

\* The log file becomes ".1", over whatever has that name.
RenameCurrent ==
  /\ at = "current"
  /\ \/ /\ IF Exists(0) THEN Rename(0, 1) ELSE UNCHANGED files
        /\ UNCHANGED history
     \/ /\ Exists(0) /\ Fails("rename")
        /\ UNCHANGED files
  /\ at' = "reopen"
  /\ Keep /\ UNCHANGED <<handle, currentSize, rotatedCount, shifting>>

\* A failed open leaves the closed file and the size that called for the rotation.
Reopen ==
  /\ at = "reopen"
  /\ \/ /\ Create(0)
        /\ handle' = "open"
        /\ currentSize' = 0
        /\ UNCHANGED history
     \/ /\ Fails("open")
        /\ UNCHANGED <<files, handle, currentSize>>
  /\ at' = IF holder = "init" THEN "open" ELSE "write"
  /\ Keep /\ UNCHANGED <<rotatedCount, shifting>>
-----------------------------------------------------------------------------
(* Write and Close *)

\* The test without the lock; a call that fails it returns and changes nothing.
WriteCheck(w) ==
  /\ enabled /\ handle # "nil"
  /\ w \notin waiting /\ w # holder
  /\ count + Cardinality(waiting \cup ({holder} \cap Writers)) < MaxLines
  /\ waiting' = waiting \cup {w}
  /\ UNCHANGED <<files, up, logFields, holder, at, shifting, size, closer, history>>

\* The new size is counted before the file is known to have room for it.
WriteLock(w) ==
  /\ w \in waiting
  /\ holder = Nobody
  /\ holder' = w
  /\ waiting' = waiting \ {w}
  /\ \E s \in Sizes :
       /\ size' = s
       /\ currentSize' = currentSize + s
       /\ at' = IF currentSize + s >= MaxSize THEN "remove" ELSE "write"
  /\ UNCHANGED <<backupCount, files, up, enabled, handle, rotatedCount, shifting, closer, history>>

\* WriteString, whose error is ignored, a closed or missing file's included.
WriteLine ==
  /\ at = "write"
  /\ count' = count + 1
  /\ files' = IF handle = "open"
              THEN [files EXCEPT ![0] = Append(@, [no |-> count + 1, size |-> size])]
              ELSE files
  /\ holder' = Nobody
  /\ at' = "none"
  /\ size' = 0
  /\ UNCHANGED <<up, logFields, shifting, waiting, closer, boots, faults, mishaps>>

\* Close reads and resets fl.file without the lock, which GetStats takes in between.
Close ==
  /\ \/ /\ closer = "no" /\ up /\ holder # "init" /\ handle # "nil"
        /\ closer' = "stats"
        /\ mishaps' = mishaps \cup {"close"}
        /\ UNCHANGED handle
     \/ /\ closer = "stats" /\ holder = Nobody
        /\ closer' = "close"
        /\ UNCHANGED <<handle, mishaps>>
     \/ /\ closer = "close"
        /\ handle' = IF handle = "open" THEN "closed" ELSE handle
        /\ closer' = "nil"
        /\ UNCHANGED mishaps
     \/ /\ closer = "nil"
        /\ handle' = "nil"
        /\ closer' = "done"
        /\ UNCHANGED mishaps
  /\ UNCHANGED <<backupCount, files, up, enabled, currentSize, rotatedCount, locked, count, boots, faults>>
-----------------------------------------------------------------------------
Rotate == RemoveOldest \/ Shift \/ CloseOld \/ RenameCurrent \/ Reopen

FileNext ==
  \/ Boot \/ InitOpen \/ Crash \/ Rotate \/ WriteLine \/ Close
  \/ \E w \in Writers : WriteCheck(w) \/ WriteLock(w)
-----------------------------------------------------------------------------
(* Properties *)

Oldest == IF backupCount > 1 THEN backupCount ELSE 1

\* A line by the name of its file and its place there.
Retained == UNION {{<<i, k>> : k \in 1..Len(files[i])} : i \in DOMAIN files}
LineNo(p) == files[p[1]][p[2]].no

\* A reader goes through the backups from the oldest down, and then the file.
ReadBefore(p, q) == p[1] > q[1] \/ (p[1] = q[1] /\ p[2] < q[2])

\* Rotation loses the oldest lines only: what the files hold are the last lines
\* written, in order and without a gap, also halfway through a rotation and when
\* the program is killed there and started again.  Only a rename that failed, a
\* file that could not be opened, or a Close beside a Write may cost other lines
\* (rotate, init, Write).
NoLineLost ==
  mishaps = {} =>
    /\ \A p, q \in Retained : ReadBefore(p, q) => LineNo(p) < LineNo(q)
    /\ \A p \in Retained : \A n \in LineNo(p)..count : \E q \in Retained : LineNo(q) = n
    /\ \A p \in Retained : LineNo(p) <= count

\* As long as nothing failed, every rotation adds a backup until there are
\* backupCount of them: none is removed before its time (rotate).
BackupsKept ==
  (mishaps = {} /\ boots = 1 /\ holder = Nobody /\ up) =>
    Cardinality(DOMAIN files \ {0}) =
      IF rotatedCount < Oldest THEN rotatedCount ELSE Oldest

\* But for one line, no file of several outgrows the limit: the line that calls for
\* a rotation is the first of the new file and is not counted there, and a file
\* found at the start counts with its size (Write, init).  A log file that could
\* not be renamed counts as empty and grows on.
FilesBounded ==
  "rename" \notin mishaps =>
    \A i \in DOMAIN files : Len(files[i]) > 1 =>
      \E s \in Sizes : TotalSize(files[i]) < MaxSize + s
=============================================================================

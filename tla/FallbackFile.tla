---------------------------- MODULE FallbackFile ----------------------------
(***************************************************************************)
(* The fallback file of internal/repo/repo.go:102-166: a JSON snapshot of  *)
(* the last mapping an update produced, the only state of the program that *)
(* survives its process.                                                   *)
(*                                                                         *)
(* writeFallbackFile ends in os.WriteFile, which opens the path with       *)
(* O_TRUNC and then writes the bytes: two steps, between which the file is *)
(* empty, another goroutine may do the same, and the process may die.      *)
(* Each writer has a descriptor of its own and writes from offset 0, so a  *)
(* write over a longer one leaves the tail of the longer one behind it,    *)
(* and json.Unmarshal refuses the result.  A file is what was written from *)
(* offset 0 last and how many bytes there are.                             *)
(***************************************************************************)
EXTENDS Integers

CONSTANTS
    Seeds,              \* snapshots that may be there before the first start
    SnapshotSize,       \* bytes of the JSON of the mapping of each version
    MaxDiskFaults       \* bound: writes that fail

ASSUME FallbackFileAssumption ==
    /\ MaxDiskFaults \in Nat
    /\ \A v \in DOMAIN SnapshotSize : SnapshotSize[v] \in Nat \ {0}

VARIABLES
    file,               \* the fallback file on disk
    diskFaults          \* how many writes have failed

fileVars == <<file, diskFaults>>

\* Nothing was ever written: no file, or one that a first write has just created
\* and not filled.  Either of them cannot be loaded.
NoVersion == -1
Absent == [version |-> NoVersion, length |-> 0]

FileTypeOK(Version) ==
    /\ file \in [version : Version \cup {NoVersion}, length : Nat]
    /\ diskFaults \in 0..MaxDiskFaults

Snapshot(v) == [version |-> v, length |-> SnapshotSize[v]]

\* No file yet, or one left by an earlier deployment or put there by hand.
FileInit ==
    /\ file \in {Absent} \cup {Snapshot(v) : v \in Seeds}
    /\ diskFaults = 0

\* readFallbackFile succeeds: ReadFile finds the file, Unmarshal accepts it.
Readable ==
    /\ file.version # NoVersion
    /\ file.length = SnapshotSize[file.version]

\* os.WriteFile, its two system calls; the first creates a file that is not there.
Truncate ==
    /\ file' = [file EXCEPT !.length = 0]
    /\ UNCHANGED diskFaults

Overwrite(v) ==
    /\ file' = [version |-> v,
                length  |-> IF file.length > SnapshotSize[v]
                            THEN file.length ELSE SnapshotSize[v]]
    /\ UNCHANGED diskFaults

\* MkdirAll, the opening or the write fails (no permission, disk full): the
\* file stays as it is, which after the truncation is empty.
DiskFails ==
    /\ diskFaults < MaxDiskFaults
    /\ diskFaults' = diskFaults + 1
    /\ UNCHANGED file
=============================================================================

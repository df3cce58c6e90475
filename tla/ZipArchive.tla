----------------------------- MODULE ZipArchive -----------------------------
(***************************************************************************)
(* src/docker/app: main adds the names of a directory, in order, to the    *)
(* archive an earlier run may have written (UTIL_ZIP_create in             *)
(* util_zip.c).  libzip is external: each of its calls may fail, a name    *)
(* can be added once only, and zip_close alone changes the archive on      *)
(* disk.  Names are numbers, in their order.                               *)
(***************************************************************************)
EXTENDS Integers

CONSTANTS
  ZpMaxName,    \* bound: the names are 1 .. ZpMaxName
  ZpDirs        \* the names of directories

ASSUME ZpAssumption == ZpMaxName \in Nat /\ ZpDirs \subseteq 1 .. ZpMaxName

VARIABLES
  zpNames,     \* the names in the directory
  zpDisk,      \* the names in the archive on disk
  zpPc,        \* "main", "file", "add", "close", "returned"
  zpTodo,      \* the names the loop has not come to
  zpSource,    \* {n} when zs is the source of n, {} when it is NULL
  zpAdded,     \* the names added to za
  zpFreed,     \* the sources freed by zip_source_free
  zpRet

zpVars == <<zpNames, zpDisk, zpPc, zpTodo, zpSource, zpAdded, zpFreed, zpRet>>

ZpInit ==
  /\ zpNames \in SUBSET (1 .. ZpMaxName) /\ zpDisk = {}
  /\ zpPc = "main" /\ zpTodo = {} /\ zpRet = FALSE
  /\ zpSource = {} /\ zpAdded = {} /\ zpFreed = {}

\* Between two runs files come into the directory and go, and the archive may
\* be taken away.
ZpFilesChange ==
  /\ zpPc = "main"
  /\ zpNames' \in SUBSET (1 .. ZpMaxName)
  /\ zpDisk' \in {zpDisk, {}}
  /\ UNCHANGED <<zpPc, zpTodo, zpSource, zpAdded, zpFreed, zpRet>>

\* main reads the directory, UTIL_ZIP_create opens the archive.
ZpOpen ==
  /\ zpPc = "main"
  /\ zpPc' \in {"file", "returned"}
  /\ zpTodo' = zpNames /\ zpRet' = FALSE
  /\ zpSource' = {} /\ zpAdded' = {} /\ zpFreed' = {}
  /\ UNCHANGED <<zpNames, zpDisk>>

ZpFirst == CHOOSE n \in zpTodo : \A k \in zpTodo : n <= k

\* fopen and zip_source_filep.
ZpFile ==
  /\ zpPc = "file" /\ zpTodo # {}
  /\ \/ zpSource' = {ZpFirst} /\ zpPc' = "add"
     \/ zpPc' = "close" /\ UNCHANGED zpSource
  /\ UNCHANGED <<zpNames, zpDisk, zpTodo, zpAdded, zpFreed, zpRet>>

\* As ZpAdd, keeping the source that zip_file_add has taken.
ZpAddAndKeep ==
  /\ zpPc = "add"
  /\ \/ /\ ZpFirst \notin zpDisk
        /\ zpAdded' = zpAdded \cup {ZpFirst} /\ zpTodo' = zpTodo \ {ZpFirst}
        /\ zpPc' = "file" /\ UNCHANGED zpSource
     \/ zpPc' = "close" /\ UNCHANGED <<zpTodo, zpSource, zpAdded>>
  /\ UNCHANGED <<zpNames, zpDisk, zpFreed, zpRet>>

\* zip_dir_add or zip_file_add, and zs = 0.
ZpAdd ==
  /\ zpPc = "add"
  /\ \/ /\ ZpFirst \notin zpDisk
        /\ zpAdded' = zpAdded \cup {ZpFirst} /\ zpTodo' = zpTodo \ {ZpFirst}
        /\ zpSource' = {} /\ zpPc' = "file"
     \/ zpPc' = "close" /\ UNCHANGED <<zpTodo, zpSource, zpAdded>>
  /\ UNCHANGED <<zpNames, zpDisk, zpFreed, zpRet>>

ZpLoopEnds ==
  /\ zpPc = "file" /\ zpTodo = {}
  /\ zpRet' = TRUE /\ zpPc' = "close"
  /\ UNCHANGED <<zpNames, zpDisk, zpTodo, zpSource, zpAdded, zpFreed>>

\* ERR_FREE_MEM, on success and on failure.
ZpClose ==
  /\ zpPc = "close" /\ zpPc' = "returned"
  /\ zpFreed' = zpFreed \cup zpSource /\ zpSource' = {}
  /\ zpDisk' \in {zpDisk, zpDisk \cup zpAdded}
  /\ UNCHANGED <<zpNames, zpTodo, zpAdded, zpRet>>

\* The program ends, or is killed, and may be run again.
ZpRerun ==
  /\ zpPc # "main" /\ zpPc' = "main"
  /\ UNCHANGED <<zpNames, zpDisk, zpTodo, zpSource, zpAdded, zpFreed, zpRet>>

ZpNext ==
  \/ ZpFilesChange \/ ZpOpen \/ ZpFile \/ ZpAdd \/ ZpLoopEnds \/ ZpClose \/ ZpRerun

ZpSpec == ZpInit /\ [][ZpNext]_zpVars
-----------------------------------------------------------------------------
\* Sources that zip_file_add took; zip_dir_add takes none.
ZpTaken == zpAdded \ ZpDirs

\* Wherever a run fails: what it added comes first in the order of the names,
\* all of it if UTIL_ZIP_create returns true; no source that the archive took
\* is freed; and a name of the directory that the archive has already ends the
\* run: nothing behind it is added.
ZpRunOK ==
  /\ \A a \in zpAdded, n \in zpNames \ zpAdded : zpPc # "main" => a < n
  /\ zpPc = "returned" /\ zpRet => zpAdded = zpNames
  /\ zpFreed \cap ZpTaken = {}
  /\ zpPc \in {"file", "add", "close"} =>
       \A a \in zpAdded, d \in zpDisk \cap zpNames : a < d
=============================================================================

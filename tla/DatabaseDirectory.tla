------------------------- MODULE DatabaseDirectory -------------------------
(***************************************************************************)
(* prepare_database_directory (database.cc): how mylite_open finds,         *)
(* validates or creates the layout of a durable database directory          *)
(*                                                                          *)
(*     <db>/mylite.meta   <db>/datadir/   <db>/tmp/                         *)
(*                                                                          *)
(* It runs before the process takes the directory lock, so any number of    *)
(* openers work on one directory at once.  Each system call that reads or   *)
(* writes the directory is a step; an opener may die between two steps.     *)
(***************************************************************************)
EXTENDS Naturals, FiniteSets

CONSTANTS
  Openers,  \* concurrent callers of mylite_open, each a process
  Faults    \* the faults of the environment: subset of AllFaults

AllFaults == {"crash", "io", "flush"}

ASSUME FaultsAssumption == Faults \subseteq AllFaults

VARIABLES
  dir,      \* what the file system holds at the database path
  found,    \* what it held before the first open
  faulted,  \* has a fault happened?
  pc,       \* where each opener is
  flags,    \* its open flags, besides MYLITE_OPEN_READWRITE
  result    \* what its last prepare_database_directory returned

vars == <<dir, found, faulted, pc, flags, result>>
-----------------------------------------------------------------------------
(***************************************************************************)
(* path: is there a file or a directory at the path?  meta: "empty" while   *)
(* an ofstream has created or truncated mylite.meta and not flushed yet,    *)
(* "valid" with both the format and the base line, "invalid" with other     *)
(* contents, "dir" when it is not a regular file.  other: does the          *)
(* directory hold entries of somebody else?                                 *)
(***************************************************************************)
Contents ==
  [path : {"absent", "file", "dir"},
   datadir : {"absent", "file", "dir"},
   tmp : {"absent", "file", "dir"},
   meta : {"absent", "empty", "valid", "invalid", "dir"},
   other : BOOLEAN]

Nothing == [path |-> "absent", datadir |-> "absent", tmp |-> "absent",
            meta |-> "absent", other |-> FALSE]

Flags == {"CREATE", "EXCLUSIVE"}

Results == {"none", "OK", "ERROR", "IOERR", "NOTFOUND", "CORRUPT"}

Labels == {"idle", "exists", "metadata", "empty", "mkdir", "mkdatadir", "mktmp",
           "recheck", "truncate", "flush", "validate", "layout"}

(* database_directory_is_empty *)
Empty(c) ==
  /\ c.path = "dir"
  /\ c.datadir = "absent" /\ c.tmp = "absent" /\ c.meta = "absent" /\ ~c.other

(* What validate_database_layout accepts. *)
Valid(c) ==
  /\ c.path = "dir" /\ c.meta = "valid"
  /\ c.datadir = "dir" /\ c.tmp = "dir"

(* What callers can have at the path before any open. *)
Initially ==
  {c \in Contents :
     /\ c.meta # "empty"
     /\ c.path # "dir" => c = [Nothing EXCEPT !.path = c.path]}

Init ==
  /\ dir \in Initially
  /\ found = dir
  /\ faulted = FALSE
  /\ pc = [o \in Openers |-> "idle"]
  /\ flags = [o \in Openers |-> {}]
  /\ result = [o \in Openers |-> "none"]

At(o, label) == pc[o] = label
Goto(o, label) == pc' = [pc EXCEPT ![o] = label] /\ UNCHANGED <<flags, result>>

Return(o, code) ==
  /\ pc' = [pc EXCEPT ![o] = "idle"]
  /\ flags' = [flags EXCEPT ![o] = {}]
  /\ result' = [result EXCEPT ![o] = code]

Set(field, value) == dir' = [dir EXCEPT ![field] = value]
-----------------------------------------------------------------------------
(* Mutant: an open flag that validate_open_args rejects gets through. *)
StartReadonly(o) ==
  /\ At(o, "idle")
  /\ \E f \in SUBSET (Flags \cup {"READONLY"}) : flags' = [flags EXCEPT ![o] = f]
  /\ pc' = [pc EXCEPT ![o] = "exists"]
  /\ result' = [result EXCEPT ![o] = "none"]
  /\ UNCHANGED <<dir, found, faulted>>

(* mylite_open with arguments that validate_open_args accepts. *)
Start(o) ==
  /\ At(o, "idle")
  /\ \E f \in SUBSET Flags : flags' = [flags EXCEPT ![o] = f]
  /\ pc' = [pc EXCEPT ![o] = "exists"]
  /\ result' = [result EXCEPT ![o] = "none"]
  /\ UNCHANGED <<dir, found, faulted>>

(* exists(database_path); nothing ever turns a file into a directory. *)
Exists(o) ==
  /\ At(o, "exists")
  /\ dir.path # "absent"
  /\ \/ "EXCLUSIVE" \in flags[o] /\ Return(o, "ERROR")
     \/ "EXCLUSIVE" \notin flags[o] /\ dir.path = "file" /\ Return(o, "IOERR")
     \/ "EXCLUSIVE" \notin flags[o] /\ dir.path = "dir" /\ Goto(o, "metadata")
  /\ UNCHANGED <<dir, found, faulted>>

DoesNotExist(o) ==
  /\ At(o, "exists")
  /\ dir.path = "absent"
  /\ \/ "CREATE" \notin flags[o] /\ Return(o, "NOTFOUND")
     \/ "CREATE" \in flags[o] /\ Goto(o, "mkdir")
  /\ UNCHANGED <<dir, found, faulted>>

(* prepare_existing_database_directory *)
MetadataExists(o) ==
  /\ At(o, "metadata")
  /\ Goto(o, IF dir.meta = "absent" THEN "empty" ELSE "validate")
  /\ UNCHANGED <<dir, found, faulted>>

(* Mutant: MYLITE_OPEN_CREATE adopts a directory that is not empty. *)
DirectoryAdopted(o) ==
  /\ At(o, "empty")
  /\ \/ "CREATE" \in flags[o] /\ Goto(o, "mkdatadir")
     \/ "CREATE" \notin flags[o] /\ Return(o, "NOTFOUND")
  /\ UNCHANGED <<dir, found, faulted>>

DirectoryIsEmpty(o) ==
  /\ At(o, "empty")
  /\ \/ Empty(dir) /\ "CREATE" \in flags[o] /\ Goto(o, "mkdatadir")
     \/ Empty(dir) /\ "CREATE" \notin flags[o] /\ Return(o, "NOTFOUND")
     \/ ~Empty(dir) /\ Return(o, "CORRUPT")
  /\ UNCHANGED <<dir, found, faulted>>

(* validate_database_metadata, then the two validate_layout_directory. *)
ValidateMetadata(o) ==
  /\ At(o, "validate")
  /\ \/ dir.meta = "valid" /\ Goto(o, "layout")
     \/ dir.meta # "valid" /\ Return(o, "CORRUPT")
  /\ UNCHANGED <<dir, found, faulted>>

ValidateLayout(o) ==
  /\ At(o, "layout")
  /\ Return(o, IF dir.datadir = "dir" /\ dir.tmp = "dir" THEN "OK" ELSE "CORRUPT")
  /\ UNCHANGED <<dir, found, faulted>>

(***************************************************************************)
(* create_directories and initialize_database_layout.  create_directories   *)
(* succeeds when the directory is already there; no file is in its place,   *)
(* since only a missing or an empty directory gets here.                    *)
(***************************************************************************)
CreateDirectory(o) ==
  /\ At(o, "mkdir")
  /\ Set("path", "dir")
  /\ Goto(o, "mkdatadir")
  /\ UNCHANGED <<found, faulted>>

(* Mutant: tmp/ is left to the creation of the runtime layout. *)
CreateDatadirOnly(o) ==
  /\ At(o, "mkdatadir")
  /\ Set("datadir", "dir")
  /\ Goto(o, "recheck")
  /\ UNCHANGED <<found, faulted>>

CreateDatadir(o) ==
  /\ At(o, "mkdatadir")
  /\ Set("datadir", "dir")
  /\ Goto(o, "mktmp")
  /\ UNCHANGED <<found, faulted>>

CreateTmp(o) ==
  /\ At(o, "mktmp")
  /\ Set("tmp", "dir")
  /\ Goto(o, "recheck")
  /\ UNCHANGED <<found, faulted>>

(***************************************************************************)
(* Any of the calls fails, whether it reports an error_code or throws a     *)
(* filesystem_error: mylite_open returns MYLITE_IOERR.                      *)
(***************************************************************************)
SystemCallFails(o) ==
  /\ "io" \in Faults
  /\ pc[o] \notin {"idle", "flush"}
  /\ Return(o, "IOERR")
  /\ faulted' = TRUE
  /\ UNCHANGED <<dir, found>>

(* Metadata that another opener has created in the meantime is kept. *)
RecheckMetadata(o) ==
  /\ At(o, "recheck")
  /\ \/ dir.meta = "absent" /\ Goto(o, "truncate")
     \/ /\ dir.meta # "absent"
        /\ Return(o, IF dir.meta = "dir" THEN "IOERR" ELSE "OK")
  /\ UNCHANGED <<dir, found, faulted>>

(* write_database_metadata: the ofstream opens with trunc, ... *)
TruncateMetadata(o) ==
  /\ At(o, "truncate")
  /\ Set("meta", "empty")
  /\ Goto(o, "flush")
  /\ UNCHANGED <<found, faulted>>

(* Mutant: only the format line is written. *)
FlushFormatLine(o) ==
  /\ At(o, "flush")
  /\ Set("meta", "invalid")
  /\ Return(o, "OK")
  /\ UNCHANGED <<found, faulted>>

(* ... buffers both lines, and writes them out in its destructor. *)
FlushMetadata(o) ==
  /\ At(o, "flush")
  /\ Set("meta", "valid")
  /\ Return(o, "OK")
  /\ UNCHANGED <<found, faulted>>

(* The destructor swallows a failed write; the checks came before it. *)
FlushMetadataFails(o) ==
  /\ "flush" \in Faults
  /\ At(o, "flush")
  /\ Return(o, "OK")
  /\ faulted' = TRUE
  /\ UNCHANGED <<dir, found>>

(* The opener's process dies. *)
Crash(o) ==
  /\ "crash" \in Faults
  /\ pc[o] # "idle"
  /\ pc' = [pc EXCEPT ![o] = "idle"]
  /\ flags' = [flags EXCEPT ![o] = {}]
  /\ faulted' = TRUE
  /\ UNCHANGED <<dir, found, result>>

Next ==
  \E o \in Openers :
    \/ Start(o)
    \/ Exists(o) \/ DoesNotExist(o) \/ MetadataExists(o) \/ DirectoryIsEmpty(o)
    \/ ValidateMetadata(o) \/ ValidateLayout(o)
    \/ CreateDirectory(o) \/ CreateDatadir(o) \/ CreateTmp(o) \/ SystemCallFails(o)
    \/ RecheckMetadata(o) \/ TruncateMetadata(o)
    \/ FlushMetadata(o) \/ FlushMetadataFails(o)
    \/ Crash(o)

Spec == Init /\ [][Next]_vars
-----------------------------------------------------------------------------
(* Every variable keeps its type: only flags validate_open_args accepts, only *)
(* result codes prepare_database_directory can return.                       *)
TypeOK ==
  /\ dir \in Contents
  /\ found \in Initially
  /\ faulted \in BOOLEAN
  /\ pc \in [Openers -> Labels]
  /\ flags \in [Openers -> SUBSET Flags]
  /\ result \in [Openers -> Results]

(***************************************************************************)
(* A directory the library did not create, or whose metadata it does not    *)
(* recognise, is never touched: no race between the emptiness test and the  *)
(* creation steps adopts or repairs somebody else's directory.              *)
(***************************************************************************)
NoSilentRepair ==
  found.path = "file" \/ (found.path = "dir" /\ ~Empty(found)) => dir = found

(***************************************************************************)
(* When mylite_open goes on to start the server, datadir/ and tmp/ are      *)
(* there, even when the opener found the metadata another opener had just   *)
(* written and skipped the rest of the creation.                            *)
(***************************************************************************)
OkMeansLayout ==
  \A o \in Openers :
    result[o] = "OK" => dir.datadir = "dir" /\ dir.tmp = "dir"

(***************************************************************************)
(* However many openers race to create the directory, and in whatever order *)
(* they truncate and write mylite.meta, once they are done the directory is *)
(* as it was found or valid, unless a fault got in the way.                 *)
(***************************************************************************)
RacingCreatorsConverge ==
  (\A o \in Openers : pc[o] = "idle") /\ ~faulted => dir = found \/ Valid(dir)

(***************************************************************************)
(* "Clean close and unclean process exit both allow a later open": a path   *)
(* that could be opened at first can be opened again once every opener has  *)
(* returned or died.                                                        *)
(***************************************************************************)
Openable(c) == c.path = "absent" \/ Empty(c) \/ Valid(c)

UncleanExitAllowsOpen ==
  Openable(found) /\ (\A o \in Openers : pc[o] = "idle") => Openable(dir)

(***************************************************************************)
(* "mylite.meta, datadir/, and tmp/ survive clean close": once an opener    *)
(* has been told MYLITE_OK, valid metadata is never lost again.             *)
(***************************************************************************)
MetadataSurvives ==
  [][dir.meta = "valid" /\ (\E o \in Openers : result[o] = "OK") =>
       dir'.meta = "valid"]_vars
=============================================================================

---------------------- MODULE DatabaseDirectoryProofs ----------------------
(***************************************************************************)
(* The inductive invariant of DatabaseDirectory and the theorems about any  *)
(* number of openers racing for one path.                                   *)
(***************************************************************************)
EXTENDS DatabaseDirectory, TLAPS

(* The library may create its layout here: there was nothing, or an empty    *)
(* directory.                                                                *)
Ours == found.path = "absent" \/ Empty(found)

Creating == {"mkdatadir", "mktmp", "recheck", "truncate", "flush"}

(* What an opener in the middle of the creation has found out or done, and   *)
(* no other opener undoes.                                                   *)
OpenersInv ==
  \A o \in Openers :
    /\ pc[o] \in Creating \cup {"mkdir"} => Ours
    /\ pc[o] \in Creating => dir.path = "dir"
    /\ pc[o] \in Creating \ {"mkdatadir"} => dir.datadir = "dir"
    /\ pc[o] \in Creating \ {"mkdatadir", "mktmp"} => dir.tmp = "dir"
    /\ pc[o] = "flush" => dir.meta # "absent"

(* mylite.meta comes last: where the library may create, it is there only    *)
(* with the rest of the layout.                                              *)
LayoutInv ==
  Ours /\ dir.meta # "absent" =>
    /\ dir.path = "dir" /\ dir.datadir = "dir" /\ dir.tmp = "dir"
    /\ dir.meta \in {"empty", "valid"}

(* Without faults, a directory that is not what it was found to be is        *)
(* complete or somebody is at work on it, and an empty mylite.meta is about  *)
(* to be written.                                                            *)
WorkInv ==
  ~faulted =>
    /\ dir = found \/ Valid(dir) \/ \E o \in Openers : pc[o] \in Creating
    /\ dir.meta = "empty" => \E o \in Openers : pc[o] = "flush"

DirectoryInv ==
  TypeOK /\ NoSilentRepair /\ OkMeansLayout /\ OpenersInv /\ LayoutInv /\ WorkInv

(* A step of opener o that only looks at the directory. *)
Looks(o) ==
  \/ Start(o) \/ Exists(o) \/ DoesNotExist(o) \/ MetadataExists(o) \/ DirectoryIsEmpty(o)
  \/ ValidateMetadata(o) \/ ValidateLayout(o) \/ SystemCallFails(o) \/ RecheckMetadata(o)
  \/ FlushMetadataFails(o) \/ Crash(o)

(* A step of opener o that changes it. *)
Changes(o) ==
  \/ CreateDirectory(o) \/ CreateDatadir(o) \/ CreateTmp(o)
  \/ TruncateMetadata(o) \/ FlushMetadata(o)
-----------------------------------------------------------------------------
(* The invariant holds before the first opener starts. *)
LEMMA InitInv == Init => DirectoryInv
<1> SUFFICES ASSUME Init PROVE DirectoryInv
  OBVIOUS
<1>1. dir \in Contents /\ dir.meta # "empty"
  BY DEF Init, Initially
<1>2. TypeOK
  BY <1>1, Zenon DEF Init, TypeOK, Labels, Results, Flags
<1>3. NoSilentRepair /\ OkMeansLayout /\ OpenersInv /\ WorkInv
  BY <1>1, Zenon DEF Init, NoSilentRepair, OkMeansLayout, OpenersInv, WorkInv, Creating
<1>4. Ours => dir.meta = "absent"
  <2>1. ASSUME found.path = "absent" PROVE dir.meta = "absent"
    BY <2>1 DEF Init, Initially, Nothing, Contents
  <2>2. ASSUME Empty(found) PROVE dir.meta = "absent"
    BY <2>2 DEF Init, Empty
  <2> QED BY <2>1, <2>2 DEF Ours
<1>5. LayoutInv
  BY <1>4, Zenon DEF LayoutInv
<1> QED BY <1>2, <1>3, <1>5 DEF DirectoryInv

(* An opener that goes on, and the others. *)
LEMMA GotoIs ==
  ASSUME TypeOK, NEW o \in Openers, NEW label, Goto(o, label)
  PROVE  /\ pc'[o] = label /\ result' = result
         /\ \A u \in Openers \ {o} : pc'[u] = pc[u]
BY Zenon DEF TypeOK, Goto

(* An opener that returns, and the others. *)
LEMMA ReturnIs ==
  ASSUME TypeOK, NEW o \in Openers, NEW code, Return(o, code)
  PROVE  /\ pc'[o] = "idle" /\ result'[o] = code
         /\ \A u \in Openers \ {o} : pc'[u] = pc[u] /\ result'[u] = result[u]
BY Zenon DEF TypeOK, Return

(* Steps that look leave the directory and its history alone. *)
LEMMA LooksStep ==
  ASSUME TypeOK, NEW o \in Openers, Looks(o)
  PROVE  /\ UNCHANGED <<dir, found>>
         /\ faulted \in BOOLEAN /\ faulted' \in BOOLEAN
         /\ faulted' = faulted \/ faulted' = TRUE
         /\ \A u \in Openers \ {o} : pc'[u] = pc[u] /\ result'[u] = result[u]
<1> USE DEF TypeOK, Goto, Return
<1>1. CASE Start(o) BY <1>1 DEF Start
<1>2. CASE Exists(o) BY <1>2 DEF Exists
<1>3. CASE DoesNotExist(o) BY <1>3 DEF DoesNotExist
<1>4. CASE MetadataExists(o) BY <1>4 DEF MetadataExists
<1>5. CASE DirectoryIsEmpty(o) BY <1>5 DEF DirectoryIsEmpty
<1>6. CASE ValidateMetadata(o) BY <1>6 DEF ValidateMetadata
<1>7. CASE ValidateLayout(o) BY <1>7 DEF ValidateLayout
<1>8. CASE SystemCallFails(o) BY <1>8 DEF SystemCallFails
<1>9. CASE RecheckMetadata(o) BY <1>9 DEF RecheckMetadata
<1>10. CASE FlushMetadataFails(o) BY <1>10 DEF FlushMetadataFails
<1>11. CASE Crash(o) BY <1>11 DEF Crash
<1> QED BY <1>1, <1>2, <1>3, <1>4, <1>5, <1>6, <1>7, <1>8, <1>9, <1>10, <1>11, Zenon DEF Looks

(* The steps that change it: what each sets, and where it goes. *)
LEMMA ChangesStep ==
  ASSUME TypeOK, NEW o \in Openers, Changes(o)
  PROVE  /\ UNCHANGED <<found, faulted>>
         /\ \A u \in Openers \ {o} : pc'[u] = pc[u] /\ result'[u] = result[u]
         /\ CASE pc[o] = "mkdir" ->
                   /\ pc'[o] = "mkdatadir" /\ result' = result
                   /\ dir' = [dir EXCEPT !.path = "dir"]
              [] pc[o] = "mkdatadir" ->
                   /\ pc'[o] = "mktmp" /\ result' = result
                   /\ dir' = [dir EXCEPT !.datadir = "dir"]
              [] pc[o] = "mktmp" ->
                   /\ pc'[o] = "recheck" /\ result' = result
                   /\ dir' = [dir EXCEPT !.tmp = "dir"]
              [] pc[o] = "truncate" ->
                   /\ pc'[o] = "flush" /\ result' = result
                   /\ dir' = [dir EXCEPT !.meta = "empty"]
              [] pc[o] = "flush" ->
                   /\ pc'[o] = "idle" /\ result'[o] = "OK"
                   /\ dir' = [dir EXCEPT !.meta = "valid"]
              [] OTHER -> FALSE
<1> USE DEF TypeOK, Goto, Return, Set, At
<1>1. CASE CreateDirectory(o) BY <1>1, Zenon DEF CreateDirectory
<1>2. CASE CreateDatadir(o) BY <1>2, Zenon DEF CreateDatadir
<1>3. CASE CreateTmp(o) BY <1>3, Zenon DEF CreateTmp
<1>4. CASE TruncateMetadata(o) BY <1>4, Zenon DEF TruncateMetadata
<1>5. CASE FlushMetadata(o) BY <1>5, Zenon DEF FlushMetadata
<1> QED BY <1>1, <1>2, <1>3, <1>4, <1>5, Zenon DEF Changes

(* Every step keeps the types. *)
LEMMA TypeStep ==
  ASSUME TypeOK, Next
  PROVE  TypeOK'
<1>1. PICK o \in Openers : Looks(o) \/ Changes(o)
  BY Zenon DEF Next, Looks, Changes
<1>2. found' \in Initially /\ faulted' \in BOOLEAN
  BY <1>1, LooksStep, ChangesStep, Zenon DEF TypeOK
<1>3. dir' \in Contents
  <2>1. CASE Looks(o)
    BY <2>1, LooksStep, Zenon DEF TypeOK
  <2>2. CASE Changes(o)
    BY <2>2, ChangesStep DEF TypeOK, Contents
  <2> QED BY <1>1, <2>1, <2>2
<1>4. pc' \in [Openers -> Labels] /\ flags' \in [Openers -> SUBSET Flags]
      /\ result' \in [Openers -> Results]
  <2> USE DEF TypeOK, Goto, Return, Labels, Results
  <2>1. CASE Start(o) BY <2>1 DEF Start
  <2>2. CASE Exists(o) BY <2>2 DEF Exists
  <2>3. CASE DoesNotExist(o) BY <2>3 DEF DoesNotExist
  <2>4. CASE MetadataExists(o) BY <2>4 DEF MetadataExists
  <2>5. CASE DirectoryIsEmpty(o) BY <2>5 DEF DirectoryIsEmpty
  <2>6. CASE ValidateMetadata(o) \/ ValidateLayout(o)
    BY <2>6 DEF ValidateMetadata, ValidateLayout
  <2>7. CASE SystemCallFails(o) \/ FlushMetadataFails(o) \/ Crash(o)
    BY <2>7 DEF SystemCallFails, FlushMetadataFails, Crash
  <2>8. CASE RecheckMetadata(o) BY <2>8 DEF RecheckMetadata
  <2>9. CASE CreateDirectory(o) \/ CreateDatadir(o) \/ CreateTmp(o)
    BY <2>9 DEF CreateDirectory, CreateDatadir, CreateTmp
  <2>10. CASE TruncateMetadata(o) \/ FlushMetadata(o)
    BY <2>10 DEF TruncateMetadata, FlushMetadata
  <2> QED BY <1>1, <2>1, <2>2, <2>3, <2>4, <2>5, <2>6, <2>7, <2>8, <2>9, <2>10, Zenon
        DEF Looks, Changes
<1> QED BY <1>2, <1>3, <1>4, Zenon DEF TypeOK

(* The fields after a step that changes the directory. *)
LEMMA ChangedFields ==
  ASSUME TypeOK, OpenersInv, NEW o \in Openers, Changes(o)
  PROVE  /\ Ours /\ dir'.path = "dir"
         /\ pc[o] # "mkdir" => dir.path = "dir"
         /\ dir.datadir = "dir" \/ pc[o] = "mkdatadir" => dir'.datadir = "dir"
         /\ dir.tmp = "dir" \/ pc[o] = "mktmp" => dir'.tmp = "dir"
         /\ dir'.meta = (IF pc[o] = "truncate" THEN "empty"
                         ELSE IF pc[o] = "flush" THEN "valid" ELSE dir.meta)
<1> USE ChangesStep DEF TypeOK, Contents, OpenersInv, Creating
<1>1. CASE pc[o] = "mkdir" BY <1>1
<1>2. CASE pc[o] = "mkdatadir" BY <1>2
<1>3. CASE pc[o] = "mktmp" BY <1>3
<1>4. CASE pc[o] = "truncate" BY <1>4
<1>5. CASE pc[o] = "flush" BY <1>5
<1> QED BY <1>1, <1>2, <1>3, <1>4, <1>5, Zenon

(* No step touches a directory that is not the library's. *)
LEMMA RepairStep ==
  ASSUME DirectoryInv, Next
  PROVE  NoSilentRepair'
<1>0. TypeOK /\ NoSilentRepair /\ OpenersInv
  BY DEF DirectoryInv
<1>1. PICK o \in Openers : Looks(o) \/ Changes(o)
  BY Zenon DEF Next, Looks, Changes
<1>2. CASE Looks(o)
  BY <1>0, <1>2, LooksStep, Zenon DEF NoSilentRepair
<1>3. CASE Changes(o)
  <2>1. Ours /\ found' = found
    BY <1>0, <1>3, ChangedFields, ChangesStep, Zenon
  <2> QED BY <2>1 DEF NoSilentRepair, Ours, Empty
<1> QED BY <1>1, <1>2, <1>3

(* Where an opener that looks at the directory goes on to create something,   *)
(* it has found it absent or empty, or was creating already.                  *)
LEMMA LooksToCreate ==
  ASSUME TypeOK, NEW o \in Openers, Looks(o), pc'[o] \in Creating \cup {"mkdir"}
  PROVE  \/ dir.path = "absent" /\ pc'[o] = "mkdir"
         \/ Empty(dir) /\ pc'[o] = "mkdatadir"
         \/ dir.meta = "absent" /\ pc[o] = "recheck" /\ pc'[o] = "truncate"
<1> USE DEF TypeOK, Goto, Return, At, Creating
<1>1. CASE Start(o) BY <1>1 DEF Start
<1>2. CASE Exists(o) BY <1>2 DEF Exists
<1>3. CASE DoesNotExist(o) BY <1>3 DEF DoesNotExist
<1>4. CASE MetadataExists(o) BY <1>4 DEF MetadataExists
<1>5. CASE DirectoryIsEmpty(o) BY <1>5 DEF DirectoryIsEmpty
<1>6. CASE ValidateMetadata(o) \/ ValidateLayout(o)
  BY <1>6 DEF ValidateMetadata, ValidateLayout
<1>7. CASE SystemCallFails(o) \/ FlushMetadataFails(o) \/ Crash(o)
  BY <1>7 DEF SystemCallFails, FlushMetadataFails, Crash
<1>8. CASE RecheckMetadata(o) BY <1>8 DEF RecheckMetadata
<1> QED BY <1>1, <1>2, <1>3, <1>4, <1>5, <1>6, <1>7, <1>8, Zenon DEF Looks

(* No opener undoes what another has found out or done. *)
LEMMA OpenersStep ==
  ASSUME DirectoryInv, Next
  PROVE  OpenersInv'
<1>0. TypeOK /\ NoSilentRepair /\ OpenersInv
  BY DEF DirectoryInv
<1>1. PICK o \in Openers : Looks(o) \/ Changes(o)
  BY Zenon DEF Next, Looks, Changes
<1>2. CASE Looks(o)
  <2>1. Ours' = Ours /\ dir' = dir
    BY <1>0, <1>2, LooksStep, Zenon DEF Ours
  <2>2. \A u \in Openers \ {o} : pc'[u] = pc[u]
    BY <1>0, <1>2, LooksStep, Zenon
  <2>3. dir.path = "absent" \/ Empty(dir) => Ours
    BY <1>0 DEF NoSilentRepair, Ours, Empty, TypeOK, Initially, Contents
  <2>4. ASSUME pc'[o] \in Creating \cup {"mkdir"}
        PROVE  \/ pc'[o] = "mkdir" /\ Ours
               \/ pc'[o] = "mkdatadir" /\ Ours /\ dir.path = "dir"
               \/ pc'[o] = "truncate" /\ pc[o] = "recheck"
    BY <1>0, <1>2, <2>3, <2>4, LooksToCreate, Zenon DEF Empty
  <2> QED BY <1>0, <2>1, <2>2, <2>4 DEF OpenersInv, Creating
<1>3. CASE Changes(o)
  <2>1. Ours' /\ dir'.path = "dir"
    BY <1>0, <1>3, ChangesStep, ChangedFields, Zenon DEF Ours
  <2>2. dir.meta # "absent" => dir'.meta # "absent"
    BY <1>0, <1>3, ChangedFields
  <2>3. ASSUME NEW u \in Openers, u # o
        PROVE  pc'[u] = pc[u] /\ (pc[u] = "flush" => dir'.meta # "absent")
    BY <1>0, <1>3, <2>2, <2>3, ChangesStep, Zenon DEF OpenersInv
  <2>4. /\ pc'[o] \in {"mkdatadir", "mktmp", "recheck", "flush", "idle"}
        /\ pc'[o] = "mktmp" => pc[o] = "mkdatadir"
        /\ pc'[o] = "recheck" => pc[o] = "mktmp"
        /\ pc'[o] = "flush" => pc[o] = "truncate"
    BY <1>0, <1>3, ChangesStep
  <2>5. ASSUME NEW u \in Openers, pc'[u] \in Creating \ {"mkdatadir"}
        PROVE  dir'.datadir = "dir"
    BY <1>0, <1>3, <2>3, <2>4, <2>5, ChangedFields DEF OpenersInv, Creating
  <2>6. ASSUME NEW u \in Openers, pc'[u] \in Creating \ {"mkdatadir", "mktmp"}
        PROVE  dir'.tmp = "dir"
    BY <1>0, <1>3, <2>3, <2>4, <2>6, ChangedFields DEF OpenersInv, Creating
  <2>7. ASSUME NEW u \in Openers, pc'[u] = "flush"
        PROVE  dir'.meta # "absent"
    BY <1>0, <1>3, <2>3, <2>4, <2>7, ChangedFields
  <2> QED BY <2>1, <2>5, <2>6, <2>7, Zenon DEF OpenersInv
<1> QED BY <1>1, <1>2, <1>3

(* No step creates mylite.meta before the rest of the layout. *)
LEMMA LayoutStep ==
  ASSUME DirectoryInv, Next
  PROVE  LayoutInv'
<1>0. TypeOK /\ OpenersInv /\ LayoutInv
  BY DEF DirectoryInv
<1>1. PICK o \in Openers : Looks(o) \/ Changes(o)
  BY Zenon DEF Next, Looks, Changes
<1>2. CASE Looks(o)
  BY <1>0, <1>2, LooksStep, Zenon DEF LayoutInv, Ours
<1>3. CASE Changes(o)
  <2>1. CASE pc[o] \in {"truncate", "flush"}
    BY <1>0, <1>3, <2>1, ChangedFields DEF LayoutInv, OpenersInv, Creating
  <2>2. CASE pc[o] \notin {"truncate", "flush"}
    BY <1>0, <1>3, <2>2, ChangedFields DEF LayoutInv
  <2> QED BY <2>1, <2>2
<1> QED BY <1>1, <1>2, <1>3

(* MYLITE_OK is returned where the layout is complete, and it stays so. *)
LEMMA OkStep ==
  ASSUME DirectoryInv, Next
  PROVE  OkMeansLayout'
<1>0. TypeOK /\ OpenersInv /\ OkMeansLayout
  BY DEF DirectoryInv
<1>1. PICK o \in Openers : Looks(o) \/ Changes(o)
  BY Zenon DEF Next, Looks, Changes
<1>2. CASE Looks(o)
  <2>1. ASSUME result'[o] = "OK"
        PROVE  \/ result[o] = "OK"
               \/ pc[o] \in {"recheck", "flush"}
               \/ dir.datadir = "dir" /\ dir.tmp = "dir"
    <3> USE <1>0, <2>1, ReturnIs, GotoIs DEF At
    <3>1. CASE Start(o) BY <3>1, Zenon DEF Start, TypeOK
    <3>2. CASE Exists(o) BY <3>2 DEF Exists
    <3>3. CASE DoesNotExist(o) BY <3>3 DEF DoesNotExist
    <3>4. CASE MetadataExists(o) BY <3>4 DEF MetadataExists
    <3>5. CASE DirectoryIsEmpty(o) BY <3>5 DEF DirectoryIsEmpty
    <3>6. CASE ValidateMetadata(o) \/ ValidateLayout(o)
      BY <3>6 DEF ValidateMetadata, ValidateLayout
    <3>7. CASE SystemCallFails(o) \/ FlushMetadataFails(o) \/ Crash(o)
      BY <3>7 DEF SystemCallFails, FlushMetadataFails, Crash
    <3>8. CASE RecheckMetadata(o) BY <3>8 DEF RecheckMetadata
    <3> QED BY <1>2, <3>1, <3>2, <3>3, <3>4, <3>5, <3>6, <3>7, <3>8, Zenon DEF Looks
  <2>2. result'[o] = "OK" => dir.datadir = "dir" /\ dir.tmp = "dir"
    BY <1>0, <2>1 DEF OkMeansLayout, OpenersInv, Creating
  <2> QED BY <1>0, <1>2, <2>2, LooksStep, Zenon DEF OkMeansLayout
<1>3. CASE Changes(o)
  <2>1. /\ dir.datadir = "dir" => dir'.datadir = "dir"
        /\ dir.tmp = "dir" => dir'.tmp = "dir"
    BY <1>0, <1>3, ChangedFields
  <2>2. ASSUME result'[o] = "OK"
        PROVE  result[o] = "OK" \/ pc[o] = "flush"
    BY <1>0, <1>3, <2>2, ChangesStep
  <2>3. ASSUME NEW u \in Openers, result'[u] = "OK"
        PROVE  dir.datadir = "dir" /\ dir.tmp = "dir"
    <3>1. CASE u = o
      BY <1>0, <2>2, <2>3, <3>1 DEF OkMeansLayout, OpenersInv, Creating
    <3>2. CASE u # o
      <4>1. result[u] = "OK"
        BY <1>0, <1>3, <2>3, <3>2, ChangesStep
      <4> QED BY <1>0, <4>1, Zenon DEF OkMeansLayout
    <3> QED BY <3>1, <3>2
  <2> QED BY <2>1, <2>3, Zenon DEF OkMeansLayout
<1> QED BY <1>1, <1>2, <1>3

(* An opener at work that only looks, and meets no fault, is at the second    *)
(* test for mylite.meta.                                                      *)
LEMMA LooksAtWork ==
  ASSUME TypeOK, NEW o \in Openers, Looks(o), ~faulted', pc[o] \in Creating
  PROVE  pc[o] = "recheck" /\ (pc'[o] = "truncate" \/ dir.meta # "absent")
<1> USE GotoIs DEF At, Creating
<1>1. CASE Start(o) BY <1>1 DEF Start
<1>2. CASE Exists(o) \/ DoesNotExist(o) BY <1>2 DEF Exists, DoesNotExist
<1>3. CASE MetadataExists(o) \/ DirectoryIsEmpty(o)
  BY <1>3 DEF MetadataExists, DirectoryIsEmpty
<1>4. CASE ValidateMetadata(o) \/ ValidateLayout(o)
  BY <1>4 DEF ValidateMetadata, ValidateLayout
<1>5. CASE SystemCallFails(o) \/ FlushMetadataFails(o) \/ Crash(o)
  BY <1>5 DEF SystemCallFails, FlushMetadataFails, Crash
<1>6. CASE RecheckMetadata(o) BY <1>6 DEF RecheckMetadata
<1> QED BY <1>1, <1>2, <1>3, <1>4, <1>5, <1>6, Zenon DEF Looks

(* A creator is the last to leave only a complete directory. *)
LEMMA WorkStep ==
  ASSUME DirectoryInv, Next
  PROVE  WorkInv'
<1>0. TypeOK /\ OpenersInv /\ LayoutInv /\ WorkInv
  BY DEF DirectoryInv
<1>1. PICK o \in Openers : Looks(o) \/ Changes(o)
  BY Zenon DEF Next, Looks, Changes
<1>2. CASE Looks(o)
  <2> SUFFICES ASSUME ~faulted' PROVE WorkInv'
    BY Zenon DEF WorkInv
  <2>1. ~faulted /\ UNCHANGED <<dir, found>>
    BY <1>0, <1>2, LooksStep, Zenon
  <2>2. ASSUME NEW u \in Openers, pc[u] = "flush"
        PROVE  pc'[u] = "flush"
    <3>1. u # o
      BY <1>0, <1>2, <2>2, LooksAtWork DEF Creating
    <3> QED BY <1>0, <1>2, <2>2, <3>1, LooksStep, Zenon
  <2>3. dir'.meta = "empty" => \E u \in Openers : pc'[u] = "flush"
    BY <1>0, <2>1, <2>2 DEF WorkInv
  <2>4. ASSUME NEW u \in Openers, pc[u] \in Creating
        PROVE  Valid(dir) \/ \E v \in Openers : pc'[v] \in Creating
    <3>1. CASE u # o
      BY <1>0, <1>2, <2>4, <3>1, LooksStep, Zenon
    <3>2. CASE u = o /\ pc'[o] = "truncate"
      BY <3>2 DEF Creating
    <3>3. CASE u = o /\ dir.meta # "absent"
      <4>1. Ours
        BY <1>0, <2>4, Zenon DEF OpenersInv
      <4>2. Valid(dir) \/ dir.meta = "empty"
        BY <1>0, <3>3, <4>1 DEF LayoutInv, Valid
      <4> QED BY <2>1, <2>3, <4>2 DEF Creating
    <3> QED BY <1>0, <1>2, <2>4, <3>1, <3>2, <3>3, LooksAtWork
  <2>5. dir' = found' \/ Valid(dir') \/ \E u \in Openers : pc'[u] \in Creating
    BY <1>0, <2>1, <2>4, Zenon DEF WorkInv
  <2> QED BY <2>3, <2>5, Zenon DEF WorkInv
<1>3. CASE Changes(o)
  <2>1. CASE pc[o] = "flush"
    <3>1. dir'.meta = "valid"
      BY <1>0, <1>3, <2>1, ChangedFields
    <3>2. Valid(dir')
      BY <1>0, <1>3, <2>1, <3>1, ChangedFields DEF OpenersInv, Creating, Valid
    <3> QED BY <3>1, <3>2 DEF WorkInv
  <2>2. CASE pc[o] # "flush"
    <3>1. pc'[o] \in Creating /\ (dir'.meta = "empty" => dir.meta = "empty" \/ pc'[o] = "flush")
      BY <1>0, <1>3, <2>2, ChangesStep, ChangedFields DEF Creating
    <3>2. ASSUME NEW u \in Openers, pc[u] = "flush"
          PROVE  pc'[u] = "flush"
      BY <1>0, <1>3, <2>2, <3>2, ChangesStep
    <3>3. faulted' = faulted
      BY <1>0, <1>3, ChangesStep
    <3> QED BY <1>0, <3>1, <3>2, <3>3, Zenon DEF WorkInv
  <2> QED BY <2>1, <2>2
<1> QED BY <1>1, <1>2, <1>3
-----------------------------------------------------------------------------
(* The inductive invariant holds for any set of openers, any starting         *)
(* contents of the path and any faults.                                       *)
THEOREM DirectoryInvariant == Spec => []DirectoryInv
<1>1. ASSUME DirectoryInv, [Next]_vars PROVE DirectoryInv'
  <2>1. CASE Next
    BY <1>1, <2>1, TypeStep, RepairStep, OkStep, OpenersStep, LayoutStep, WorkStep, Zenon
      DEF DirectoryInv
  <2>2. CASE UNCHANGED vars
    BY <1>1, <2>2, Zenon
      DEF vars, DirectoryInv, TypeOK, NoSilentRepair, OkMeansLayout, OpenersInv, LayoutInv,
          WorkInv, Ours, Valid, Empty
  <2> QED BY <1>1, <2>1, <2>2
<1> QED BY <1>1, InitInv, PTL DEF Spec

(* Every variable keeps its type for any number of openers: only result codes *)
(* prepare_database_directory can return, only flags mylite_open accepts.     *)
THEOREM DirectoryTypes == Spec => []TypeOK
<1>1. DirectoryInv => TypeOK
  BY DEF DirectoryInv
<1> QED BY <1>1, DirectoryInvariant, PTL

(* A directory the library did not create is left as it was found, however    *)
(* the emptiness tests and the creation steps of any number of openers        *)
(* interleave, fail or crash.                                                 *)
THEOREM ForeignDirectoriesUntouched == Spec => []NoSilentRepair
<1>1. DirectoryInv => NoSilentRepair
  BY DEF DirectoryInv
<1> QED BY <1>1, DirectoryInvariant, PTL

(* mylite_open goes on to start the server only where datadir/ and tmp/ are   *)
(* there.                                                                     *)
THEOREM OpenedMeansLayout == Spec => []OkMeansLayout
<1>1. DirectoryInv => OkMeansLayout
  BY DEF DirectoryInv
<1> QED BY <1>1, DirectoryInvariant, PTL

(* Racing creators that meet no fault leave the directory as it was found or  *)
(* complete.                                                                  *)
THEOREM CreatorsConverge == Spec => []RacingCreatorsConverge
<1>1. DirectoryInv => RacingCreatorsConverge
  BY DEF DirectoryInv, WorkInv, RacingCreatorsConverge, Creating
<1> QED BY <1>1, DirectoryInvariant, PTL
=============================================================================

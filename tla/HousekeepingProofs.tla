-------------------------- MODULE HousekeepingProofs --------------------------
(***************************************************************************)
(* What TLAPS proves of Housekeeping, for any number of backups, faults    *)
(* and commands.                                                           *)
(***************************************************************************)
EXTENDS Housekeeping, TLAPS

-----------------------------------------------------------------------------
(* Types.                                                                  *)

LEMMA NullRecords ==
    /\ NewRow \in Row /\ NoCopy \in [Chain -> Row]
    /\ [NewRow EXCEPT !.status = "removed"] \in Row
  BY DEF NewRow, Row, NoCopy

LEMMA RowUpdate ==
    ASSUME NEW r \in Row
    PROVE  /\ \A s \in {"waiting", "running", "successful", "failed", "removed"} :
                [r EXCEPT !.status = s] \in Row
           /\ \A n \in {"null", "set", ""} : [r EXCEPT !.archive_name = n] \in Row
           /\ [r EXCEPT !.sized = TRUE] \in Row
  BY DEF Row

LEMMA FieldsKept ==
    ASSUME NEW r \in Row
    PROVE  /\ \A s : /\ [r EXCEPT !.status = s].status = s
                    /\ [r EXCEPT !.status = s].archive_name = r.archive_name
           /\ \A n : /\ [r EXCEPT !.archive_name = n].archive_name = n
                    /\ [r EXCEPT !.archive_name = n].status = r.status
           /\ \A b : /\ [r EXCEPT !.sized = b].archive_name = r.archive_name
                    /\ [r EXCEPT !.sized = b].status = r.status
  BY DEF Row

LEMMA CascadeType ==
    ASSUME NEW c \in Chain
    PROVE  Cascade(c) \in SUBSET Chain
  BY DEF Cascade

LEMMA ExtraType ==
    ASSUME TypeOK, Extra \/ UNCHANGED extra
    PROVE  extra' \in 0 .. MaxExtra
  BY HousekeepingAssumption DEF TypeOK, Extra

LEMMA JobType ==
    ASSUME TypeOK, NEW c \in Chain,
           \/ StartBackup(c) \/ StartCatalog(c) \/ CancelQueued(c)
           \/ BorgPrune(c) \/ Age(c) \/ JobStep(c)
    PROVE  TypeOK'
<1> USE DEF TypeOK, Stores, Commands
<1>1. CASE StartBackup(c)
  BY <1>1, RowUpdate DEF StartBackup
<1>2. CASE CreateArchive(c)
  BY <1>2 DEF CreateArchive
<1>3. CASE EndBackup(c)
  <2>1. PICK status \in Ran : job' = [job EXCEPT ![c].status = status]
    BY <1>3 DEF EndBackup
  <2>2. job' \in [Chain -> Row]
    BY <2>1, RowUpdate DEF Ran
  <2> QED
    BY <1>3, <2>1, <2>2 DEF EndBackup, Ran
<1>4. CASE SaveReport(c) \/ BorgPrune(c) \/ Age(c) \/ SaveEntries(c)
  BY <1>4 DEF SaveReport, BorgPrune, Age, SaveEntries
<1>5. CASE StartCatalog(c)
  BY <1>5 DEF StartCatalog, CatalogStarted
<1>6. CASE ReadMaster(c)
  BY <1>6 DEF ReadMaster, CatalogStarted, Ran
<1>7. CASE SaveMaster(c)
  <2>1. MasterNamed(c) \in Row
    BY RowUpdate DEF MasterNamed
  <2>2. job' \in [Chain -> Row] /\ master' \in [Chain -> Row]
    BY <1>7, <2>1, NullRecords DEF SaveMaster
  <2> QED
    BY <1>7, <2>2 DEF SaveMaster, CatalogStarted, Ran
<1>8. CASE PostEntries(c)
  BY <1>8, ExtraType DEF PostEntries, Ran
<1>9. CASE CancelQueued(c)
  <2>1. job' \in [Chain -> Row]
    <3>1. job' = job \/ job' = [job EXCEPT ![c].status = "failed"]
      BY <1>9 DEF CancelQueued
    <3>2. [job[c] EXCEPT !.status = "failed"] \in Row
      BY RowUpdate
    <3> QED
      BY <3>1, <3>2
  <2>2. extra' \in 0 .. MaxExtra
    BY <1>9, ExtraType DEF CancelQueued
  <2> QED
    BY <1>9, <2>1, <2>2 DEF CancelQueued, Ran
<1> QED
  BY <1>1, <1>2, <1>3, <1>4, <1>5, <1>6, <1>7, <1>8, <1>9 DEF JobStep

LEMMA SizerType ==
    ASSUME TypeOK, SizerQuery \/ \E c \in Chain : SizerSave(c)
    PROVE  TypeOK'
<1> USE DEF TypeOK, Stores, Jobs
<1>1. CASE SizerQuery
  BY <1>1, NullRecords DEF SizerQuery
<1>2. ASSUME NEW c \in Chain, SizerSave(c)
      PROVE  TypeOK'
  <2>1. Measured(c) \in Row
    BY RowUpdate DEF Measured
  <2>2. job' \in [Chain -> Row] /\ doubt' \subseteq Chain
    BY <1>2, <2>1 DEF SizerSave
  <2> QED
    BY <1>2, <2>2, NullRecords DEF SizerSave
<1> QED
  BY <1>1, <1>2

LEMMA SweepType ==
    ASSUME TypeOK, SweepStep \/ AbortSweep \/ \E k \in Kind : BeginSweep(k)
    PROVE  TypeOK'
<1> USE DEF TypeOK, Stores, Jobs
<1>0. NoSweep \in [pc : {"idle", "list", "scan", "walk"}, kind : Kind,
                   listed : SUBSET Chain, dead : SUBSET Chain,
                   orphan : SUBSET Chain, held : [Chain -> Row],
                   gone : SUBSET Chain]
  BY NullRecords DEF NoSweep, Kind
<1>1. ASSUME NEW k \in Kind, BeginSweep(k)
      PROVE  TypeOK'
  BY <1>0, <1>1, ExtraType DEF BeginSweep
<1>2. CASE ListRepositories
  <2>1. extra' \in 0 .. MaxExtra
    BY <1>2, ExtraType DEF ListRepositories
  <2>2. archives \cap Recognised \in SUBSET Chain
    OBVIOUS
  <2> QED
    BY <1>2, <2>1, <2>2 DEF ListRepositories
<1>3. CASE Scan
  BY <1>3, NullRecords DEF Scan
<1>4. ASSUME NEW c \in Chain, CleanEntry(c) \/ CleanOrphan(c)
      PROVE  TypeOK'
  <2>1. Cascade(c) \in SUBSET Chain
    BY CascadeType
  <2>2. CASE CleanEntry(c)
    BY <2>1, <2>2 DEF CleanEntry, WithoutEntries
  <2>3. CASE CleanOrphan(c)
    BY <2>1, <2>3 DEF CleanOrphan
  <2> QED
    BY <1>4, <2>2, <2>3
<1>5. ASSUME NEW c \in Chain, ClearName(c)
      PROVE  TypeOK'
  <2>1. Cleared(c) \in Row
    BY RowUpdate DEF Cleared
  <2> QED
    BY <1>5, <2>1, NullRecords DEF ClearName
<1>6. CASE EndSweep
  BY <1>0, <1>6, NullRecords DEF EndSweep
<1>7. CASE AbortSweep
  BY <1>0, <1>7, ExtraType DEF AbortSweep
<1> QED
  BY <1>1, <1>2, <1>3, <1>4, <1>5, <1>6, <1>7 DEF SweepStep

LEMMA TypeInit == Init => TypeOK
  BY HousekeepingAssumption, NullRecords
     DEF Init, TypeOK, NoSizer, NoSweep, Kind

LEMMA TypeStep == TypeOK /\ [Next]_vars => TypeOK'
<1>1. TypeOK /\ UNCHANGED vars => TypeOK'
  BY DEF TypeOK, vars
<1>2. TypeOK /\ Next => TypeOK'
  BY JobType, SizerType, SweepType DEF Next
<1> QED
  BY <1>1, <1>2

\* Every variable keeps its type, whatever the jobs and the commands do to each
\* other's rows.
THEOREM TypeCorrect == Spec => []TypeOK
  BY TypeInit, TypeStep, PTL DEF Spec

-----------------------------------------------------------------------------
(* The inductive invariant.                                                *)

\* The copies that will be saved are of rows that were there.
Copies ==
    \A c \in Chain : "removed" \notin {master[c].status, sizer.held[c].status,
                                       sweep.held[c].status}

\* A backup whose catalog job has saved its name has one, or a stale copy of its
\* row was saved since.
Named ==
    \A c \in Chain : catalog[c] \in {"saved", "successful"}
        => job[c].archive_name # "null" \/ c \in doubt \/ ~Present(c)
OldHaveRun == \A c \in old : catalog[c] \in Ran

Kept == (archives \cap Recognised) \ doubt
\* What a command has listed, found to be without archive or without name, and
\* is about to remove.
Swept ==
    /\ sweep.pc # "walk"
          => sweep.dead = {} /\ sweep.orphan = {} /\ sweep.gone = {}
    /\ sweep.pc = "scan" => Kept \subseteq sweep.listed
    /\ (sweep.dead \cup sweep.gone) \cap Kept = {}
    /\ \A c \in sweep.orphan : catalog[c] = "failed" \/ c \in doubt
    /\ sweep.gone \cap (entries \ doubt) = {}

IInv == /\ TypeOK /\ Copies /\ Named /\ OldHaveRun /\ Swept
        /\ KeptArchiveKeepsItsJob /\ EntriesBelongToAJob

LEMMA IInvInit == Init => IInv
<1> SUFFICES ASSUME Init PROVE IInv
  OBVIOUS
<1>1. Copies
  BY DEF Init, Copies, NoSizer, NoSweep, NoCopy, NewRow
<1>2. Named /\ OldHaveRun
  BY DEF Init, Named, OldHaveRun
<1>3. Swept /\ KeptArchiveKeepsItsJob /\ EntriesBelongToAJob
  BY DEF Init, Swept, Kept, NoSweep, KeptArchiveKeepsItsJob, EntriesBelongToAJob
<1> QED
  BY <1>1, <1>2, <1>3, TypeInit DEF IInv

LEMMA CopiesStep ==
    ASSUME IInv, Next
    PROVE  Copies'
<1> USE DEF IInv, Stores, Commands, Jobs
<1> SUFFICES ASSUME NEW c \in Chain
             PROVE  /\ master'[c].status # "removed"
                    /\ sizer'.held[c].status # "removed"
                    /\ sweep'.held[c].status # "removed"
  BY DEF Copies
<1>0. /\ NewRow.status # "removed" /\ NoCopy[c].status # "removed"
      /\ NoSweep.held[c].status # "removed"
  BY DEF NewRow, NoCopy, NoSweep
<1>1. master'[c].status # "removed"
  <2>1. CASE master' = master
    BY <2>1 DEF Copies
  <2>2. ASSUME NEW d \in Chain, ReadMaster(d) \/ SaveMaster(d)
        PROVE  master'[c].status # "removed"
    BY <1>0, <2>2 DEF ReadMaster, SaveMaster, Copies, Present, TypeOK
  <2> QED
    BY <2>1, <2>2 DEF Next, JobStep, SweepStep, StartBackup, StartCatalog,
       CancelQueued, BorgPrune, Age, SizerSave, SizerQuery, BeginSweep, AbortSweep,
       CreateArchive, EndBackup, SaveReport, PostEntries, SaveEntries, ListRepositories, Scan, EndSweep,
       CleanEntry, CleanOrphan, ClearName
<1>2. sizer'.held[c].status # "removed"
  <2>1. CASE sizer' = sizer
    BY <2>1 DEF Copies
  <2>2. CASE SizerQuery
    BY <1>0, <2>2 DEF SizerQuery, Unsized
  <2>3. ASSUME NEW d \in Chain, SizerSave(d)
        PROVE  sizer'.held[c].status # "removed"
    BY <1>0, <2>3 DEF SizerSave, Copies, TypeOK
  <2> QED
    BY <2>1, <2>2, <2>3 DEF Next, JobStep, SweepStep, StartBackup, StartCatalog,
       CancelQueued, BorgPrune, Age, BeginSweep, AbortSweep, CreateArchive, EndBackup,
       SaveReport, ReadMaster, SaveMaster, PostEntries, SaveEntries, ListRepositories, Scan,
       EndSweep, CleanEntry, CleanOrphan, ClearName
<1>3. sweep'.held[c].status # "removed"
  <2>1. CASE sweep' = sweep
    BY <2>1 DEF Copies
  <2>2. CASE ListRepositories
    BY <2>2 DEF ListRepositories, Copies, TypeOK
  <2>3. CASE Scan
    BY <1>0, <2>3 DEF Scan, Present
  <2>4. ASSUME NEW d \in Chain, CleanEntry(d) \/ CleanOrphan(d) \/ ClearName(d)
        PROVE  sweep'.held[c].status # "removed"
    <3>1. CASE CleanEntry(d) \/ CleanOrphan(d)
      <4>1. sweep'.held = sweep.held
        BY <3>1 DEF CleanEntry, CleanOrphan, TypeOK
      <4> QED
        BY <4>1 DEF Copies
    <3>2. CASE ClearName(d)
      <4>1. sweep'.held = [sweep.held EXCEPT ![d] = NewRow]
        BY <3>2 DEF ClearName, TypeOK
      <4> QED
        BY <1>0, <4>1 DEF Copies, TypeOK
    <3> QED
      BY <2>4, <3>1, <3>2
  <2>5. ASSUME NEW k \in Kind, BeginSweep(k)
        PROVE  sweep'.held[c].status # "removed"
    BY <1>0, <2>5 DEF BeginSweep, NoSweep
  <2>6. CASE EndSweep \/ AbortSweep
    BY <1>0, <2>6 DEF EndSweep, AbortSweep
  <2> QED
    BY <2>1, <2>2, <2>3, <2>4, <2>5, <2>6 DEF Next, JobStep, SweepStep, StartBackup,
       StartCatalog, CancelQueued, BorgPrune, Age, SizerSave, SizerQuery,
       CreateArchive, EndBackup, SaveReport, ReadMaster, SaveMaster, PostEntries, SaveEntries
<1> QED
  BY <1>1, <1>2, <1>3

\* The rest of the invariant, apart from what types and copies have to do.
Rest == /\ Named /\ OldHaveRun /\ Swept
        /\ KeptArchiveKeepsItsJob /\ EntriesBelongToAJob

\* A step that saves rows, and leaves archives, entries and the command alone.
LEMMA RowsSaved ==
    ASSUME IInv, UNCHANGED <<archives, entries, old, sweep>>, doubt \subseteq doubt',
           \A c \in Chain :
              /\ Present(c)' <=> Present(c)
              /\ catalog[c] \in Ran => catalog'[c] \in Ran
              /\ catalog[c] = "failed" => catalog'[c] = "failed"
              /\ catalog'[c] \in {"saved", "successful"} =>
                    \/ /\ catalog'[c] = catalog[c]
                       /\ job'[c].archive_name = job[c].archive_name
                    \/ job'[c].archive_name # "null"
                    \/ c \in doubt'
    PROVE  Rest'
<1> USE DEF IInv
<1>1. Named'
  BY DEF Named, Present
<1>2. OldHaveRun'
  BY DEF OldHaveRun, TypeOK
<1>3. Swept'
  BY DEF Swept, Kept, TypeOK, Ran
<1>4. KeptArchiveKeepsItsJob'
  BY HousekeepingAssumption DEF KeptArchiveKeepsItsJob, Present
<1>5. EntriesBelongToAJob'
  BY DEF EntriesBelongToAJob, TypeOK, Present
<1> QED
  BY <1>1, <1>2, <1>3, <1>4, <1>5 DEF Rest

\* Backups.
LEMMA BackupRest ==
    ASSUME IInv, NEW d \in Chain,
           \/ StartBackup(d) \/ CreateArchive(d) \/ EndBackup(d) \/ CancelQueued(d)
           \/ SaveReport(d) \/ BorgPrune(d) \/ Age(d)
    PROVE  Rest'
<1> USE DEF IInv, Stores, Commands, Jobs
<1>1. CASE StartBackup(d)
  <2>1. \A c \in Chain : /\ job'[c].archive_name = job[c].archive_name
                         /\ Present(c)' <=> Present(c)
    BY <1>1 DEF StartBackup, Present, TypeOK, Row
  <2> QED
    BY <1>1, <2>1, RowsSaved DEF StartBackup
<1>2. CASE CreateArchive(d)
  <2>1. Named'
    BY <1>2 DEF CreateArchive, Named, Present, TypeOK
  <2>2. OldHaveRun'
    BY <1>2 DEF CreateArchive, OldHaveRun, TypeOK
  <2>3. Swept'
    BY <1>2 DEF CreateArchive, Swept, Kept, TypeOK
  <2>4. KeptArchiveKeepsItsJob'
    BY <1>2 DEF CreateArchive, KeptArchiveKeepsItsJob, Present, Kept, TypeOK
  <2>5. EntriesBelongToAJob'
    BY <1>2 DEF CreateArchive, EntriesBelongToAJob, Present, TypeOK
  <2> QED
    BY <2>1, <2>2, <2>3, <2>4, <2>5 DEF Rest
<1>3. CASE EndBackup(d)
  <2>1. PICK status \in Ran : job' = [job EXCEPT ![d].status = status]
    BY <1>3 DEF EndBackup
  <2>2. \A c \in Chain : /\ job'[c].archive_name = job[c].archive_name
                         /\ Present(c)' <=> Present(c)
    <3>1. job[d].status = "running" /\ status # "removed"
      BY <1>3 DEF EndBackup, Ran
    <3> QED
      BY <2>1, <3>1, FieldsKept DEF Present, TypeOK
  <2> QED
    BY <1>3, <2>2, RowsSaved DEF EndBackup
<1>4. CASE SaveReport(d)
  <2>1. Named'
    BY <1>4 DEF SaveReport, Named, Present, TypeOK
  <2>2. OldHaveRun'
    BY <1>4 DEF SaveReport, OldHaveRun, TypeOK
  <2>3. Swept'
    BY <1>4 DEF SaveReport, Swept, Kept, TypeOK
  <2>4. KeptArchiveKeepsItsJob'
    BY <1>4 DEF SaveReport, KeptArchiveKeepsItsJob, Present, Kept, TypeOK
  <2>5. EntriesBelongToAJob'
    BY <1>4 DEF SaveReport, EntriesBelongToAJob, Present, TypeOK
  <2> QED
    BY <2>1, <2>2, <2>3, <2>4, <2>5 DEF Rest
<1>5. CASE BorgPrune(d)
  <2>1. Named'
    BY <1>5 DEF BorgPrune, Named, Present, TypeOK
  <2>2. OldHaveRun'
    BY <1>5 DEF BorgPrune, OldHaveRun, TypeOK
  <2>3. Swept'
    BY <1>5 DEF BorgPrune, Swept, Kept, TypeOK
  <2>4. KeptArchiveKeepsItsJob'
    BY <1>5 DEF BorgPrune, KeptArchiveKeepsItsJob, Present, Kept, TypeOK
  <2>5. EntriesBelongToAJob'
    BY <1>5 DEF BorgPrune, EntriesBelongToAJob, Present, TypeOK
  <2> QED
    BY <2>1, <2>2, <2>3, <2>4, <2>5 DEF Rest
<1>6. CASE Age(d)
  <2>1. Named'
    BY <1>6 DEF Age, Named, Present, TypeOK
  <2>2. OldHaveRun'
    BY <1>6 DEF Age, OldHaveRun, TypeOK
  <2>3. Swept'
    BY <1>6 DEF Age, Swept, Kept, TypeOK
  <2>4. KeptArchiveKeepsItsJob'
    BY <1>6 DEF Age, KeptArchiveKeepsItsJob, Present, Kept, TypeOK
  <2>5. EntriesBelongToAJob'
    BY <1>6 DEF Age, EntriesBelongToAJob, Present, TypeOK
  <2> QED
    BY <2>1, <2>2, <2>3, <2>4, <2>5 DEF Rest
<1>7. CASE CancelQueued(d)
  <2>1. \A c \in Chain : /\ job'[c].archive_name = job[c].archive_name
                         /\ Present(c)' <=> Present(c)
    <3>1. CASE job[d].status = "waiting" /\ job' = [job EXCEPT ![d].status = "failed"]
      BY <3>1, FieldsKept DEF Present, TypeOK
    <3>2. CASE UNCHANGED job
      BY <3>2 DEF Present
    <3> QED
      BY <1>7, <3>1, <3>2 DEF CancelQueued
  <2>2. \A c \in Chain : catalog'[c] \in {catalog[c], "failed"}
    BY <1>7 DEF CancelQueued, TypeOK
  <2> QED
    BY <1>7, <2>1, <2>2, RowsSaved DEF CancelQueued, Ran
<1> QED
  BY <1>1, <1>2, <1>3, <1>4, <1>5, <1>6, <1>7

\* Catalog jobs.
LEMMA CatalogRest ==
    ASSUME IInv, NEW d \in Chain,
           \/ StartCatalog(d) \/ ReadMaster(d) \/ SaveMaster(d)
           \/ PostEntries(d) \/ SaveEntries(d) \/ SizerSave(d)
    PROVE  Rest'
<1> USE DEF IInv, Stores, Commands, Jobs
<1>1. CASE StartCatalog(d)
  <2>1. Named'
    BY <1>1 DEF StartCatalog, Ran, Named, Present, TypeOK
  <2>2. OldHaveRun'
    BY <1>1 DEF StartCatalog, Ran, OldHaveRun, TypeOK
  <2>3. Swept'
    BY <1>1 DEF StartCatalog, Ran, Swept, Kept, TypeOK
  <2>4. KeptArchiveKeepsItsJob'
    BY <1>1 DEF StartCatalog, Ran, KeptArchiveKeepsItsJob, Present, Kept, TypeOK
  <2>5. EntriesBelongToAJob'
    BY <1>1 DEF StartCatalog, Ran, EntriesBelongToAJob, Present, TypeOK
  <2> QED
    BY <2>1, <2>2, <2>3, <2>4, <2>5 DEF Rest
<1>2. CASE ReadMaster(d)
  <2>1. Named'
    BY <1>2 DEF ReadMaster, Ran, CatalogStarted, Named, Present, TypeOK
  <2>2. OldHaveRun'
    BY <1>2 DEF ReadMaster, Ran, CatalogStarted, OldHaveRun, TypeOK
  <2>3. Swept'
    BY <1>2 DEF ReadMaster, Ran, CatalogStarted, Swept, Kept, TypeOK
  <2>4. KeptArchiveKeepsItsJob'
    BY <1>2 DEF ReadMaster, Ran, CatalogStarted, KeptArchiveKeepsItsJob, Present, Kept, TypeOK
  <2>5. EntriesBelongToAJob'
    BY <1>2 DEF ReadMaster, Ran, CatalogStarted, EntriesBelongToAJob, Present, TypeOK
  <2> QED
    BY <2>1, <2>2, <2>3, <2>4, <2>5 DEF Rest
<1>3. CASE SaveMaster(d)
  <2>1. /\ MasterNamed(d).archive_name = "set"
        /\ MasterNamed(d).status # "removed"
    BY FieldsKept DEF MasterNamed, Copies, TypeOK
  <2>2. \A c \in Chain :
          /\ Present(c)' <=> Present(c)
          /\ catalog[c] \in Ran => catalog'[c] = catalog[c]
          /\ \/ catalog'[c] = catalog[c] /\ job'[c] = job[c]
             \/ catalog'[c] = "failed"
             \/ job'[c].archive_name # "null"
    <3>1. CASE Present(d)
      BY <1>3, <2>1, <3>1 DEF SaveMaster, Present, TypeOK, Ran
    <3>2. CASE ~Present(d)
      BY <1>3, <3>2 DEF SaveMaster, Present, TypeOK, Ran
    <3> QED
      BY <3>1, <3>2
  <2> QED
    BY <1>3, <2>2, RowsSaved DEF SaveMaster, Ran
<1>4. CASE PostEntries(d)
  <2>1. Named'
    BY <1>4 DEF PostEntries, Ran, Named, Present, TypeOK
  <2>2. OldHaveRun'
    BY <1>4 DEF PostEntries, Ran, OldHaveRun, TypeOK
  <2>3. Swept'
    BY <1>4 DEF PostEntries, Ran, Swept, Kept, TypeOK
  <2>4. KeptArchiveKeepsItsJob'
    BY <1>4 DEF PostEntries, Ran, KeptArchiveKeepsItsJob, Present, Kept, TypeOK
  <2>5. EntriesBelongToAJob'
    BY <1>4 DEF PostEntries, Ran, EntriesBelongToAJob, Present, TypeOK
  <2> QED
    BY <2>1, <2>2, <2>3, <2>4, <2>5 DEF Rest
<1>5. CASE SaveEntries(d)
  <2>1. Named'
    BY <1>5 DEF SaveEntries, Unlocked, Named, Present, TypeOK
  <2>2. OldHaveRun'
    BY <1>5 DEF SaveEntries, Unlocked, OldHaveRun, TypeOK
  <2>3. Swept'
    BY <1>5 DEF SaveEntries, Unlocked, Swept, Kept, TypeOK
  <2>4. KeptArchiveKeepsItsJob'
    BY <1>5 DEF SaveEntries, Unlocked, KeptArchiveKeepsItsJob, Present, Kept, TypeOK
  <2>5. EntriesBelongToAJob'
    BY <1>5 DEF SaveEntries, Unlocked, EntriesBelongToAJob, Present, TypeOK
  <2> QED
    BY <2>1, <2>2, <2>3, <2>4, <2>5 DEF Rest
<1>6. CASE SizerSave(d)
  <2>1. /\ Measured(d).archive_name = sizer.held[d].archive_name
        /\ Measured(d).status # "removed"
    BY FieldsKept DEF Measured, Copies, TypeOK
  <2>2. \A c \in Chain :
          /\ Present(c)' <=> Present(c)
          /\ job'[c].archive_name = job[c].archive_name \/ c \in doubt'
    <3>1. CASE d \in reported /\ Present(d)
      BY <1>6, <2>1, <3>1 DEF SizerSave, Present, TypeOK
    <3>2. CASE ~(d \in reported /\ Present(d))
      BY <1>6, <3>2 DEF SizerSave, Present
    <3> QED
      BY <3>1, <3>2
  <2>3. doubt \subseteq doubt'
    BY <1>6 DEF SizerSave
  <2> QED
    BY <1>6, <2>2, <2>3, RowsSaved DEF SizerSave
<1> QED
  BY <1>1, <1>2, <1>3, <1>4, <1>5, <1>6


\* The queries of the commands, and what has no store to disturb.
LEMMA QueryRest ==
    ASSUME IInv, SizerQuery \/ ListRepositories \/ Scan
                 \/ \E k \in Kind : BeginSweep(k)
    PROVE  Rest'
<1> USE DEF IInv, Stores, Jobs
<1>1. CASE SizerQuery
  <2>1. Named'
    BY <1>1 DEF SizerQuery, Named, Present, TypeOK
  <2>2. OldHaveRun'
    BY <1>1 DEF SizerQuery, OldHaveRun, TypeOK
  <2>3. Swept'
    BY <1>1 DEF SizerQuery, Swept, Kept, TypeOK
  <2>4. KeptArchiveKeepsItsJob'
    BY <1>1 DEF SizerQuery, KeptArchiveKeepsItsJob, Present, Kept, TypeOK
  <2>5. EntriesBelongToAJob'
    BY <1>1 DEF SizerQuery, EntriesBelongToAJob, Present, TypeOK
  <2> QED
    BY <2>1, <2>2, <2>3, <2>4, <2>5 DEF Rest
<1>2. CASE ListRepositories
  <2>1. Named'
    BY <1>2 DEF ListRepositories, Named, Present, TypeOK
  <2>2. OldHaveRun'
    BY <1>2 DEF ListRepositories, OldHaveRun, TypeOK
  <2>3. Swept'
    BY <1>2 DEF ListRepositories, Swept, Kept, TypeOK
  <2>4. KeptArchiveKeepsItsJob'
    BY <1>2 DEF ListRepositories, KeptArchiveKeepsItsJob, Present, Kept, TypeOK
  <2>5. EntriesBelongToAJob'
    BY <1>2 DEF ListRepositories, EntriesBelongToAJob, Present, TypeOK
  <2> QED
    BY <2>1, <2>2, <2>3, <2>4, <2>5 DEF Rest
<1>3. CASE Scan
  <2>1. Named'
    BY <1>3 DEF Scan, NotListed, Orphan, Ran, Named, Present, TypeOK
  <2>2. OldHaveRun'
    BY <1>3 DEF Scan, NotListed, Orphan, Ran, OldHaveRun, TypeOK
  <2>3. Swept'
    <3>1. /\ sweep.pc = "scan" /\ sweep'.pc = "walk" /\ sweep'.gone = sweep.gone
          /\ \A c \in sweep'.dead : c \notin sweep.listed
          /\ \A c \in sweep'.orphan : c \in Chain /\ Orphan(c) /\ Present(c)
      BY <1>3 DEF Scan, NotListed, TypeOK
    <3>2. \A c \in sweep'.orphan : catalog[c] = "failed" \/ c \in doubt
      BY <3>1 DEF Orphan, OldHaveRun, Named, Ran
    <3>3. UNCHANGED <<archives, doubt, entries, catalog>>
      BY <1>3 DEF Scan
    <3> QED
      BY <3>1, <3>2, <3>3 DEF Swept, Kept
  <2>4. KeptArchiveKeepsItsJob'
    BY <1>3 DEF Scan, NotListed, Orphan, Ran, KeptArchiveKeepsItsJob, Present, Kept, TypeOK
  <2>5. EntriesBelongToAJob'
    BY <1>3 DEF Scan, NotListed, Orphan, Ran, EntriesBelongToAJob, Present, TypeOK
  <2> QED
    BY <2>1, <2>2, <2>3, <2>4, <2>5 DEF Rest
<1>4. ASSUME NEW k \in Kind, BeginSweep(k)
      PROVE  Rest'
  <2>1. Named'
    BY <1>4 DEF BeginSweep, NoSweep, Named, Present, TypeOK
  <2>2. OldHaveRun'
    BY <1>4 DEF BeginSweep, NoSweep, OldHaveRun, TypeOK
  <2>3. Swept'
    BY <1>4 DEF BeginSweep, NoSweep, Swept, Kept, TypeOK
  <2>4. KeptArchiveKeepsItsJob'
    BY <1>4 DEF BeginSweep, NoSweep, KeptArchiveKeepsItsJob, Present, Kept, TypeOK
  <2>5. EntriesBelongToAJob'
    BY <1>4 DEF BeginSweep, NoSweep, EntriesBelongToAJob, Present, TypeOK
  <2> QED
    BY <2>1, <2>2, <2>3, <2>4, <2>5 DEF Rest
<1> QED
  BY <1>1, <1>2, <1>3, <1>4

\* What the commands remove and write back.
LEMMA RemovalRest ==
    ASSUME IInv, \/ EndSweep \/ AbortSweep
                 \/ \E c \in Chain : CleanEntry(c) \/ CleanOrphan(c) \/ ClearName(c)
    PROVE  Rest'
<1> USE DEF IInv, Stores, Jobs
<1>1. ASSUME NEW d \in Chain, CleanEntry(d)
      PROVE  Rest'
  <2>1. Named'
    BY <1>1, CascadeType DEF CleanEntry, WithoutEntries, Named, Present, TypeOK
  <2>2. OldHaveRun'
    BY <1>1, CascadeType DEF CleanEntry, WithoutEntries, OldHaveRun, TypeOK
  <2>3. Swept'
    <3>1. /\ sweep'.dead = sweep.dead \ {d} /\ sweep'.orphan = sweep.orphan
          /\ sweep'.gone = sweep.gone \cup Cascade(d) /\ sweep'.pc = sweep.pc
          /\ d \in sweep.dead
          /\ doubt' = doubt \cup (Cascade(d) \ {d}) /\ entries' = entries \ {d}
          /\ UNCHANGED <<archives, catalog>>
      BY <1>1 DEF CleanEntry, WithoutEntries, TypeOK
    <3>2. sweep.pc = "walk" /\ d \notin Kept
      BY <3>1 DEF Swept
    <3> QED
      BY <3>1, <3>2 DEF Swept, Kept
  <2>4. KeptArchiveKeepsItsJob'
    BY <1>1, CascadeType DEF CleanEntry, WithoutEntries, KeptArchiveKeepsItsJob, Present, Kept, TypeOK
  <2>5. EntriesBelongToAJob'
    BY <1>1, CascadeType DEF CleanEntry, WithoutEntries, EntriesBelongToAJob, Present, TypeOK
  <2> QED
    BY <2>1, <2>2, <2>3, <2>4, <2>5 DEF Rest
<1>2. ASSUME NEW d \in Chain, CleanOrphan(d)
      PROVE  Rest'
  <2>1. Named'
    BY <1>2, CascadeType DEF CleanOrphan, Named, Present, TypeOK
  <2>2. OldHaveRun'
    BY <1>2, CascadeType DEF CleanOrphan, OldHaveRun, TypeOK
  <2>3. Swept'
    <3>1. /\ sweep'.dead = sweep.dead /\ sweep'.orphan = sweep.orphan \ {d}
          /\ sweep'.gone = sweep.gone \cup Cascade(d) /\ sweep'.pc = sweep.pc
          /\ d \in sweep.orphan
          /\ doubt' = doubt \cup (Cascade(d) \ {d})
                           \cup {x \in {d} : catalog[x] = "failed"}
          /\ UNCHANGED <<archives, entries, catalog>>
      BY <1>2 DEF CleanOrphan, TypeOK
    <3>2. sweep.pc = "walk" /\ Cascade(d) \subseteq doubt'
      BY <3>1 DEF Swept
    <3> QED
      BY <3>1, <3>2 DEF Swept, Kept
  <2>4. KeptArchiveKeepsItsJob'
    BY <1>2, CascadeType DEF CleanOrphan, KeptArchiveKeepsItsJob, Present, Kept, TypeOK
  <2>5. EntriesBelongToAJob'
    BY <1>2, CascadeType DEF CleanOrphan, EntriesBelongToAJob, Present, TypeOK
  <2> QED
    BY <2>1, <2>2, <2>3, <2>4, <2>5 DEF Rest
<1>3. ASSUME NEW d \in Chain, ClearName(d)
      PROVE  Rest'
  <2>0. /\ sweep'.dead = sweep.dead \ {d} /\ sweep'.orphan = sweep.orphan
        /\ sweep'.gone = sweep.gone /\ sweep'.pc = sweep.pc
        /\ doubt' = doubt \cup {d} /\ job' = [job EXCEPT ![d] = Cleared(d)]
        /\ UNCHANGED <<archives, entries, catalog>>
        /\ d \in sweep.dead
    BY <1>3 DEF ClearName, TypeOK
  <2>1. Named'
    BY <2>0 DEF Named, Present, TypeOK
  <2>2. OldHaveRun'
    BY <1>3, FieldsKept DEF ClearName, Cleared, Copies, OldHaveRun, TypeOK
  <2>3. Swept'
    <3>1. sweep.pc = "walk"
      BY <2>0 DEF Swept
    <3> QED
      BY <2>0, <3>1 DEF Swept, Kept
  <2>4. KeptArchiveKeepsItsJob'
    BY <1>3, FieldsKept DEF ClearName, Cleared, Copies, KeptArchiveKeepsItsJob, Present, Kept, TypeOK
  <2>5. EntriesBelongToAJob'
    BY <1>3, FieldsKept DEF ClearName, Cleared, Copies, EntriesBelongToAJob, Present, TypeOK
  <2> QED
    BY <2>1, <2>2, <2>3, <2>4, <2>5 DEF Rest
<1>4. CASE EndSweep
  <2>1. Named'
    BY <1>4 DEF EndSweep, NoSweep, NewRow, Named, Present, TypeOK
  <2>2. OldHaveRun'
    BY <1>4 DEF EndSweep, NoSweep, NewRow, OldHaveRun, TypeOK
  <2>3. Swept'
    BY <1>4 DEF EndSweep, NoSweep, NewRow, Swept, Kept, TypeOK
  <2>4. KeptArchiveKeepsItsJob'
    BY <1>4 DEF EndSweep, KeptArchiveKeepsItsJob, Swept, Present, Kept, TypeOK
  <2>5. EntriesBelongToAJob'
    BY <1>4 DEF EndSweep, EntriesBelongToAJob, Swept, Present, TypeOK
  <2> QED
    BY <2>1, <2>2, <2>3, <2>4, <2>5 DEF Rest
<1>5. CASE AbortSweep
  <2>1. Named'
    BY <1>5 DEF AbortSweep, NoSweep, Named, Present, TypeOK
  <2>2. OldHaveRun'
    BY <1>5 DEF AbortSweep, NoSweep, OldHaveRun, TypeOK
  <2>3. Swept'
    BY <1>5 DEF AbortSweep, NoSweep, Swept, Kept, TypeOK
  <2>4. KeptArchiveKeepsItsJob'
    BY <1>5 DEF AbortSweep, NoSweep, KeptArchiveKeepsItsJob, Present, Kept, TypeOK
  <2>5. EntriesBelongToAJob'
    BY <1>5 DEF AbortSweep, NoSweep, EntriesBelongToAJob, Present, TypeOK
  <2> QED
    BY <2>1, <2>2, <2>3, <2>4, <2>5 DEF Rest
<1> QED
  BY <1>1, <1>2, <1>3, <1>4, <1>5

LEMMA IInvStep == IInv /\ [Next]_vars => IInv'
<1> SUFFICES ASSUME IInv, [Next]_vars
             PROVE  IInv'
  OBVIOUS
<1>1. CASE UNCHANGED vars
  BY <1>1 DEF vars, IInv, TypeOK, Copies, Named, Present, OldHaveRun, Swept, Kept,
     KeptArchiveKeepsItsJob, EntriesBelongToAJob
<1>2. CASE Next
  <2>1. TypeOK'
    BY <1>2, TypeStep DEF IInv
  <2>2. Rest'
    BY <1>2, BackupRest, CatalogRest, QueryRest, RemovalRest
       DEF Next, JobStep, SweepStep
  <2> QED
    BY <1>2, <2>1, <2>2, CopiesStep DEF IInv, Rest
<1> QED
  BY <1>1, <1>2

LEMMA Invariant == Spec => []IInv
  BY IInvInit, IInvStep, PTL DEF Spec

\* No command removes the row of a backup whose archive is kept, but for the
\* races that `doubt` names, whatever stale copies are saved meanwhile.
THEOREM KeptJobs == Spec => []KeptArchiveKeepsItsJob
<1>1. IInv => KeptArchiveKeepsItsJob
  BY DEF IInv
<1> QED
  BY <1>1, Invariant, PTL

\* The two databases agree in the other direction: but for the same races, no
\* entry of the catalog outlives the row of its job.
THEOREM OwnedEntries == Spec => []EntriesBelongToAJob
<1>1. IInv => EntriesBelongToAJob
  BY DEF IInv
<1> QED
  BY <1>1, Invariant, PTL
=============================================================================

-------------------------- MODULE RetentionProofs --------------------------
(***************************************************************************)
(* Theorems about Retention: a key launches one job, and again only after  *)
(* the server died; a job is only ever in a folder of its owner; and a     *)
(* cleanup leaves archived jobs alone.                                     *)
(***************************************************************************)
EXTENDS Retention, TLAPS

-----------------------------------------------------------------------------
(* Folders and the placement of jobs. *)

\* Only the submitter of a job organizes it, so that its entry has that owner.
Organized ==
    /\ OrganizationTypeOK
    /\ \A j \in Jobs : placed[j] # Nothing => placed[j].owner = Submitter[j]
    /\ FiledInOwnFolder
    /\ FolderNamesDistinct

LEMMA InitOrganized == OrganizationInit => Organized
  BY DEF OrganizationInit, Organized, OrganizationTypeOK, Unused, FiledInOwnFolder,
         FolderNamesDistinct, Owned

\* The placement of jobs is all that differs: the new entries are in folders of
\* the submitters.
LEMMA Placing ==
    ASSUME Organized, UNCHANGED folders,
           placed' \in [Jobs -> Place \cup {Nothing}],
           \A j \in Jobs : placed'[j] # Nothing =>
               /\ placed'[j].owner = Submitter[j]
               /\ placed'[j].folder # Nothing => placed'[j].folder \in Owned(placed'[j].owner)
    PROVE  Organized'
  BY DEF Organized, OrganizationTypeOK, FiledInOwnFolder, FolderNamesDistinct, Owned

LEMMA CreateOrganized ==
    ASSUME Organized, NEW owner \in Owners, NEW name \in Names, create_folder(owner, name)
    PROVE  Organized'
  <1>1. PICK f \in Folders :
          /\ folders[f] = Unused
          /\ folders' = [folders EXCEPT ![f] =
                             [state |-> "present", owner |-> owner, name |-> name]]
    BY DEF create_folder
  <1>2. placed' = placed /\ ~NameTaken(owner, name, Owned(owner))
    BY DEF create_folder
  <1>3. /\ folders \in [Folders -> [state : {"unused", "present", "deleted"},
                                    owner : Owners \cup {Nothing}, name : Names \cup {Nothing}]]
        /\ folders[f].state = "unused"
    BY <1>1 DEF Organized, OrganizationTypeOK, Unused
  <1>4. OrganizationTypeOK'
    BY <1>1, <1>2, <1>3 DEF Organized, OrganizationTypeOK
  <1>5. \A g \in Folders \ {f} : folders'[g] = folders[g]
    BY <1>1, <1>3
  <1>6. folders'[f].owner = owner /\ folders'[f].name = name
    BY <1>1, <1>3
  <1>7. \A o \in Owners : Owned(o) \subseteq Owned(o)' /\ Owned(o)' \subseteq Owned(o) \cup {f}
    BY <1>3, <1>5 DEF Owned
  <1>8. FiledInOwnFolder'
    <2>1. \A j \in Jobs : placed[j] # Nothing => placed[j].owner \in Owners
      BY DEF Organized, OrganizationTypeOK, Place
    <2> QED
      BY <1>2, <1>7, <2>1 DEF Organized, FiledInOwnFolder
  <1>9. FolderNamesDistinct'
    <2> SUFFICES ASSUME NEW o \in Owners, NEW g \in Owned(o)', NEW h \in Owned(o)',
                        folders'[g].name = folders'[h].name
                 PROVE  g = h
      BY DEF FolderNamesDistinct
    <2>1. CASE g # f /\ h # f
      BY <2>1, <1>5, <1>7 DEF Organized, FolderNamesDistinct, Owned
    <2>2. CASE g = f /\ h # f
      BY <2>2, <1>2, <1>5, <1>6, <1>7 DEF NameTaken, Owned
    <2>3. CASE g # f /\ h = f
      BY <2>3, <1>2, <1>5, <1>6, <1>7 DEF NameTaken, Owned
    <2> QED
      BY <2>1, <2>2, <2>3
  <1> QED
    BY <1>2, <1>4, <1>8, <1>9 DEF Organized

LEMMA RenameOrganized ==
    ASSUME Organized, NEW f \in Folders, NEW owner \in Owners, NEW name \in Names,
           rename_folder(f, owner, name)
    PROVE  Organized'
  <1>1. /\ f \in Owned(owner)
        /\ ~NameTaken(owner, name, Owned(owner) \ {f})
        /\ folders' = [folders EXCEPT ![f].name = name]
        /\ placed' = placed
    BY DEF rename_folder
  <1>2. folders \in [Folders -> [state : {"unused", "present", "deleted"},
                                 owner : Owners \cup {Nothing}, name : Names \cup {Nothing}]]
    BY DEF Organized, OrganizationTypeOK
  <1>3. OrganizationTypeOK'
    BY <1>1, <1>2 DEF Organized, OrganizationTypeOK
  <1>4. /\ \A g \in Folders \ {f} : folders'[g] = folders[g]
        /\ folders'[f].name = name
        /\ folders'[f].owner = folders[f].owner /\ folders'[f].state = folders[f].state
    BY <1>1, <1>2
  <1>5. \A o \in Owners : Owned(o)' = Owned(o)
    BY <1>4 DEF Owned
  <1>6. FiledInOwnFolder'
    <2>1. \A j \in Jobs : placed[j] # Nothing => placed[j].owner \in Owners
      BY DEF Organized, OrganizationTypeOK, Place
    <2> QED
      BY <1>1, <1>5, <2>1 DEF Organized, FiledInOwnFolder
  <1>7. FolderNamesDistinct'
    <2> SUFFICES ASSUME NEW o \in Owners, NEW g \in Owned(o), NEW h \in Owned(o),
                        folders'[g].name = folders'[h].name
                 PROVE  g = h
      BY <1>5 DEF FolderNamesDistinct
    <2>1. g = f \/ h = f => o = owner
      BY <1>1 DEF Owned
    <2>2. CASE g # f /\ h # f
      BY <2>2, <1>4 DEF Organized, FolderNamesDistinct, Owned
    <2>3. CASE g = f /\ h # f
      BY <2>1, <2>3, <1>1, <1>4 DEF NameTaken, Owned
    <2>4. CASE g # f /\ h = f
      BY <2>1, <2>4, <1>1, <1>4 DEF NameTaken, Owned
    <2> QED
      BY <2>2, <2>3, <2>4
  <1> QED
    BY <1>1, <1>3, <1>6, <1>7 DEF Organized

\* A deleted folder is emptied with it.
LEMMA DeleteOrganized ==
    ASSUME Organized, NEW f \in Folders, NEW owner \in Owners, delete_folder(f, owner)
    PROVE  Organized'
  <1>1. /\ f \in Owned(owner)
        /\ folders' = [folders EXCEPT ![f].state = "deleted"]
        /\ placed' = [j \in Jobs |-> Emptied(placed[j], owner, f)]
    BY DEF delete_folder
  <1>2. /\ folders \in [Folders -> [state : {"unused", "present", "deleted"},
                                    owner : Owners \cup {Nothing}, name : Names \cup {Nothing}]]
        /\ placed \in [Jobs -> Place \cup {Nothing}]
    BY DEF Organized, OrganizationTypeOK
  <1>3. /\ \A g \in Folders \ {f} : folders'[g] = folders[g]
        /\ folders'[f].state = "deleted"
    BY <1>1, <1>2
  <1>4. \A o \in Owners : Owned(o)' = Owned(o) \ {f}
    BY <1>3 DEF Owned
  <1>5. \A j \in Jobs : Emptied(placed[j], owner, f) \in Place \cup {Nothing}
    BY <1>2 DEF Emptied, Place
  <1>6. OrganizationTypeOK'
    <2>1. folders' \in [Folders -> [state : {"unused", "present", "deleted"},
                                    owner : Owners \cup {Nothing}, name : Names \cup {Nothing}]]
      BY <1>1, <1>2
    <2> QED
      BY <1>1, <1>5, <2>1 DEF OrganizationTypeOK
  <1>7. ASSUME NEW j \in Jobs, placed'[j] # Nothing
        PROVE  /\ placed'[j].owner = Submitter[j]
               /\ (placed[j].folder # Nothing => placed[j].folder \in Owned(placed[j].owner))'
    <2>1. placed'[j] = Emptied(placed[j], owner, f) /\ placed[j] # Nothing
      BY <1>1, <1>7 DEF Emptied
    <2>2. placed[j] \in Place
      BY <1>2, <2>1
    <2>3. placed[j].owner = Submitter[j]
      BY <2>1 DEF Organized
    <2>4. placed[j].folder # Nothing => placed[j].folder \in Owned(placed[j].owner)
      BY <2>1 DEF Organized, FiledInOwnFolder
    <2>5. CASE placed[j].owner = owner /\ placed[j].folder = f
      <3>1. placed'[j] = [placed[j] EXCEPT !.folder = Nothing]
        BY <2>1, <2>5 DEF Emptied
      <3> QED
        BY <2>2, <2>3, <3>1 DEF Place
    <2>6. CASE ~(placed[j].owner = owner /\ placed[j].folder = f)
      <3>1. placed'[j] = placed[j]
        BY <2>1, <2>6 DEF Emptied
      <3>2. placed[j].folder = f => placed[j].owner # owner
        BY <2>6
      <3>3. placed[j].folder # f \/ placed[j].folder = Nothing
        BY <1>1, <2>4, <3>2 DEF Owned
      <3> QED
        BY <1>4, <2>2, <2>3, <2>4, <3>1, <3>3 DEF Place
    <2> QED
      BY <2>5, <2>6
  <1>8. FolderNamesDistinct'
    BY <1>3, <1>4 DEF Organized, FolderNamesDistinct, Owned
  <1> QED
    BY <1>6, <1>7, <1>8 DEF Organized, FiledInOwnFolder

LEMMA FolderStepOrganized == Organized /\ FolderStep => Organized'
  BY CreateOrganized, RenameOrganized, DeleteOrganized DEF FolderStep

\* The entry a submitter makes or changes is the submitter's.
LEMMA EntryPlaced ==
    ASSUME Organized, NEW j \in Jobs, NEW owner \in Owners, owner = Submitter[j]
    PROVE  /\ EntryOf(j, owner) \in Place
           /\ EntryOf(j, owner).owner = owner
           /\ EntryOf(j, owner).folder # Nothing
                => EntryOf(j, owner).folder \in Owned(owner)
  <1>1. CASE placed[j] = Nothing
    BY <1>1 DEF EntryOf, Place
  <1>2. CASE placed[j] # Nothing
    <2>1. placed[j] \in Place /\ placed[j].owner = owner
      BY <1>2 DEF Organized, OrganizationTypeOK
    <2>2. EntryOf(j, owner) = [placed[j] EXCEPT !.owner = owner]
      BY <1>2 DEF EntryOf
    <2>3. EntryOf(j, owner) \in Place /\ EntryOf(j, owner).owner = owner
          /\ EntryOf(j, owner).folder = placed[j].folder
      BY <2>1, <2>2 DEF Place
    <2> QED
      BY <1>2, <2>1, <2>3 DEF Organized, FiledInOwnFolder
  <1> QED
    BY <1>1, <1>2

LEMMA MoveOrganized ==
    ASSUME Organized, NEW j \in Jobs, NEW owner \in Owners, move_job_to_folder(j, owner)
    PROVE  Organized'
  <1>1. owner = Submitter[j] /\ folders' = folders
    BY DEF move_job_to_folder, MayOrganize, set_job_folder
  <1>2. PICK f \in Owned(owner) \cup {Nothing} :
          placed' = [placed EXCEPT ![j] = [EntryOf(j, owner) EXCEPT !.folder = f]]
    BY DEF move_job_to_folder, set_job_folder
  <1>3. /\ [EntryOf(j, owner) EXCEPT !.folder = f] \in Place
        /\ [EntryOf(j, owner) EXCEPT !.folder = f].owner = owner
        /\ [EntryOf(j, owner) EXCEPT !.folder = f].folder = f
    BY <1>1, EntryPlaced DEF Place, Owned
  <1>4. placed \in [Jobs -> Place \cup {Nothing}]
    BY DEF Organized, OrganizationTypeOK
  <1> QED
    BY <1>1, <1>2, <1>3, <1>4, Placing DEF Organized, FiledInOwnFolder

LEMMA ArchiveOrganized ==
    ASSUME Organized, NEW j \in Jobs, NEW owner \in Owners, NEW archived \in BOOLEAN,
           MayOrganize(j, owner), set_job_archived(j, owner, archived)
    PROVE  Organized'
  <1>1. owner = Submitter[j] /\ folders' = folders
    BY DEF MayOrganize, set_job_archived
  <1>2. placed' = [placed EXCEPT ![j] = [EntryOf(j, owner) EXCEPT !.archived = archived]]
    BY DEF set_job_archived
  <1>3. /\ [EntryOf(j, owner) EXCEPT !.archived = archived] \in Place
        /\ [EntryOf(j, owner) EXCEPT !.archived = archived].owner = owner
        /\ [EntryOf(j, owner) EXCEPT !.archived = archived].folder = EntryOf(j, owner).folder
    BY <1>1, EntryPlaced DEF Place
  <1>4. placed \in [Jobs -> Place \cup {Nothing}]
    BY DEF Organized, OrganizationTypeOK
  <1> QED
    BY <1>1, <1>2, <1>3, <1>4, EntryPlaced, Placing DEF Organized, FiledInOwnFolder

LEMMA RemoveOrganized ==
    ASSUME Organized, NEW gone, remove_jobs(gone)
    PROVE  Organized'
  <1>1. folders' = folders /\ placed' = [j \in Jobs |-> IF j \in gone THEN Nothing ELSE placed[j]]
    BY DEF remove_jobs
  <1>2. placed \in [Jobs -> Place \cup {Nothing}]
    BY DEF Organized, OrganizationTypeOK
  <1> QED
    BY <1>1, <1>2, Placing DEF Organized, FiledInOwnFolder

LEMMA KeepOrganized == Organized /\ UNCHANGED organizationVars => Organized'
  BY DEF organizationVars, Organized, OrganizationTypeOK, FiledInOwnFolder,
         FolderNamesDistinct, Owned

LEMMA NextOrganized == Organized /\ [Next]_vars => Organized'
  <1> SUFFICES ASSUME Organized, [Next]_vars PROVE Organized'
    OBVIOUS
  <1>1. CASE UNCHANGED organizationVars
    BY <1>1, KeepOrganized
  <1>2. CASE Organize
    BY <1>2, KeepOrganized, FolderStepOrganized, MoveOrganized, ArchiveOrganized
       DEF Organize, archive_job, restore_archived_job
  <1>3. CASE DeleteOrganization
    BY <1>3, RemoveOrganized DEF DeleteOrganization
  <1>4. CASE CleanupOrganization
    BY <1>4, RemoveOrganized DEF CleanupOrganization
  <1>5. (\E k \in Keys : Submit(k) \/ Launch(k) \/ LaunchRefused(k) \/ CrashLaunch(k))
            => UNCHANGED organizationVars
    BY DEF Submit, Launch, LaunchRefused, CrashLaunch
  <1>6. (\E j \in Jobs : Take(j) \/ End(j) \/ RequeueRead(j)) \/ RequeueWrite \/ Crash
            => UNCHANGED organizationVars
    BY DEF Take, End, RequeueRead, RequeueWrite, Crash
  <1>7. Delete => DeleteOrganization \/ UNCHANGED organizationVars
    BY DEF Delete, DeleteCheck, DeleteDirectory, DeleteRecord, DeleteEntry
  <1>8. Cleanup => CleanupOrganization \/ UNCHANGED organizationVars
    BY DEF Cleanup, CleanupBegin, CleanupSelect, CleanupDirectory, CleanupRecords,
           CleanupEntries, CleanupProtect, CleanupOrphan, CleanupEnd
  <1> QED
    BY <1>1, <1>2, <1>3, <1>4, <1>5, <1>6, <1>7, <1>8 DEF Next, vars

THEOREM OrganizationKept == Spec => []Organized
  <1>1. Init => Organized
    BY InitOrganized DEF Init
  <1> QED
    BY <1>1, NextOrganized, PTL DEF Spec

\* Whatever the order of moves, archiving, deletions and cleanups, and wherever
\* the server dies, a job is in a folder its owner has, or in none
\* (job_organization_service.py).
THEOREM FilingKept == Spec => []FiledInOwnFolder
  <1>1. Organized => FiledInOwnFolder
    BY DEF Organized
  <1> QED
    BY <1>1, OrganizationKept, PTL

\* No owner ever has two folders of one name (create_folder, rename_folder).
THEOREM NamesKept == Spec => []FolderNamesDistinct
  <1>1. Organized => FolderNamesDistinct
    BY DEF Organized
  <1> QED
    BY <1>1, OrganizationKept, PTL

-----------------------------------------------------------------------------
(* Submissions. *)

\* A request of key k has launched, or a request before it was answered.
Served(k) == submit[k] = "launched" \/ records[k].answered

\* The record of key k names its only job; once it was served the job has been
\* launched whole; launches beyond that are paid for with a death of the server.
KeyInv(k) ==
    /\ records[k] = NoSubmission \/ records[k].job \in Jobs
    /\ submit[k] # "idle" => records[k].job \in Jobs
    /\ launched[k] \subseteq {records[k].job}
    /\ Served(k) => records[k].job \in Jobs /\ registry[records[k].job] # LAUNCHING
    /\ launches[k] <= crashes + (IF Served(k) THEN 1 ELSE 0)

Submitted ==
    /\ SubmissionTypeOK
    /\ crashes \in Nat
    /\ registry \in [Jobs -> Status \cup {Absent}]
    /\ \A k \in Keys : KeyInv(k)
    /\ \A k, l \in Keys : (records[k].job \in Jobs /\ records[k].job = records[l].job) => k = l

LEMMA InitSubmitted == Init => Submitted
  <1> SUFFICES ASSUME Init PROVE Submitted
    OBVIOUS
  <1>1. \A k \in Keys : records[k] = NoSubmission /\ submit[k] = "idle" /\ launched[k] = {}
                        /\ launches[k] = 0
    BY DEF Init, SubmissionInit
  <1>2. NoSubmission.job \notin Jobs /\ ~NoSubmission.answered
    BY AbsentIsNoJob DEF NoSubmission
  <1>3. SubmissionTypeOK
    BY DEF Init, SubmissionInit, SubmissionTypeOK, NoSubmission
  <1>4. \A k \in Keys : KeyInv(k)
    BY <1>1, <1>2 DEF KeyInv, Served, Init
  <1> QED
    BY <1>1, <1>2, <1>3, <1>4 DEF Submitted, Init

\* Steps that leave submissions alone and do not make a job launching.
LEMMA KeepSubmitted ==
    ASSUME Submitted, UNCHANGED submissionVars, crashes' = crashes,
           registry' \in [Jobs -> Status \cup {Absent}],
           \A j \in Jobs : registry'[j] = LAUNCHING => registry[j] = LAUNCHING
    PROVE  Submitted'
  BY DEF submissionVars, Submitted, SubmissionTypeOK, KeyInv, Served

\* What a request of key k changes of the submissions, other than the launch.
LEMMA OneKey ==
    ASSUME Submitted, NEW k \in Keys, UNCHANGED <<registry, crashes, launched, launches>>,
           SubmissionTypeOK',
           \A l \in Keys \ {k} : records'[l] = records[l] /\ submit'[l] = submit[l],
           records'[k].job \in Jobs,
           launched[k] \subseteq {records'[k].job},
           \A l \in Keys \ {k} : records[l].job # records'[k].job,
           Served(k)' => registry[records'[k].job] # LAUNCHING,
           Served(k) => Served(k)'
    PROVE  Submitted'
  <1>1. launches[k] \in Nat /\ crashes \in Nat
    BY DEF Submitted, SubmissionTypeOK
  <1>2. KeyInv(k)'
    BY <1>1 DEF Submitted, KeyInv
  <1>3. \A l \in Keys \ {k} : KeyInv(l)'
    BY DEF Submitted, KeyInv, Served
  <1>4. \A l, n \in Keys :
          (records'[l].job \in Jobs /\ records'[l].job = records'[n].job) => l = n
    BY DEF Submitted
  <1> QED
    BY <1>2, <1>3, <1>4 DEF Submitted

LEMMA RecordSubmitted ==
    ASSUME Submitted, NEW k \in Keys, NEW params \in Params, Record(k, params),
           UNCHANGED <<registry, crashes>>
    PROVE  Submitted'
  <1>1. PICK record \in Intent(k, params) : records' = [records EXCEPT ![k] = record]
    BY DEF Record
  <1>2. /\ submit[k] = "idle" /\ submit' = [submit EXCEPT ![k] = "recorded"]
        /\ UNCHANGED <<launched, launches>>
    BY DEF Record
  <1>3. SubmissionTypeOK /\ KeyInv(k)
    BY DEF Submitted
  <1>4. record \in [params : Params \cup {Absent}, job : Jobs \cup {Absent}, answered : BOOLEAN]
    <2>1. records[k] \in [params : Params \cup {Absent}, job : Jobs \cup {Absent}, answered : BOOLEAN]
      BY <1>3 DEF SubmissionTypeOK
    <2>2. CASE records[k] = NoSubmission
      <3>1. \E job \in Jobs \ Drawn : record = [params |-> params, job |-> job, answered |-> FALSE]
        BY <2>2 DEF Intent, New
      <3> QED
        BY <3>1
    <2>3. CASE records[k] # NoSubmission
      BY <2>1, <2>3 DEF Intent
    <2> QED
      BY <2>2, <2>3
  <1>5. /\ SubmissionTypeOK'
        /\ records'[k] = record /\ submit'[k] = "recorded"
        /\ \A l \in Keys \ {k} : records'[l] = records[l] /\ submit'[l] = submit[l]
    BY <1>1, <1>2, <1>3, <1>4 DEF SubmissionTypeOK
  <1>6. CASE records[k] = NoSubmission
    <2>1. PICK job \in Jobs \ Drawn : record = [params |-> params, job |-> job, answered |-> FALSE]
      BY <1>1, <1>6 DEF Intent, New
    <2>2. launched[k] = {}
      BY <1>3, <1>6, AbsentIsNoJob DEF KeyInv, NoSubmission, SubmissionTypeOK
    <2>3. \A l \in Keys : records[l].job # job
      BY <2>1 DEF Drawn
    <2>4. ~Served(k) /\ ~Served(k)'
      BY <1>2, <1>5, <1>6, <2>1 DEF Served, NoSubmission
    <2> QED
      BY <1>2, <1>5, <2>1, <2>2, <2>3, <2>4, OneKey
  <1>7. CASE records[k] # NoSubmission
    <2>1. record = records[k]
      BY <1>1, <1>7 DEF Intent
    <2>2. records[k].job \in Jobs
      BY <1>3, <1>7 DEF KeyInv
    <2>3. \A l \in Keys \ {k} : records[l].job # records[k].job
      BY <2>2 DEF Submitted
    <2>4. Served(k)' = Served(k)
      BY <1>2, <1>5, <2>1 DEF Served
    <2> QED
      BY <1>2, <1>3, <1>5, <2>1, <2>2, <2>3, <2>4, OneKey DEF KeyInv
  <1> QED
    BY <1>6, <1>7

LEMMA SubmitSubmitted ==
    ASSUME Submitted, NEW k \in Keys, Submit(k)
    PROVE  Submitted'
  <1>1. UNCHANGED <<registry, crashes>>
    BY DEF Submit, stores, bounds
  <1>2. SubmissionTypeOK /\ KeyInv(k)
    BY DEF Submitted
  <1>3. records[k].job \in Jobs => \A l \in Keys \ {k} : records[l].job # records[k].job
    BY DEF Submitted
  <1>4. CASE \E params \in Params : Record(k, params)
    BY <1>1, <1>4, RecordSubmitted
  <1>5. CASE RefuseDeleted(k, Known)
    <2>1. submit[k] = "recorded" /\ records[k].answered /\ records[k].job \in Jobs
      BY <1>2, <1>5 DEF RefuseDeleted, Gone, KeyInv
    <2>2. /\ submit' = [submit EXCEPT ![k] = "idle"]
          /\ UNCHANGED <<records, launched, launches>>
      BY <1>5 DEF RefuseDeleted
    <2>3. SubmissionTypeOK' /\ \A l \in Keys \ {k} : submit'[l] = submit[l]
      BY <1>2, <2>2 DEF SubmissionTypeOK
    <2>4. Served(k) /\ Served(k)'
      BY <2>1, <2>2 DEF Served
    <2> QED
      BY <1>1, <1>2, <1>3, <2>1, <2>2, <2>3, <2>4, OneKey DEF KeyInv
  <1>6. CASE FindLaunched(k, Known, Launching)
    <2>1. records[k].job \in Jobs /\ registry[records[k].job] # LAUNCHING
      BY <1>6 DEF FindLaunched, Known, Launching
    <2>2. /\ submit' = [submit EXCEPT ![k] = "launched"]
          /\ UNCHANGED <<records, launched, launches>>
      BY <1>6 DEF FindLaunched
    <2>3. /\ SubmissionTypeOK' /\ submit'[k] = "launched"
          /\ \A l \in Keys \ {k} : submit'[l] = submit[l]
      BY <1>2, <2>2 DEF SubmissionTypeOK
    <2>4. Served(k)'
      BY <2>3 DEF Served
    <2> QED
      BY <1>1, <1>2, <1>3, <2>1, <2>2, <2>3, <2>4, OneKey DEF KeyInv
  <1>7. CASE Answer(k)
    <2>1. /\ submit[k] = "launched"
          /\ submit' = [submit EXCEPT ![k] = "idle"]
          /\ records' = [records EXCEPT ![k].answered = TRUE]
          /\ UNCHANGED <<launched, launches>>
      BY <1>7 DEF Answer
    <2>2. records[k].job \in Jobs /\ registry[records[k].job] # LAUNCHING
      BY <1>2, <2>1 DEF KeyInv, Served
    <2>3. /\ SubmissionTypeOK'
          /\ records'[k].job = records[k].job /\ records'[k].answered
          /\ \A l \in Keys \ {k} : submit'[l] = submit[l] /\ records'[l] = records[l]
      BY <1>2, <2>1 DEF SubmissionTypeOK
    <2>4. Served(k)'
      BY <2>3 DEF Served
    <2> QED
      BY <1>1, <1>2, <1>3, <2>1, <2>2, <2>3, <2>4, OneKey DEF KeyInv
  <1> QED
    BY <1>4, <1>5, <1>6, <1>7 DEF Submit

\* A request that goes on to launch has not been served, so nobody else's has.
LEMMA Launching1 ==
    ASSUME Submitted, NEW k \in Keys, MayLaunch(k, Known, Launching)
    PROVE  /\ records[k].job \in Jobs
           /\ submit[k] = "recorded"
           /\ ~Served(k)
           /\ \A l \in Keys \ {k} : records[l].job # records[k].job
  <1>1. submit[k] = "recorded" /\ records[k].job \in Jobs
    BY DEF Submitted, KeyInv, MayLaunch
  <1>2. ~records[k].answered
    <2> SUFFICES ASSUME records[k].answered PROVE FALSE
      OBVIOUS
    <2>1. records[k].job \in Known /\ records[k].job \notin Known \ Launching
      BY DEF MayLaunch, Gone
    <2>2. registry[records[k].job] = LAUNCHING
      BY <2>1 DEF Launching
    <2> QED
      BY <2>2 DEF Submitted, KeyInv, Served
  <1> QED
    BY <1>1, <1>2 DEF Served, Submitted

LEMMA LaunchSubmitted ==
    ASSUME Submitted, NEW k \in Keys, Launch(k)
    PROVE  Submitted'
  <1> DEFINE job == records[k].job
  <1>1. MayLaunch(k, Known, Launching)
    BY DEF Launch, LaunchFor
  <1>2. /\ job \in Jobs /\ submit[k] = "recorded" /\ ~Served(k)
        /\ \A l \in Keys \ {k} : records[l].job # job
    BY <1>1, Launching1
  <1>3. /\ submit' = [submit EXCEPT ![k] = "launched"]
        /\ launched' = [launched EXCEPT ![k] = @ \cup {job}]
        /\ launches' = [launches EXCEPT ![k] = @ + 1]
        /\ records' = records
        /\ registry' = [registry EXCEPT ![job] = QUEUED]
        /\ crashes' = crashes
    BY DEF Launch, LaunchFor, SetStatus, bounds
  <1>4. /\ SubmissionTypeOK
        /\ registry \in [Jobs -> Status \cup {Absent}]
        /\ crashes \in Nat
    BY DEF Submitted
  <1>5. registry' \in [Jobs -> Status \cup {Absent}] /\ registry'[job] = QUEUED
        /\ \A j \in Jobs : registry'[j] = LAUNCHING => registry[j] = LAUNCHING
    BY <1>2, <1>3, <1>4 DEF Status, LAUNCHING, QUEUED
  <1>6. /\ submit'[k] = "launched" /\ launched'[k] = launched[k] \cup {job}
        /\ launches'[k] = launches[k] + 1 /\ launches[k] \in Nat
        /\ \A l \in Keys \ {k} : /\ submit'[l] = submit[l] /\ launched'[l] = launched[l]
                                 /\ launches'[l] = launches[l]
    BY <1>3, <1>4 DEF SubmissionTypeOK
  <1>7. SubmissionTypeOK'
    BY <1>2, <1>3, <1>4 DEF SubmissionTypeOK
  <1>8. KeyInv(k)'
    <2>1. launches[k] <= crashes /\ launched[k] \subseteq {job}
      BY <1>2, <1>4, <1>6 DEF Submitted, KeyInv
    <2>2. Served(k)'
      BY <1>6 DEF Served
    <2>3. registry'[job] # LAUNCHING
      BY <1>5 DEF QUEUED, LAUNCHING
    <2> QED
      BY <1>2, <1>3, <1>4, <1>6, <2>1, <2>2, <2>3 DEF KeyInv
  <1>9. \A l \in Keys \ {k} : KeyInv(l)'
    BY <1>3, <1>5, <1>6 DEF Submitted, KeyInv, Served
  <1> QED
    BY <1>3, <1>4, <1>5, <1>7, <1>8, <1>9 DEF Submitted

\* The request of key k, if any, leaves its job launching, and others end.
LEMMA CutShort ==
    ASSUME Submitted, NEW ended \in SUBSET Keys, NEW begun \in SUBSET ended,
           Abandon(ended, begun),
           crashes' \in Nat, crashes' >= crashes,
           begun # ended => crashes' = crashes + 1,
           \A k \in begun : MayLaunch(k, Known, Launching),
           registry' \in [Jobs -> Status \cup {Absent}],
           \A j \in Jobs : registry'[j] = LAUNCHING =>
               registry[j] = LAUNCHING \/ \E k \in begun : j = records[k].job
    PROVE  Submitted'
  <1>1. /\ submit' = [k \in Keys |-> IF k \in ended THEN "idle" ELSE submit[k]]
        /\ launched' = [k \in Keys |-> IF k \in begun THEN launched[k] \cup {records[k].job}
                                       ELSE launched[k]]
        /\ records' = records /\ launches' = launches
    BY DEF Abandon
  <1>2. \A k \in begun : /\ records[k].job \in Jobs
                         /\ ~Served(k)
                         /\ \A l \in Keys \ {k} : records[l].job # records[k].job
    BY Launching1
  <1>3. SubmissionTypeOK'
    BY <1>1, <1>2 DEF Submitted, SubmissionTypeOK
  <1>4. ASSUME NEW k \in Keys PROVE KeyInv(k)'
    <2>1. KeyInv(k) /\ launches[k] \in Nat /\ crashes \in Nat
      BY DEF Submitted, SubmissionTypeOK
    <2>2. Served(k)' => Served(k)
      BY <1>1 DEF Served
    <2>3. Served(k)' => registry'[records[k].job] # LAUNCHING
      BY <1>2, <2>1, <2>2 DEF KeyInv
    <2>4. launches[k] <= crashes' + (IF Served(k)' THEN 1 ELSE 0)
      <3>1. CASE k \in begun
        BY <1>2, <2>1, <3>1 DEF KeyInv
      <3>2. CASE k \notin ended
        <4>1. Served(k)' = Served(k)
          BY <1>1, <3>2 DEF Served
        <4> QED
          BY <2>1, <4>1 DEF KeyInv
      <3>3. CASE k \in ended \ begun
        BY <2>1, <3>3 DEF KeyInv
      <3> QED
        BY <3>1, <3>2, <3>3
    <2>5. launched'[k] \subseteq {records[k].job}
      BY <1>1, <2>1 DEF KeyInv
    <2> QED
      BY <1>1, <2>1, <2>2, <2>3, <2>4, <2>5 DEF KeyInv
  <1> QED
    BY <1>1, <1>3, <1>4 DEF Submitted

LEMMA NextSubmitted == Submitted /\ [Next]_vars => Submitted'
  <1> SUFFICES ASSUME Submitted, [Next]_vars PROVE Submitted'
    OBVIOUS
  <1>1. registry \in [Jobs -> Status \cup {Absent}] /\ crashes \in Nat
    BY DEF Submitted
  <1>2. CASE UNCHANGED <<submissionVars, registry, crashes>>
    BY <1>1, <1>2, KeepSubmitted
  <1>3. CASE \E k \in Keys : Submit(k)
    BY <1>3, SubmitSubmitted
  <1>4. CASE \E k \in Keys : Launch(k)
    BY <1>4, LaunchSubmitted
  <1>5. ASSUME NEW k \in Keys, LaunchRefused(k) PROVE Submitted'
    <2>1. /\ Abandon({k}, {k}) /\ MayLaunch(k, Known, Launching)
          /\ registry' = [registry EXCEPT ![records[k].job] = LAUNCHING]
          /\ crashes' = crashes
      BY <1>5 DEF LaunchRefused, bounds
    <2>2. /\ registry' \in [Jobs -> Status \cup {Absent}]
          /\ \A j \in Jobs \ {records[k].job} : registry'[j] = registry[j]
      BY <1>1, <2>1 DEF Status
    <2> QED
      BY <1>1, <2>1, <2>2, CutShort
  <1>6. ASSUME NEW k \in Keys, CrashLaunch(k) PROVE Submitted'
    <2>1. /\ Abandon(Keys, {k}) /\ MayLaunch(k, Known, Launching)
          /\ registry' = [registry EXCEPT ![records[k].job] = LAUNCHING]
          /\ crashes' = crashes + 1
      BY <1>6 DEF CrashLaunch, Restart
    <2>2. /\ registry' \in [Jobs -> Status \cup {Absent}]
          /\ \A j \in Jobs \ {records[k].job} : registry'[j] = registry[j]
      BY <1>1, <2>1 DEF Status
    <2> QED
      BY <1>1, <2>1, <2>2, CutShort
  <1>7. CASE Crash
    <2>1. Abandon(Keys, {}) /\ registry' = registry /\ crashes' = crashes + 1
      BY <1>7 DEF Crash, Restart, stores
    <2> QED
      BY <1>1, <2>1, CutShort
  <1>8. ASSUME NEW j \in Jobs, Take(j) \/ End(j) PROVE Submitted'
    <2>1. UNCHANGED <<submissionVars, crashes>>
      BY <1>8 DEF Take, End, bounds
    <2>2. registry' \in {registry, [registry EXCEPT ![j] = DISPATCHED],
                         [registry EXCEPT ![j] = FINISHED]}
      BY <1>8 DEF Take, End, SetStatus
    <2>3. /\ registry' \in [Jobs -> Status \cup {Absent}]
          /\ \A i \in Jobs : registry'[i] = LAUNCHING => registry[i] = LAUNCHING
      BY <1>1, <2>2 DEF Status, LAUNCHING, DISPATCHED, FINISHED
    <2> QED
      BY <2>1, <2>3, KeepSubmitted
  <1>9. CASE RequeueWrite
    <2>1. UNCHANGED <<submissionVars, crashes>> /\ registry' = [registry EXCEPT ![requeue] = QUEUED]
      BY <1>9 DEF RequeueWrite, SetStatus, bounds
    <2>2. /\ registry' \in [Jobs -> Status \cup {Absent}]
          /\ \A i \in Jobs : registry'[i] = LAUNCHING => registry[i] = LAUNCHING
      BY <1>1, <2>1 DEF Status, LAUNCHING, QUEUED
    <2> QED
      BY <2>1, <2>2, KeepSubmitted
  <1>10. CASE DeleteRecord
    <2>1. /\ UNCHANGED <<submissionVars, crashes>>
          /\ registry' = [registry EXCEPT ![deletion.job] = Absent]
      BY <1>10 DEF DeleteRecord, bounds
    <2>2. /\ registry' \in [Jobs -> Status \cup {Absent}]
          /\ \A i \in Jobs : registry'[i] = LAUNCHING => registry[i] = LAUNCHING
      BY <1>1, <2>1 DEF Status, LAUNCHING, Absent
    <2> QED
      BY <2>1, <2>2, KeepSubmitted
  <1>11. CASE CleanupRecords
    <2>1. /\ UNCHANGED <<submissionVars, crashes>>
          /\ registry' = [j \in Jobs |-> IF j \in cleaner.keep THEN registry[j] ELSE Absent]
      BY <1>11 DEF CleanupRecords, bounds
    <2>2. /\ registry' \in [Jobs -> Status \cup {Absent}]
          /\ \A i \in Jobs : registry'[i] = LAUNCHING => registry[i] = LAUNCHING
      BY <1>1, <2>1 DEF Status, LAUNCHING, Absent
    <2> QED
      BY <2>1, <2>2, KeepSubmitted
  <1>12. (\E j \in Jobs : RequeueRead(j)) => UNCHANGED <<submissionVars, registry, crashes>>
    BY DEF RequeueRead, stores
  <1>13. Organize => UNCHANGED <<submissionVars, registry, crashes>>
    BY DEF Organize, move_job_to_folder, archive_job, restore_archived_job, stores, bounds
  <1>14. Delete => DeleteRecord \/ UNCHANGED <<submissionVars, registry, crashes>>
    BY DEF Delete, DeleteCheck, DeleteDirectory, DeleteEntry, DeleteOrganization, stores, bounds
  <1>15. Cleanup => CleanupRecords \/ UNCHANGED <<submissionVars, registry, crashes>>
    BY DEF Cleanup, CleanupBegin, CleanupSelect, CleanupDirectory, CleanupEntries,
           CleanupOrganization, CleanupProtect, CleanupOrphan, CleanupEnd, stores, bounds
  <1>16. UNCHANGED vars => UNCHANGED <<submissionVars, registry, crashes>>
    BY DEF vars, stores, bounds
  <1> QED
    BY <1>2, <1>3, <1>4, <1>5, <1>6, <1>7, <1>8, <1>9, <1>10, <1>11, <1>12, <1>13, <1>14,
       <1>15, <1>16 DEF Next

THEOREM SubmissionsKept == Spec => []Submitted
  <1> QED
    BY InitSubmitted, NextSubmitted, PTL DEF Spec

\* However often a key is retried and wherever the server dies, it never launches
\* two jobs (launch_simulation, submission_store.py).
THEOREM OneJobEach == Spec => []OneJobPerKey
  <1>1. Submitted => OneJobPerKey
    BY DEF Submitted, KeyInv, OneJobPerKey
  <1> QED
    BY <1>1, SubmissionsKept, PTL

\* A key launches its job once, and once more at most for each death of the server.
THEOREM RerunsPaid == Spec => []RetriesDoNotRerun
  <1>1. Submitted => RetriesDoNotRerun
    <2> SUFFICES ASSUME Submitted, NEW k \in Keys PROVE launches[k] <= 1 + crashes
      BY DEF RetriesDoNotRerun
    <2>1. KeyInv(k) /\ launches[k] \in Nat /\ crashes \in Nat
      BY DEF Submitted, SubmissionTypeOK
    <2> QED
      BY <2>1 DEF KeyInv
  <1> QED
    BY <1>1, SubmissionsKept, PTL

-----------------------------------------------------------------------------
(* The cleanup. *)

Phases == {"idle", "select", "directories", "entries", "organization", "protect", "orphans"}
Cleanups == [pc : Phases, keep : SUBSET Jobs, removed : SUBSET Jobs, todo : SUBSET Jobs]

\* A cleanup keeps what was archived before it began, and what it is about to
\* remove is not among what it keeps.
Spares(c, safe) ==
    /\ c \in Cleanups
    /\ safe \subseteq Jobs
    /\ c.pc = "idle" => safe = {}
    /\ safe \subseteq c.keep \/ c.pc = "idle"
    /\ c.todo \cap c.keep = {} \/ c.pc \notin {"directories", "orphans"}

Cleaned == Spares(cleaner, settled)

LEMMA NoCleanupSpares == Spares(NoCleanup, {})
  BY DEF Spares, NoCleanup, Cleanups, Phases

LEMMA NextCleaned == Cleaned /\ [Next]_vars => Cleaned'
  <1> SUFFICES ASSUME Cleaned, [Next]_vars PROVE Cleaned'
    OBVIOUS
  <1>0. cleaner \in Cleanups /\ Spares(cleaner, settled) /\ settled \subseteq Jobs
    BY DEF Cleaned, Spares
  <1>1. CASE cleaner' = cleaner /\ settled' \subseteq settled
    BY <1>0, <1>1 DEF Cleaned, Spares
  <1>2. CASE CleanupBegin
    <2>1. cleaner' = [pc |-> "select", keep |-> Kept, removed |-> {}, todo |-> {}]
      BY <1>2 DEF CleanupBegin, NoCleanup
    <2>2. settled' = archived_job_ids
      BY <1>2 DEF CleanupBegin
    <2>3. Kept \subseteq Jobs /\ archived_job_ids \subseteq Kept /\ archived_job_ids \subseteq Jobs
      BY RetentionConstants DEF Kept, archived_job_ids
    <2> HIDE DEF Kept, archived_job_ids
    <2>4. cleaner' \in Cleanups
      BY <2>1, <2>3 DEF Cleanups, Phases
    <2> QED
      BY <2>1, <2>2, <2>3, <2>4 DEF Cleaned, Spares
  <1>3. CASE CleanupSelect
    <2> DEFINE keep == cleaner.keep \cup {j \in Known : StatusNow(j) \in Active}
               pc == IF Known \ keep = {} THEN "protect" ELSE "directories"
    <2>1. /\ cleaner.pc = "select" /\ settled' = settled
          /\ cleaner' = [pc |-> pc, keep |-> keep, removed |-> Known \ keep, todo |-> Known \ keep]
      BY <1>3 DEF CleanupSelect
    <2>2. cleaner.keep \in SUBSET Jobs
      BY <1>0 DEF Cleanups
    <2>3. cleaner.keep \subseteq keep /\ keep \in SUBSET Jobs /\ Known \ keep \in SUBSET Jobs
      BY <2>2 DEF Known
    <2>4. pc \in Phases /\ pc # "idle"
      BY DEF Phases
    <2>5. settled \subseteq cleaner.keep
      BY <1>0, <2>1 DEF Spares
    <2>6. (Known \ keep) \cap keep = {}
      OBVIOUS
    <2> HIDE DEF keep, pc
    <2>7. cleaner' \in Cleanups
      BY <2>1, <2>3, <2>4 DEF Cleanups
    <2> QED
      BY <1>0, <2>1, <2>3, <2>4, <2>5, <2>6, <2>7 DEF Cleaned, Spares
  <1>4. ASSUME NEW j \in Jobs, CleanupDirectory(j) \/ CleanupOrphan(j)
        PROVE  Cleaned'
    <2>1. /\ cleaner.pc \in {"directories", "orphans"} /\ settled' = settled
          /\ cleaner' = [cleaner EXCEPT !.todo = @ \ {j}]
      BY <1>4 DEF CleanupDirectory, CleanupOrphan
    <2> QED
      BY <1>0, <2>1 DEF Cleaned, Spares, Cleanups
  <1>5. CASE CleanupRecords \/ CleanupEntries \/ CleanupOrganization
    <2>1. PICK pc \in {"entries", "organization", "protect"} :
            cleaner' = [cleaner EXCEPT !.pc = pc]
      BY <1>5 DEF CleanupRecords, CleanupEntries, CleanupOrganization
    <2>2. cleaner.pc # "idle" /\ settled' = settled
      BY <1>5 DEF CleanupRecords, CleanupEntries, CleanupOrganization
    <2> QED
      BY <1>0, <2>1, <2>2 DEF Cleaned, Spares, Cleanups, Phases
  <1>6. CASE CleanupProtect
    <2> DEFINE todo == Jobs \ (Known \cup cleaner.keep)
    <2>1. /\ cleaner.pc = "protect" /\ settled' = settled
          /\ cleaner' = [cleaner EXCEPT !.pc = "orphans", !.todo = todo]
      BY <1>6 DEF CleanupProtect
    <2>2. todo \in SUBSET Jobs /\ todo \cap cleaner.keep = {}
      OBVIOUS
    <2> HIDE DEF todo
    <2> QED
      BY <1>0, <2>1, <2>2 DEF Cleaned, Spares, Cleanups, Phases
  <1>7. CASE cleaner' = NoCleanup /\ settled' = {}
    BY <1>7, NoCleanupSpares DEF Cleaned
  <1>8. Cleanup => \/ CleanupBegin \/ CleanupSelect \/ CleanupProtect
                   \/ CleanupRecords \/ CleanupEntries \/ CleanupOrganization
                   \/ \E j \in Jobs : CleanupDirectory(j) \/ CleanupOrphan(j)
                   \/ cleaner' = NoCleanup /\ settled' = {}
    BY DEF Cleanup, CleanupEnd
  <1>9. (\E k \in Keys : Submit(k) \/ Launch(k) \/ LaunchRefused(k))
            => UNCHANGED <<cleaner, settled>>
    BY DEF Submit, Launch, LaunchRefused, requests
  <1>10. (\E k \in Keys : CrashLaunch(k)) \/ Crash => cleaner' = NoCleanup /\ settled' = {}
    BY DEF CrashLaunch, Crash, Restart
  <1>11. (\E j \in Jobs : Take(j) \/ End(j) \/ RequeueRead(j)) \/ RequeueWrite
            => UNCHANGED <<cleaner, settled>>
    BY DEF Take, End, RequeueRead, RequeueWrite, requests
  <1>12. Delete => cleaner' = cleaner /\ settled' \subseteq settled
    BY DEF Delete, DeleteCheck, DeleteDirectory, DeleteRecord, DeleteEntry, DeleteOrganization
  <1>13. Organize => cleaner' = cleaner /\ settled' \subseteq settled
    BY DEF Organize, move_job_to_folder, archive_job, restore_archived_job, requests
  <1>14. UNCHANGED vars => UNCHANGED <<cleaner, settled>>
    BY DEF vars, requests
  <1> QED
    BY <1>1, <1>2, <1>3, <1>4, <1>5, <1>6, <1>7, <1>8, <1>9, <1>10, <1>11, <1>12, <1>13,
       <1>14 DEF Next

\* What a job has stored, as functions: every step changes them job by job.
Stored ==
    /\ registry \in [Jobs -> Status \cup {Absent}]
    /\ statusFile \in [Jobs -> Status \cup {Absent}]

LEMMA StatusSet ==
    ASSUME Stored, NEW j, NEW s \in Status, SetStatus(j, s)
    PROVE  Stored'
  BY DEF Stored, SetStatus

LEMMA NextStored == Stored /\ [Next]_vars => Stored'
  <1> SUFFICES ASSUME Stored, [Next]_vars PROVE Stored'
    OBVIOUS
  <1>1. CASE UNCHANGED <<registry, statusFile>>
    BY <1>1 DEF Stored
  <1>2. {QUEUED, LAUNCHING, DISPATCHED, FINISHED} \subseteq Status
    BY DEF Status
  <1>3. ASSUME NEW k \in Keys, Submit(k) \/ Launch(k) \/ LaunchRefused(k) \/ CrashLaunch(k)
        PROVE  Stored'
    <2>1. CASE Submit(k)
      BY <1>1, <2>1 DEF Submit, stores
    <2>2. CASE Launch(k)
      BY <1>2, <2>2, StatusSet DEF Launch
    <2>3. CASE LaunchRefused(k)
      BY <1>2, <2>3 DEF LaunchRefused, Stored
    <2>4. CASE CrashLaunch(k)
      BY <1>2, <2>4 DEF CrashLaunch, Stored
    <2> QED
      BY <1>3, <2>1, <2>2, <2>3, <2>4
  <1>4. ASSUME NEW j \in Jobs, Take(j) \/ End(j) \/ RequeueRead(j) PROVE Stored'
    <2>1. \/ UNCHANGED <<registry, statusFile>>
          \/ SetStatus(j, DISPATCHED) \/ SetStatus(j, FINISHED)
      BY <1>4 DEF Take, End, RequeueRead, stores
    <2> QED
      BY <1>1, <1>2, <2>1, StatusSet
  <1>5. CASE RequeueWrite
    BY <1>2, <1>5, StatusSet DEF RequeueWrite
  <1>6. CASE Delete
    <2>1. \/ UNCHANGED <<registry, statusFile>>
          \/ registry' = registry /\ statusFile' = [statusFile EXCEPT ![deletion.job] = Absent]
          \/ statusFile' = statusFile /\ registry' = [registry EXCEPT ![deletion.job] = Absent]
      BY <1>6 DEF Delete, DeleteCheck, DeleteDirectory, DeleteRecord, DeleteEntry,
                  DeleteOrganization, stores
    <2> QED
      BY <2>1 DEF Stored
  <1>7. CASE Cleanup
    <2>1. CASE CleanupRecords
      BY <2>1 DEF CleanupRecords, Stored
    <2>2. CASE \E j \in Jobs : CleanupDirectory(j) \/ CleanupOrphan(j)
      <3>1. PICK j \in Jobs : /\ registry' = registry
                              /\ statusFile' \in {statusFile, [statusFile EXCEPT ![j] = Absent]}
        BY <2>2 DEF CleanupDirectory, CleanupOrphan
      <3> QED
        BY <3>1 DEF Stored
    <2>3. Cleanup => \/ CleanupRecords \/ \E j \in Jobs : CleanupDirectory(j) \/ CleanupOrphan(j)
                     \/ UNCHANGED <<registry, statusFile>>
      BY DEF Cleanup, CleanupBegin, CleanupSelect, CleanupEntries, CleanupOrganization,
             CleanupProtect, CleanupEnd, stores
    <2> QED
      BY <1>1, <1>7, <2>1, <2>2, <2>3
  <1>8. Organize \/ Crash \/ UNCHANGED vars => UNCHANGED <<registry, statusFile>>
    BY DEF Organize, move_job_to_folder, archive_job, restore_archived_job, Crash, vars, stores
  <1> QED
    BY <1>1, <1>3, <1>4, <1>5, <1>6, <1>7, <1>8 DEF Next

THEOREM CleanupsKept == Spec => [](Cleaned /\ Stored)
  <1>1. Init => Cleaned /\ Stored
    BY NoCleanupSpares DEF Init, Cleaned, Stored
  <1> QED
    BY <1>1, NextCleaned, NextStored, PTL DEF Spec

\* No step of a cleanup touches a job that was archived when it began.
LEMMA CleanupSpares ==
    ASSUME Cleaned, Stored, Cleanup, NEW j \in settled \cap settled'
    PROVE  registry'[j] = registry[j] /\ statusFile'[j] = statusFile[j]
  <1>1. j \in Jobs /\ (cleaner.pc # "idle" => j \in cleaner.keep)
    BY DEF Cleaned, Spares
  <1>2. CASE UNCHANGED <<registry, statusFile>>
    BY <1>2
  <1>3. ASSUME NEW i \in Jobs, CleanupDirectory(i) \/ CleanupOrphan(i)
        PROVE  registry'[j] = registry[j] /\ statusFile'[j] = statusFile[j]
    <2>1. /\ cleaner.pc \in {"directories", "orphans"} /\ i \in cleaner.todo
          /\ registry' = registry
          /\ statusFile' \in {statusFile, [statusFile EXCEPT ![i] = Absent]}
      BY <1>3 DEF CleanupDirectory, CleanupOrphan
    <2>2. i # j
      BY <1>1, <2>1 DEF Cleaned, Spares
    <2> QED
      BY <1>1, <2>1, <2>2 DEF Stored
  <1>4. CASE CleanupRecords
    BY <1>1, <1>4 DEF CleanupRecords
  <1> QED
    BY <1>2, <1>3, <1>4 DEF Cleanup, CleanupBegin, CleanupSelect, CleanupEntries,
       CleanupOrganization, CleanupProtect, CleanupEnd, stores

\* A job that was archived before a cleanup began and stays so loses neither its
\* record nor its directory to it, whatever else happens (ops_cleanup_jobs).
THEOREM ArchivedKept == Spec => ArchivedSurviveCleanup
  <1>1. ASSUME Cleaned, Stored, [Next]_vars
        PROVE  cleaner' # cleaner => \A j \in settled \cap settled' :
                   registry'[j] = registry[j] /\ statusFile'[j] = statusFile[j]
    <2>1. CASE Cleanup
      BY <1>1, <2>1, CleanupSpares
    <2>2. CASE settled' = {}
      BY <2>2
    <2>3. CASE cleaner' = cleaner
      BY <2>3
    <2>4. (\E k \in Keys : Submit(k) \/ Launch(k) \/ LaunchRefused(k)) => cleaner' = cleaner
      BY DEF Submit, Launch, LaunchRefused, requests
    <2>5. (\E k \in Keys : CrashLaunch(k)) \/ Crash => settled' = {}
      BY DEF CrashLaunch, Crash, Restart
    <2>6. (\E j \in Jobs : Take(j) \/ End(j) \/ RequeueRead(j)) \/ RequeueWrite \/ Delete
            => cleaner' = cleaner
      BY DEF Take, End, RequeueRead, RequeueWrite, Delete, DeleteCheck, DeleteDirectory,
             DeleteRecord, DeleteEntry, DeleteOrganization, requests
    <2>7. Organize \/ UNCHANGED vars => cleaner' = cleaner
      BY DEF Organize, move_job_to_folder, archive_job, restore_archived_job, vars, requests
    <2> QED
      BY <1>1, <2>1, <2>2, <2>3, <2>4, <2>5, <2>6, <2>7 DEF Next
  <1> QED
    BY <1>1, CleanupsKept, PTL DEF ArchivedSurviveCleanup, Spec

-----------------------------------------------------------------------------
(* The types, from the shapes of the parts.                                 *)

\* Entries are of jobs, and what an operator requeues is one.
Offered == waiting \subseteq Jobs /\ requeue \in Jobs \cup {Nothing}

LEMMA NextOffered == Submitted /\ Offered /\ [Next]_vars => Offered'
  <1> SUFFICES ASSUME Submitted, Offered, [Next]_vars PROVE Offered'
    OBVIOUS
  <1>1. CASE waiting' \subseteq waiting /\ requeue' \in {requeue, Nothing}
    BY <1>1 DEF Offered
  <1>2. ASSUME NEW k \in Keys, Launch(k) PROVE Offered'
    <2>1. records[k].job \in Jobs
      BY <1>2, Launching1 DEF Launch, LaunchFor
    <2> QED
      BY <1>2, <2>1 DEF Launch, requests, Offered
  <1>3. ASSUME NEW k \in Keys, Submit(k) \/ LaunchRefused(k) \/ CrashLaunch(k)
        PROVE  waiting' \subseteq waiting /\ requeue' \in {requeue, Nothing}
    BY <1>3 DEF Submit, LaunchRefused, CrashLaunch, Restart, stores, requests
  <1>4. ASSUME NEW j \in Jobs, Take(j) \/ End(j)
        PROVE  waiting' \subseteq waiting /\ requeue' \in {requeue, Nothing}
    BY <1>4 DEF Take, End, requests
  <1>5. ASSUME NEW j \in Jobs, RequeueRead(j) PROVE Offered'
    BY <1>5 DEF RequeueRead, stores, Offered
  <1>6. CASE RequeueWrite
    BY <1>6 DEF RequeueWrite, Offered
  <1>7. Delete => waiting' \subseteq waiting /\ requeue' \in {requeue, Nothing}
    BY DEF Delete, DeleteCheck, DeleteDirectory, DeleteRecord, DeleteEntry, DeleteOrganization, stores
  <1>8. Cleanup => waiting' \subseteq waiting /\ requeue' \in {requeue, Nothing}
    BY DEF Cleanup, CleanupBegin, CleanupSelect, CleanupDirectory, CleanupRecords, CleanupEntries,
           CleanupOrganization, CleanupProtect, CleanupOrphan, CleanupEnd, stores
  <1>9. Organize \/ Crash \/ UNCHANGED vars => waiting' \subseteq waiting /\ requeue' \in {requeue, Nothing}
    BY DEF Organize, move_job_to_folder, archive_job, restore_archived_job, Crash, Restart, vars,
           stores, requests
  <1> QED
    BY <1>1, <1>2, <1>3, <1>4, <1>5, <1>6, <1>7, <1>8, <1>9 DEF Next

\* Records, submissions, folders, entries and the requests in progress keep their shapes,
\* also after a submission, a deletion or a cleanup stopped half way: what is read back
\* and worked on is always a job.
THEOREM RetentionTypes == Spec => []RetentionTypeOK
  <1>1. Init => Offered
    BY DEF Init, Offered
  <1>2. Organized /\ Submitted /\ Stored /\ Offered => RetentionTypeOK
    BY DEF RetentionTypeOK, Organized, Submitted, Stored, Offered
  <1>3. Spec => []Stored
    BY CleanupsKept, PTL
  <1> QED
    BY <1>1, <1>2, <1>3, OrganizationKept, SubmissionsKept, NextOffered, PTL DEF Spec
=============================================================================

---------------------------- MODULE Organization ----------------------------
(***************************************************************************)
(* Personal folders and the archive flag of jobs                           *)
(* (app/services/job_organization_service.py).  Every operation reads,     *)
(* changes and writes the whole store under an exclusive lock              *)
(* (_locked_store, or a row lock with SQL), so each is one action.         *)
(***************************************************************************)
EXTENDS JobIds

CONSTANTS
    Owners,    \* normalized owners
    Folders,   \* folder identifiers; each is created at most once (uuid4)
    Names,     \* folder names, case folded
    Nothing    \* no folder, no entry

ASSUME NothingIsNothing == Nothing \notin Folders /\ Nothing \notin Owners

VARIABLES
    folders,   \* store["folders"], and which identifiers were ever used
    placed     \* store["jobs"]: owner, folder and archive flag of a job

organizationVars == <<folders, placed>>

Unused == [state |-> "unused", owner |-> Nothing, name |-> Nothing]
Place == [owner : Owners, folder : Folders \cup {Nothing}, archived : BOOLEAN]

OrganizationInit ==
    /\ folders = [f \in Folders |-> Unused]
    /\ placed = [j \in Jobs |-> Nothing]

\* The folders of owner.
Owned(owner) == {f \in Folders : folders[f].state = "present" /\ folders[f].owner = owner}

NameTaken(owner, name, others) == \E f \in others : folders[f].name = name

create_folder(owner, name) ==
    /\ ~NameTaken(owner, name, Owned(owner))
    /\ \E f \in Folders :
         /\ folders[f] = Unused
         /\ folders' = [folders EXCEPT ![f] = [state |-> "present", owner |-> owner, name |-> name]]
    /\ UNCHANGED placed

\* Mutant: only the names of new folders are compared.
rename_unchecked(f, owner, name) ==
    /\ f \in Owned(owner)
    /\ folders' = [folders EXCEPT ![f].name = name]
    /\ UNCHANGED placed

rename_folder(f, owner, name) ==
    /\ f \in Owned(owner)
    /\ ~NameTaken(owner, name, Owned(owner) \ {f})
    /\ folders' = [folders EXCEPT ![f].name = name]
    /\ UNCHANGED placed

\* Mutant: the jobs of a deleted folder are found when they are listed.
EmptiedLazily(p, owner, f) == p

\* The entry p of a job after owner deleted folder f.
Emptied(p, owner, f) ==
    IF p # Nothing /\ p.owner = owner /\ p.folder = f THEN [p EXCEPT !.folder = Nothing] ELSE p

delete_folder(f, owner) ==
    /\ f \in Owned(owner)
    /\ folders' = [folders EXCEPT ![f].state = "deleted"]
    /\ placed' = [j \in Jobs |-> Emptied(placed[j], owner, f)]

\* Mutant: an entry is made without its owner.
EntryOwnerless(j, owner) ==
    IF placed[j] = Nothing THEN [owner |-> Nothing, folder |-> Nothing, archived |-> FALSE]
    ELSE placed[j]

\* A job without an entry gets one (setdefault).
EntryOf(j, owner) ==
    IF placed[j] = Nothing THEN [owner |-> owner, folder |-> Nothing, archived |-> FALSE]
    ELSE [placed[j] EXCEPT !.owner = owner]

set_job_folder(j, owner, f) ==
    /\ f \in Owned(owner) \cup {Nothing}
    /\ placed' = [placed EXCEPT ![j] = [EntryOf(j, owner) EXCEPT !.folder = f]]
    /\ UNCHANGED folders

set_job_archived(j, owner, archived) ==
    /\ placed' = [placed EXCEPT ![j] = [EntryOf(j, owner) EXCEPT !.archived = archived]]
    /\ UNCHANGED folders

remove_jobs(gone) ==
    /\ placed' = [j \in Jobs |-> IF j \in gone THEN Nothing ELSE placed[j]]
    /\ UNCHANGED folders

archived_job_ids == {j \in Jobs : placed[j] # Nothing /\ placed[j].archived}

FolderStep ==
    \/ \E owner \in Owners, name \in Names : create_folder(owner, name)
    \/ \E f \in Folders, owner \in Owners :
         delete_folder(f, owner) \/ \E name \in Names : rename_folder(f, owner, name)

-----------------------------------------------------------------------------
(* Correctness. *)

\* Folders and entries keep their shapes.
OrganizationTypeOK ==
    /\ folders \in [Folders -> [state : {"unused", "present", "deleted"},
                                owner : Owners \cup {Nothing}, name : Names \cup {Nothing}]]
    /\ placed \in [Jobs -> Place \cup {Nothing}]

\* A job is never filed in a folder that was deleted or is somebody else's,
\* whatever the order of moves, archiving and folder deletions.
FiledInOwnFolder ==
    \A j \in Jobs : (placed[j] # Nothing /\ placed[j].folder # Nothing)
        => placed[j].folder \in Owned(placed[j].owner)

\* The names of an owner's folders stay distinct through renames and deletions.
FolderNamesDistinct ==
    \A owner \in Owners : \A f, g \in Owned(owner) :
        folders[f].name = folders[g].name => f = g
=============================================================================

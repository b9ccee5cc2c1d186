---------------------------- MODULE InputRegistry ----------------------------
(***************************************************************************)
(* Immutable execution inputs (app/services/execution_inputs.py): a client *)
(* registers a directory of its shared root by its digest; the directory   *)
(* is read, copied and compared, and the copy is renamed to a name made of *)
(* the client and the digest.  The shared root belongs to others: it may   *)
(* change while it is read, so every file is read by an action.  A digest  *)
(* stands for the content it is the digest of.                             *)
(***************************************************************************)

CONSTANTS
    Clients,   \* principals, each with an input_root
    Requests,  \* registrations that may be in progress
    Files,     \* the files of a directory
    Values,    \* what a file may hold
    Missing    \* no such directory

Tree == [Files -> Values]

ASSUME MissingIsNoTree == Missing \notin Tree

VARIABLES
    source,    \* the directory in the root of each client
    datasets,  \* DATASETS_DIR: client and digest -> content
    request    \* where each registration is

vars == <<source, datasets, request>>

\* inventory of a directory of which some files were read.
Partial == UNION {[read -> Values] : read \in SUBSET Files}

Nobody == [pc |-> "idle"]
Registration == [pc : {"reading", "copying", "publishing", "verifying"},
                 client : Clients, digest : Tree, read : Partial]

Step(r, pc, read) == request' = [request EXCEPT ![r].pc = pc, ![r].read = read]
Refuse(r) == request' = [request EXCEPT ![r] = Nobody]

NothingRead == [f \in {} |-> Missing]

\* input_name: the lock of a registration is that of its name.
SameName(q, r) ==
    /\ request[q] # Nobody
    /\ request[q].client = r.client
    /\ request[q].digest = r.digest

-----------------------------------------------------------------------------
\* Mutant: registrations are locked by their number.
LockedByNobody(client, digest) == FALSE

\* submission_store.locked('input-' + name).
Locked(client, digest) ==
    \E q \in Requests : SameName(q, [client |-> client, digest |-> digest])

\* register takes the lock; a directory that exists is not copied again.
Register(r, client, digest) ==
    /\ request[r] = Nobody
    /\ ~Locked(client, digest)
    /\ request' = [request EXCEPT ![r] =
         [pc |-> IF datasets[client][digest] = Missing THEN "reading" ELSE "verifying",
          client |-> client, digest |-> digest, read |-> NothingRead]]
    /\ UNCHANGED <<source, datasets>>

\* inventory, or copytree, reads the next file.
ReadFile(r, f) ==
    LET from == source[request[r].client]
        read == request[r].read
    IN
    /\ request[r].pc \in {"reading", "copying"}
    /\ f \notin DOMAIN read
    /\ from # Missing
    /\ Step(r, request[r].pc, [g \in DOMAIN read \cup {f} |-> IF g = f THEN from[f] ELSE read[g]])
    /\ UNCHANGED <<source, datasets>>

\* "Input directory unavailable", or an error while it is copied.
Unavailable(r) ==
    /\ request[r].pc \in {"reading", "copying"}
    /\ source[request[r].client] = Missing
    /\ Refuse(r)
    /\ UNCHANGED <<source, datasets>>

Matches(r) == request[r].read = request[r].digest

\* The digest of what was read is compared before anything is copied.
Compare(r) ==
    /\ request[r].pc = "reading"
    /\ DOMAIN request[r].read = Files
    /\ IF Matches(r) THEN Step(r, "copying", NothingRead) ELSE Refuse(r)
    /\ UNCHANGED <<source, datasets>>

\* Mutant: the first comparison is taken to be enough.
ComparedAlready(r) == TRUE

\* The digest of the copy, taken again.
CopyMatches(r) == Matches(r)

\* "Input changed during materialization": the copy is compared once more.
CompareCopy(r) ==
    /\ request[r].pc = "copying"
    /\ \/ /\ CopyMatches(r)
          /\ Step(r, "publishing", request[r].read)
       \/ /\ DOMAIN request[r].read = Files
          /\ ~CopyMatches(r)
          /\ Refuse(r)
    /\ UNCHANGED <<source, datasets>>

\* The copy gets its name (os.rename).
Publish(r) ==
    /\ request[r].pc = "publishing"
    /\ datasets' = [datasets EXCEPT ![request[r].client][request[r].digest] = request[r].read]
    /\ Step(r, "verifying", NothingRead)
    /\ UNCHANGED source

\* verify, and the answer or the refusal.
Verify(r) ==
    /\ request[r].pc = "verifying"
    /\ Refuse(r)
    /\ UNCHANGED <<source, datasets>>

\* The server is killed: directories that were not renamed are never used.
Crash ==
    /\ \E r \in Requests : request[r] # Nobody
    /\ request' = [r \in Requests |-> Nobody]
    /\ UNCHANGED <<source, datasets>>

\* A client's own files change at any time.
Change(client) ==
    /\ source' \in {[source EXCEPT ![client] = tree] : tree \in Tree \cup {Missing}}
    /\ UNCHANGED <<datasets, request>>

Init ==
    /\ source \in [Clients -> Tree \cup {Missing}]
    /\ datasets = [client \in Clients |-> [digest \in Tree |-> Missing]]
    /\ request = [r \in Requests |-> Nobody]

Next ==
    \/ \E r \in Requests :
         \/ \E client \in Clients, digest \in Tree : Register(r, client, digest)
         \/ \E f \in Files : ReadFile(r, f)
         \/ Unavailable(r) \/ Compare(r) \/ CompareCopy(r) \/ Publish(r) \/ Verify(r)
    \/ \E client \in Clients : Change(client)
    \/ Crash

Spec == Init /\ [][Next]_vars

-----------------------------------------------------------------------------
(* Correctness. *)

\* However the client's files change while they are read, a name that exists
\* holds exactly the content of its digest, and keeps it (register, verify).
PublishedMatches ==
    \A client \in Clients, digest \in Tree : datasets[client][digest] \in {digest, Missing}

\* A rename never meets a directory of the same name: nobody else publishes a
\* name between the test for it and the rename (the lock of register).
RenamedOnce ==
    \A r \in Requests : request[r].pc \in {"reading", "copying", "publishing"}
        => datasets[request[r].client][request[r].digest] = Missing

\* The registry and the registrations keep their shapes.
RegistryTypeOK ==
    /\ source \in [Clients -> Tree \cup {Missing}]
    /\ datasets \in [Clients -> [Tree -> Tree \cup {Missing}]]
    /\ request \in [Requests -> Registration \cup {Nobody}]

-----------------------------------------------------------------------------
(* Why it holds: the inductive invariant behind both properties.            *)

\* Two registrations in progress never have the same name.
NamesLocked ==
    \A q, r \in Requests : (q # r /\ request[q] # Nobody /\ request[r] # Nobody)
        => <<request[q].client, request[q].digest>> # <<request[r].client, request[r].digest>>

\* What is about to be published was compared.
ComparedFirst == \A r \in Requests : request[r].pc = "publishing" => Matches(r)

RegistryInv == RegistryTypeOK /\ PublishedMatches /\ RenamedOnce /\ NamesLocked /\ ComparedFirst
=============================================================================

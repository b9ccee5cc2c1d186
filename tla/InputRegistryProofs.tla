------------------------ MODULE InputRegistryProofs ------------------------
(***************************************************************************)
(* Theorems about InputRegistry: a published input always holds the        *)
(* content of its digest, and is renamed into place once.                  *)
(***************************************************************************)
EXTENDS InputRegistry, TLAPS

\* Nothing of a directory, and one file more, are parts of it.
LEMMA Reading ==
    /\ NothingRead \in Partial
    /\ Tree \subseteq Partial
    /\ \A read \in Partial, f \in Files, v \in Values :
         [g \in DOMAIN read \cup {f} |-> IF g = f THEN v ELSE read[g]] \in Partial
  <1>1. NothingRead \in [{} -> Values] /\ {} \in SUBSET Files
    BY DEF NothingRead
  <1>2. NothingRead \in Partial
    BY <1>1 DEF Partial
  <1>3. Tree \subseteq Partial
    BY DEF Tree, Partial
  <1>4. ASSUME NEW read \in Partial, NEW f \in Files, NEW v \in Values
        PROVE  [g \in DOMAIN read \cup {f} |-> IF g = f THEN v ELSE read[g]] \in Partial
    <2>1. PICK part \in SUBSET Files : read \in [part -> Values]
      BY DEF Partial
    <2>2. /\ part \cup {f} \in SUBSET Files
          /\ [g \in DOMAIN read \cup {f} |-> IF g = f THEN v ELSE read[g]]
                \in [part \cup {f} -> Values]
      BY <2>1
    <2> QED
      BY <2>2 DEF Partial
  <1> QED
    BY <1>2, <1>3, <1>4

\* No registration is idle and in progress (the shapes differ in pc).
LEMMA InProgress ==
    ASSUME RegistryTypeOK, NEW r \in Requests
    PROVE  /\ request[r] = Nobody <=> request[r].pc = "idle"
           /\ request[r] # Nobody => request[r] \in Registration
  BY DEF RegistryTypeOK, Nobody, Registration

LEMMA InitRegistry == Init => RegistryInv
  <1> SUFFICES ASSUME Init PROVE RegistryInv
    OBVIOUS
  <1>1. \A r \in Requests : request[r] = Nobody /\ request[r].pc = "idle"
    BY DEF Init, Nobody
  <1>2. RegistryTypeOK
    BY <1>1 DEF Init, RegistryTypeOK
  <1>3. PublishedMatches
    BY DEF Init, PublishedMatches
  <1> QED
    BY <1>1, <1>2, <1>3 DEF RegistryInv, RenamedOnce, NamesLocked, ComparedFirst

\* A step that leaves datasets alone and gives one registration another pc,
\* with its name, keeps the invariant.
LEMMA OneRegistration ==
    ASSUME RegistryInv, NEW r \in Requests, NEW new \in Registration,
           request[r] # Nobody,
           new.client = request[r].client, new.digest = request[r].digest,
           request' = [request EXCEPT ![r] = new],
           source' \in [Clients -> Tree \cup {Missing}],
           datasets' = datasets,
           request[r].pc # "verifying" \/ new.pc = "verifying",
           new.pc = "publishing" => new.read = new.digest
    PROVE  RegistryInv'
  <1> USE DEF RegistryInv
  <1>1. request \in [Requests -> Registration \cup {Nobody}]
    BY DEF RegistryTypeOK
  <1>2. /\ request'[r] = new
        /\ \A q \in Requests \ {r} : request'[q] = request[q]
    BY <1>1
  <1>3. request[r] \in Registration /\ new # Nobody
    BY <1>1 DEF Registration, Nobody
  <1>4. RegistryTypeOK'
    BY <1>1 DEF RegistryTypeOK
  <1>5. PublishedMatches'
    BY DEF PublishedMatches
  <1>6. RenamedOnce'
    BY <1>2, <1>3 DEF RenamedOnce, Registration
  <1>7. NamesLocked'
    BY <1>2, <1>3 DEF NamesLocked
  <1>8. ComparedFirst'
    BY <1>2 DEF ComparedFirst, Matches
  <1> QED
    BY <1>4, <1>5, <1>6, <1>7, <1>8

\* Registrations that end keep the invariant.
LEMMA RegistrationsEnd ==
    ASSUME RegistryInv, NEW ended \in SUBSET Requests,
           request' = [r \in Requests |-> IF r \in ended THEN Nobody ELSE request[r]],
           datasets' = datasets, source' = source
    PROVE  RegistryInv'
  <1> USE DEF RegistryInv
  <1>1. \A r \in Requests : request'[r] = IF r \in ended THEN Nobody ELSE request[r]
    OBVIOUS
  <1>2. RegistryTypeOK'
    BY DEF RegistryTypeOK
  <1>3. PublishedMatches'
    BY DEF PublishedMatches
  <1>4. RenamedOnce'
    BY <1>1 DEF RenamedOnce, Nobody
  <1>5. NamesLocked'
    BY <1>1 DEF NamesLocked
  <1>6. ComparedFirst'
    BY <1>1 DEF ComparedFirst, Matches, Nobody
  <1> QED
    BY <1>2, <1>3, <1>4, <1>5, <1>6

\* A new registration takes a name nobody else is at.
LEMMA RegisterStep ==
    ASSUME RegistryInv, NEW r \in Requests, NEW client \in Clients, NEW digest \in Tree,
           Register(r, client, digest)
    PROVE  RegistryInv'
  <1> USE DEF RegistryInv
  <1> DEFINE new == [pc |-> IF datasets[client][digest] = Missing THEN "reading" ELSE "verifying",
                     client |-> client, digest |-> digest, read |-> NothingRead]
  <1>1. request' = [request EXCEPT ![r] = new] /\ datasets' = datasets /\ source' = source
    BY DEF Register
  <1>2. new \in Registration /\ new # Nobody
    BY Reading DEF Registration, Nobody
  <1>3. request \in [Requests -> Registration \cup {Nobody}]
    BY DEF RegistryTypeOK
  <1>4. request'[r] = new /\ \A q \in Requests \ {r} : request'[q] = request[q]
    BY <1>1, <1>3
  <1>5. \A q \in Requests : request[q] # Nobody =>
           <<request[q].client, request[q].digest>> # <<client, digest>>
    BY DEF Register, Locked, SameName
  <1> HIDE DEF new
  <1>6. RegistryTypeOK'
    BY <1>1, <1>2, <1>3 DEF RegistryTypeOK
  <1>7. PublishedMatches'
    BY <1>1 DEF PublishedMatches
  <1>8. RenamedOnce'
    BY <1>1, <1>4 DEF RenamedOnce, new
  <1>9. NamesLocked'
    BY <1>4, <1>5 DEF NamesLocked, new
  <1>10. ComparedFirst'
    BY <1>4 DEF ComparedFirst, Matches, new
  <1> QED
    BY <1>6, <1>7, <1>8, <1>9, <1>10

\* Reading and comparing keep the name of a registration.
LEMMA StepKeeps ==
    ASSUME RegistryInv, NEW r \in Requests, NEW pc, NEW read \in Partial,
           request[r] # Nobody, Step(r, pc, read),
           pc \in {"reading", "copying", "publishing"},
           request[r].pc # "verifying", pc = "publishing" => read = request[r].digest,
           UNCHANGED <<source, datasets>>
    PROVE  RegistryInv'
  <1> DEFINE new == [request[r] EXCEPT !.pc = pc, !.read = read]
  <1>1. request \in [Requests -> Registration \cup {Nobody}] /\ request[r] \in Registration
    BY InProgress DEF RegistryInv, RegistryTypeOK
  <1>2. /\ new \in Registration
        /\ new.pc = pc /\ new.read = read
        /\ new.client = request[r].client /\ new.digest = request[r].digest
    BY <1>1 DEF Registration
  <1>3. request' = [request EXCEPT ![r] = new]
    BY <1>1 DEF Step, Registration
  <1>4. source' \in [Clients -> Tree \cup {Missing}] /\ datasets' = datasets
    BY DEF RegistryInv, RegistryTypeOK
  <1> HIDE DEF new
  <1> QED
    BY <1>2, <1>3, <1>4, OneRegistration

LEMMA RefuseKeeps ==
    ASSUME RegistryInv, NEW r \in Requests, Refuse(r), UNCHANGED <<source, datasets>>
    PROVE  RegistryInv'
  <1>1. request' = [q \in Requests |-> IF q \in {r} THEN Nobody ELSE request[q]]
    BY DEF Refuse, RegistryInv, RegistryTypeOK
  <1> QED
    BY <1>1, RegistrationsEnd

\* The copy that was compared gets its name.
LEMMA PublishStep ==
    ASSUME RegistryInv, NEW r \in Requests, Publish(r)
    PROVE  RegistryInv'
  <1> USE DEF RegistryInv
  <1> DEFINE old == request[r]
             new == [old EXCEPT !.pc = "verifying", !.read = NothingRead]
  <1>1. request \in [Requests -> Registration \cup {Nobody}]
    BY DEF RegistryTypeOK
  <1>2. old \in Registration /\ old.pc = "publishing" /\ old.read = old.digest
    BY <1>1, InProgress DEF Publish, Nobody, ComparedFirst, Matches
  <1>3. request' = [request EXCEPT ![r] = new] /\ source' = source
    BY DEF Publish, Step
  <1>4. /\ new \in Registration /\ new # Nobody /\ new.pc = "verifying"
        /\ new.client = old.client /\ new.digest = old.digest
    BY <1>2, Reading DEF Registration, Nobody
  <1>5. request'[r] = new /\ \A q \in Requests \ {r} : request'[q] = request[q]
    BY <1>1, <1>3
  <1>6. datasets \in [Clients -> [Tree -> Tree \cup {Missing}]]
    BY DEF RegistryTypeOK
  <1>7. old.client \in Clients /\ old.digest \in Tree
    BY <1>2 DEF Registration
  <1>8. datasets' = [datasets EXCEPT ![old.client][old.digest] = old.digest]
    BY <1>2 DEF Publish
  <1>9. /\ datasets' \in [Clients -> [Tree -> Tree \cup {Missing}]]
        /\ \A client \in Clients, digest \in Tree :
             datasets'[client][digest] =
               IF client = old.client /\ digest = old.digest THEN digest ELSE datasets[client][digest]
    BY <1>6, <1>7, <1>8
  <1>10. \A q \in Requests \ {r} : request[q] # Nobody =>
            ~(request[q].client = old.client /\ request[q].digest = old.digest)
    BY <1>2 DEF NamesLocked, Nobody
  <1> HIDE DEF old, new
  <1>11. RegistryTypeOK'
    BY <1>1, <1>3, <1>4, <1>9 DEF RegistryTypeOK
  <1>12. PublishedMatches'
    BY <1>9 DEF PublishedMatches
  <1>13. RenamedOnce'
    <2> SUFFICES ASSUME NEW q \in Requests,
                        request'[q].pc \in {"reading", "copying", "publishing"}
                 PROVE  datasets'[request'[q].client][request'[q].digest] = Missing
      BY DEF RenamedOnce
    <2>1. q # r /\ request'[q] = request[q] /\ request[q] # Nobody
      BY <1>4, <1>5 DEF Nobody
    <2>2. request[q].client \in Clients /\ request[q].digest \in Tree
      BY <2>1, InProgress DEF Registration
    <2> QED
      BY <1>9, <1>10, <2>1, <2>2 DEF RenamedOnce
  <1>14. NamesLocked'
    BY <1>2, <1>4, <1>5 DEF NamesLocked, old, Nobody
  <1>15. ComparedFirst'
    BY <1>4, <1>5 DEF ComparedFirst, Matches
  <1> QED
    BY <1>11, <1>12, <1>13, <1>14, <1>15

\* Every step keeps the invariant.
LEMMA NextRegistry ==
    ASSUME RegistryInv, [Next]_vars
    PROVE  RegistryInv'
  <1>1. ASSUME NEW r \in Requests, NEW client \in Clients, NEW digest \in Tree,
               Register(r, client, digest)
        PROVE  RegistryInv'
    BY <1>1, RegisterStep
  <1>2. ASSUME NEW r \in Requests, NEW f \in Files, ReadFile(r, f)
        PROVE  RegistryInv'
    <2> DEFINE read == request[r].read
               from == source[request[r].client]
               more == [g \in DOMAIN read \cup {f} |-> IF g = f THEN from[f] ELSE read[g]]
    <2>1. request[r] # Nobody /\ request[r] \in Registration
      BY <1>2, InProgress DEF ReadFile, Nobody, RegistryInv
    <2>2. from \in Tree
      BY <1>2, <2>1 DEF ReadFile, Registration, RegistryInv, RegistryTypeOK
    <2>3. more \in Partial
      BY <2>1, <2>2, Reading DEF Registration, Tree
    <2>4. Step(r, request[r].pc, more) /\ request[r].pc \in {"reading", "copying"}
      BY <1>2 DEF ReadFile
    <2>5. UNCHANGED <<source, datasets>>
      BY <1>2 DEF ReadFile
    <2> QED
      BY <2>1, <2>3, <2>4, <2>5, StepKeeps
  <1>3. ASSUME NEW r \in Requests, Unavailable(r)
        PROVE  RegistryInv'
    BY <1>3, RefuseKeeps DEF Unavailable
  <1>4. ASSUME NEW r \in Requests, Compare(r)
        PROVE  RegistryInv'
    <2>1. CASE Matches(r)
      <3>1. request[r] # Nobody /\ NothingRead \in Partial
        BY <1>4, Reading DEF Compare, Nobody
      <3>2. Step(r, "copying", NothingRead) /\ request[r].pc = "reading" /\ UNCHANGED <<source, datasets>>
        BY <1>4, <2>1 DEF Compare
      <3> QED
        BY <3>1, <3>2, StepKeeps
    <2>2. CASE ~Matches(r)
      BY <1>4, <2>2, RefuseKeeps DEF Compare
    <2> QED
      BY <2>1, <2>2
  <1>5. ASSUME NEW r \in Requests, CompareCopy(r)
        PROVE  RegistryInv'
    <2>1. CASE CopyMatches(r) /\ Step(r, "publishing", request[r].read)
      <3>1. request[r] # Nobody /\ request[r] \in Registration
        BY <1>5, InProgress DEF CompareCopy, Nobody, RegistryInv
      <3>2. request[r].read \in Partial /\ request[r].read = request[r].digest
        BY <2>1, <3>1 DEF CopyMatches, Matches, Registration
      <3>3. request[r].pc = "copying" /\ UNCHANGED <<source, datasets>>
        BY <1>5 DEF CompareCopy
      <3> QED
        BY <2>1, <3>1, <3>2, <3>3, StepKeeps
    <2>2. CASE Refuse(r)
      BY <1>5, <2>2, RefuseKeeps DEF CompareCopy
    <2> QED
      BY <1>5, <2>1, <2>2 DEF CompareCopy
  <1>6. ASSUME NEW r \in Requests, Publish(r)
        PROVE  RegistryInv'
    BY <1>6, PublishStep
  <1>7. ASSUME NEW r \in Requests, Verify(r)
        PROVE  RegistryInv'
    BY <1>7, RefuseKeeps DEF Verify
  <1>8. CASE Crash
    <2>1. request' = [r \in Requests |-> IF r \in Requests THEN Nobody ELSE request[r]]
      BY <1>8 DEF Crash
    <2>2. datasets' = datasets /\ source' = source /\ Requests \in SUBSET Requests
      BY <1>8 DEF Crash
    <2> QED
      BY <2>1, <2>2, RegistrationsEnd
  <1>9. ASSUME NEW client \in Clients, Change(client)
        PROVE  RegistryInv'
    <2>1. source' \in [Clients -> Tree \cup {Missing}]
      BY <1>9 DEF Change, RegistryInv, RegistryTypeOK
    <2>2. datasets' = datasets /\ request' = request
      BY <1>9 DEF Change
    <2> QED
      BY <2>1, <2>2 DEF RegistryInv, RegistryTypeOK, PublishedMatches, RenamedOnce,
                        NamesLocked, ComparedFirst, Matches
  <1>10. CASE UNCHANGED vars
    BY <1>10 DEF vars, RegistryInv, RegistryTypeOK, PublishedMatches, RenamedOnce,
                 NamesLocked, ComparedFirst, Matches
  <1> QED
    BY <1>1, <1>2, <1>3, <1>4, <1>5, <1>6, <1>7, <1>8, <1>9, <1>10 DEF Next

\* The registry is correct in every reachable state.
LEMMA RegistryInvariant == Spec => []RegistryInv
  BY InitRegistry, NextRegistry, PTL DEF Spec

\* A name that exists holds the content of its digest, however the files of
\* the client change while they are read (register and its second comparison).
THEOREM InputsMatch == Spec => []PublishedMatches
  <1>1. RegistryInv => PublishedMatches
    BY DEF RegistryInv
  <1> QED
    BY <1>1, RegistryInvariant, PTL

\* A name is published only while it does not exist (the lock of register).
THEOREM InputsRenamedOnce == Spec => []RenamedOnce
  <1>1. RegistryInv => RenamedOnce
    BY DEF RegistryInv
  <1> QED
    BY <1>1, RegistryInvariant, PTL
=============================================================================

------------------------- MODULE AgentSessionProofs -------------------------
(***************************************************************************)
(* What holds of an Agent's identity for every number of codes, hosts,     *)
(* certificates, sessions and requests: its Enrollment, and then what      *)
(* renewal, revocation and the control sessions keep (AgentIdentity); last *)
(* the goroutines of one session (ControlSession).                         *)
(***************************************************************************)
EXTENDS AgentIdentity, Enrollment, ControlSession, TLAPS

(* Enrollment: a code buys exactly one identity, and the files on a host    *)
(* are of identities the Panel issued to it.                                *)

\* Neither part is inductive without the other: a code is only known to be free
\* because the rows that exist have theirs consumed.
EnrollInv == EnrollTypeOK /\ CodeBuysOneIdentity

\* Initially there are no identities.
LEMMA EnrollInitInv == EnrollInit => EnrollInv
  <1> SUFFICES ASSUME EnrollInit PROVE EnrollInv
    OBVIOUS
  <1>1. EnrollTypeOK
    BY DEF EnrollInit, EnrollTypeOK, CodeStates, NodeIDs
  <1>2. CodeBuysOneIdentity
    BY DEF EnrollInit, CodeBuysOneIdentity
  <1> QED BY <1>1, <1>2 DEF EnrollInv

\* A step that leaves the Panel's tables alone keeps the invariant.
LEMMA TablesAlone ==
    ASSUME EnrollInv, UNCHANGED <<code, rows>>, EnrollTypeOK'
    PROVE  EnrollInv'
  BY DEF EnrollInv, CodeBuysOneIdentity

\* The status of an identity does not bear on its code.
LEMMA RestatusKeeps ==
    ASSUME EnrollInv, NEW i \in rows, NEW status \in {"valid", "revoked", "expired"},
           Restatus(i, status)
    PROVE  EnrollInv'
  <1> DEFINE j == [i EXCEPT !.status = status]
  <1>1. j \in Identities /\ j.code = i.code
    BY DEF EnrollInv, EnrollTypeOK, Identities
  <1>2. rows' = (rows \ {i}) \cup {j} /\ UNCHANGED <<code, request, proc, name, file>>
    BY DEF Restatus
  <1> HIDE DEF j
  <1>3. EnrollTypeOK'
    BY <1>1, <1>2 DEF EnrollInv, EnrollTypeOK
  <1>4. CodeBuysOneIdentity'
    BY <1>1, <1>2 DEF EnrollInv, CodeBuysOneIdentity
  <1> QED BY <1>3, <1>4 DEF EnrollInv

\* One transaction of handleEnroll.
LEMMA HandleKeeps ==
    ASSUME EnrollInv, NEW r \in Runs, HandleEnroll(r)
    PROVE  EnrollInv'
  <1> DEFINE p == proc[r]
             i == [run |-> r, node |-> p.node, code |-> p.code, status |-> "valid"]
  <1>1. p.code \in Codes /\ p.node \in NodeIDs
    BY DEF EnrollInv, EnrollTypeOK, Procs
  <1>2. i \in Identities /\ i.code = p.code
    BY <1>1 DEF Identities
  <1>3. UNCHANGED <<proc, name, file>>
    BY DEF HandleEnroll
  <1>4. CASE UNCHANGED <<code, rows>>
    <2>1. request' \in [Runs -> {"none", "sent"} \cup Verdicts]
      BY DEF HandleEnroll, EnrollInv, EnrollTypeOK, Verdicts
    <2> QED BY <1>3, <1>4, <2>1, TablesAlone DEF EnrollInv, EnrollTypeOK
  <1>5. CASE /\ Consumable(p.code)
             /\ code' = [code EXCEPT ![p.code] = "consumed"]
             /\ rows' = rows \cup {i}
             /\ request' = [request EXCEPT ![r] = "created"]
    <2> HIDE DEF p, i
    <2>1. EnrollTypeOK'
      BY <1>1, <1>2, <1>3, <1>5 DEF EnrollInv, EnrollTypeOK, CodeStates, Verdicts
    <2>2. \A j \in rows : j.code \in Codes /\ j.code # p.code
      BY <1>5 DEF EnrollInv, EnrollTypeOK, Identities, CodeBuysOneIdentity, Consumable
    <2>3. \A c \in Codes : code'[c] = IF c = p.code THEN "consumed" ELSE code[c]
      BY <1>1, <1>5 DEF EnrollInv, EnrollTypeOK
    <2>4. CodeBuysOneIdentity'
      BY <1>1, <1>2, <1>5, <2>2, <2>3 DEF EnrollInv, CodeBuysOneIdentity
    <2> QED BY <2>1, <2>4 DEF EnrollInv
  <1> QED BY <1>4, <1>5 DEF HandleEnroll

\* Every step keeps the invariant.
LEMMA EnrollStep == EnrollInv /\ [EnrollNext]_enrollVars => EnrollInv'
  <1> SUFFICES ASSUME EnrollInv, [EnrollNext]_enrollVars PROVE EnrollInv'
    OBVIOUS
  <1>1. ASSUME NEW c \in Codes, CreateEnrollment(c) \/ CodeLapses(c) PROVE EnrollInv'
    <2>1. EnrollTypeOK'
      BY <1>1 DEF CreateEnrollment, CodeLapses, EnrollInv, EnrollTypeOK, CodeStates
    <2>2. /\ rows' = rows /\ code[c] # "consumed" /\ code'[c] # "consumed"
          /\ \A d \in Codes \ {c} : code'[d] = code[d]
      BY <1>1 DEF CreateEnrollment, CodeLapses, EnrollInv, EnrollTypeOK
    <2>3. \A i \in rows : i.code \in Codes
      BY DEF EnrollInv, EnrollTypeOK, Identities
    <2> QED BY <2>1, <2>2, <2>3 DEF EnrollInv, CodeBuysOneIdentity
  <1>2. ASSUME NEW i \in rows, RevokeIdentity(i) \/ IdentityLapses(i) PROVE EnrollInv'
    BY <1>2, RestatusKeeps DEF RevokeIdentity, IdentityLapses
  <1>3. ASSUME NEW r \in Runs, StartRun(r) PROVE EnrollInv'
    <2>1. proc' \in [Runs -> Procs]
      BY <1>3 DEF StartRun, EnrollInv, EnrollTypeOK, Procs
    <2> QED BY <1>3, <2>1, TablesAlone DEF StartRun, EnrollInv, EnrollTypeOK
  <1>4. ASSUME NEW r \in Runs, RunStep(r) PROVE EnrollInv'
    <2>1. CASE HandleEnroll(r)
      BY <2>1, HandleKeeps
    <2>2. CASE Receive(r)
      <3>1. proc' \in [Runs -> Procs]
        BY <2>2 DEF Receive, EnrollInv, EnrollTypeOK, Procs
      <3>2. EnrollTypeOK'
        BY <2>2, <3>1 DEF Receive, panelVars, EnrollInv, EnrollTypeOK
      <3> QED BY <2>2, <3>2, TablesAlone DEF Receive, panelVars
    <2>3. CASE Save(r)
      <3>1. NextFile(proc[r]) \in Files
        BY DEF NextFile, Files
      <3>2. proc[r].host \in Hosts /\ proc[r].todo \subseteq Files
        BY DEF EnrollInv, EnrollTypeOK, Procs
      <3>3. proc' \in [Runs -> Procs]
        <4> DEFINE left == proc[r].todo \ {NextFile(proc[r])}
                   pc == IF left = {} THEN "done" ELSE "save"
        <4>1. proc' = [proc EXCEPT ![r].todo = left, ![r].pc = pc]
          BY <2>3 DEF Save
        <4>2. left \subseteq Files /\ pc \in {"done", "save"}
          BY <3>2
        <4> HIDE DEF left, pc
        <4> QED BY <4>1, <4>2 DEF EnrollInv, EnrollTypeOK, Procs
      <3>4. file' = [file EXCEPT ![proc[r].host][NextFile(proc[r])] = r]
        BY <2>3 DEF Save
      <3>5. file' \in [Hosts -> [Files -> Runs \cup {"none"}]]
        BY <3>1, <3>2, <3>4 DEF EnrollInv, EnrollTypeOK
      <3> QED BY <2>3, <3>3, <3>5, TablesAlone DEF Save, panelVars, EnrollInv, EnrollTypeOK
    <2> QED BY <1>4, <2>1, <2>2, <2>3 DEF RunStep
  <1>5. ASSUME NEW r \in Runs, GiveUp(r) \/ SaveFails(r) PROVE EnrollInv'
    <2>1. proc' = [proc EXCEPT ![r].pc = "failed"] /\ UNCHANGED <<panelVars, name, file>>
      BY <1>5 DEF GiveUp, SaveFails
    <2>2. proc' \in [Runs -> Procs]
      BY <2>1 DEF EnrollInv, EnrollTypeOK, Procs
    <2>3. EnrollTypeOK'
      BY <2>1, <2>2 DEF panelVars, EnrollInv, EnrollTypeOK
    <2> QED BY <2>1, <2>3, TablesAlone DEF panelVars
  <1>6. ASSUME NEW r \in Runs, RequestDropped(r) PROVE EnrollInv'
    BY <1>6, TablesAlone DEF RequestDropped, EnrollInv, EnrollTypeOK, Verdicts
  <1>7. ASSUME NEW h \in Hosts, Rename(h) PROVE EnrollInv'
    BY <1>7, TablesAlone DEF Rename, panelVars, EnrollInv, EnrollTypeOK, NodeIDs
  <1>8. CASE UNCHANGED enrollVars
    BY <1>8, TablesAlone DEF enrollVars, panelVars, EnrollInv, EnrollTypeOK
  <1> QED BY <1>1, <1>2, <1>3, <1>4, <1>5, <1>6, <1>7, <1>8 DEF EnrollNext

\* The tables, the requests, the runs and the files keep their types.
THEOREM EnrollTypeCorrect == EnrollSpec => []EnrollTypeOK
  <1>1. EnrollInv => EnrollTypeOK
    BY DEF EnrollInv
  <1> QED BY <1>1, EnrollInitInv, EnrollStep, PTL DEF EnrollSpec

\* For every number of codes, hosts and concurrent runs: a code that handleEnroll
\* has consumed belongs to exactly one identity, and no identity lacks one.
THEOREM OneIdentityPerCode == EnrollSpec => []CodeBuysOneIdentity
  <1>1. EnrollInv => CodeBuysOneIdentity
    BY DEF EnrollInv
  <1> QED BY <1>1, EnrollInitInv, EnrollStep, PTL DEF EnrollSpec
-----------------------------------------------------------------------------
\* A file is of a run on its host that has a row, because a run only writes once
\* its request was answered with 201, and a row is never deleted.
HasRow(r) == \E i \in rows : i.run = r

FilesInv ==
    /\ \A r \in Runs : request[r] = "created" \/ proc[r].pc = "save" => HasRow(r)
    /\ \A h \in Hosts, f \in Files : file[h][f] # "none" =>
          HasRow(file[h][f]) /\ proc[file[h][f]].host = h

\* The rows keep their runs.
LEMMA RowsStay ==
    ASSUME EnrollInv, [EnrollNext]_enrollVars, NEW r \in Runs, HasRow(r)
    PROVE  HasRow(r)'
  <1>1. ASSUME NEW i \in rows, NEW status, Restatus(i, status) PROVE HasRow(r)'
    <2>1. [i EXCEPT !.status = status].run = i.run
      BY DEF EnrollInv, EnrollTypeOK, Identities
    <2> QED BY <1>1, <2>1 DEF Restatus, HasRow
  <1>2. CASE \A i \in rows : i \in rows'
    BY <1>2 DEF HasRow
  <1>3. ASSUME NEW s \in Runs, HandleEnroll(s) PROVE \A i \in rows : i \in rows'
    BY <1>3 DEF HandleEnroll
  <1>4. CASE UNCHANGED rows
    BY <1>2, <1>4
  <1>5. CASE \E i \in rows : RevokeIdentity(i) \/ IdentityLapses(i)
    BY <1>1, <1>5 DEF RevokeIdentity, IdentityLapses
  <1>6. \/ UNCHANGED rows
        \/ \E i \in rows : RevokeIdentity(i) \/ IdentityLapses(i)
        \/ \E s \in Runs : HandleEnroll(s)
    BY DEF EnrollNext, RunStep, CreateEnrollment, CodeLapses, StartRun, Receive, Save, GiveUp,
           RequestDropped, SaveFails, Rename, panelVars, enrollVars
  <1> QED BY <1>2, <1>3, <1>4, <1>5, <1>6

\* A step that writes no file, and starts no writing.
LEMMA NothingWritten ==
    ASSUME EnrollInv, FilesInv, [EnrollNext]_enrollVars, UNCHANGED file,
           \A r \in Runs : proc'[r].host = proc[r].host,
           \A r \in Runs : request'[r] = "created" \/ proc'[r].pc = "save" => HasRow(r)'
    PROVE  FilesInv'
  <1>1. \A h \in Hosts, f \in Files : file[h][f] \in Runs \cup {"none"}
    BY DEF EnrollInv, EnrollTypeOK
  <1>2. ASSUME NEW h \in Hosts, NEW f \in Files, file'[h][f] # "none"
        PROVE  HasRow(file[h][f])' /\ proc'[file'[h][f]].host = h
    <2>1. PICK r \in Runs : r = file[h][f] /\ r = file'[h][f]
      BY <1>1, <1>2
    <2>2. HasRow(r) /\ proc[r].host = h
      BY <1>2, <2>1 DEF FilesInv
    <2>3. HasRow(r)'
      BY <2>2, RowsStay
    <2> QED BY <2>1, <2>2, <2>3 DEF HasRow
  <1> QED BY <1>2 DEF FilesInv, HasRow

LEMMA FilesStep == EnrollInv /\ FilesInv /\ [EnrollNext]_enrollVars => FilesInv'
  <1> SUFFICES ASSUME EnrollInv, FilesInv, [EnrollNext]_enrollVars PROVE FilesInv'
    OBVIOUS
  <1>0. /\ request \in [Runs -> {"none", "sent"} \cup Verdicts]
        /\ proc \in [Runs -> Procs]
        /\ file \in [Hosts -> [Files -> Runs \cup {"none"}]]
    BY DEF EnrollInv, EnrollTypeOK
  <1>a. \A r \in Runs : request[r] = "created" \/ proc[r].pc = "save" => HasRow(r)'
    BY RowsStay DEF FilesInv
  <1>1. CASE UNCHANGED <<request, proc, file>>
    BY <1>1, <1>a, NothingWritten
  <1>2. ASSUME NEW r \in Runs, HandleEnroll(r) PROVE FilesInv'
    <2>1. /\ UNCHANGED <<proc, file>>
          /\ \A s \in Runs \ {r} : request'[s] = request[s]
      BY <1>0, <1>2 DEF HandleEnroll
    <2>2. request'[r] = "created" => HasRow(r)'
      <3> DEFINE i == [run |-> r, node |-> proc[r].node, code |-> proc[r].code, status |-> "valid"]
      <3>1. i.run = r
        OBVIOUS
      <3> HIDE DEF i
      <3>2. request'[r] = "created" => i \in rows'
        BY <1>0, <1>2 DEF HandleEnroll, i
      <3> QED BY <3>1, <3>2 DEF HasRow
    <2>3. \A s \in Runs : request'[s] = "created" \/ proc'[s].pc = "save" => HasRow(s)'
      BY <1>a, <2>1, <2>2
    <2> QED BY <2>1, <2>3, NothingWritten
  <1>3. ASSUME NEW r \in Runs, StartRun(r) \/ Receive(r) \/ GiveUp(r) \/ RequestDropped(r)
                                \/ SaveFails(r)
        PROVE  FilesInv'
    <2>1. /\ UNCHANGED file
          /\ \A s \in Runs \ {r} : request'[s] = request[s] /\ proc'[s] = proc[s]
      BY <1>0, <1>3 DEF StartRun, Receive, GiveUp, RequestDropped, SaveFails, panelVars
    <2>2. proc'[r].host = proc[r].host
      BY <1>0, <1>3 DEF StartRun, Receive, GiveUp, RequestDropped, SaveFails, Procs
    <2>3. request'[r] = "created" \/ proc'[r].pc = "save" => request[r] = "created" \/ proc[r].pc = "save"
      BY <1>0, <1>3 DEF StartRun, Receive, GiveUp, RequestDropped, SaveFails, Created, panelVars, Procs
    <2> QED BY <1>a, <2>1, <2>2, <2>3, NothingWritten
  <1>4. ASSUME NEW r \in Runs, Save(r) PROVE FilesInv'
    <2> DEFINE h == proc[r].host
               f == NextFile(proc[r])
    <2>1. h \in Hosts /\ f \in Files
      BY <1>0 DEF Procs, NextFile, Files
    <2>2. HasRow(r) /\ HasRow(r)'
      BY <1>4, RowsStay DEF Save, FilesInv
    <2>3. /\ UNCHANGED request
          /\ file' = [file EXCEPT ![h][f] = r]
          /\ \A s \in Runs : proc'[s].host = proc[s].host
          /\ \A s \in Runs : proc'[s].pc = "save" => proc[s].pc = "save"
      BY <1>0, <1>4 DEF Save, panelVars, Procs
    <2> HIDE DEF h, f
    <2>4. ASSUME NEW g \in Hosts, NEW e \in Files, file'[g][e] # "none"
          PROVE  HasRow(file[g][e])' /\ proc'[file'[g][e]].host = g
      <3>1. CASE g = h /\ e = f
        <4>1. file'[g][e] = r
          BY <1>0, <2>1, <2>3, <3>1
        <4>2. proc'[r].host = h
          BY <2>3 DEF h
        <4> QED BY <2>2, <3>1, <4>1, <4>2 DEF HasRow
      <3>2. CASE ~(g = h /\ e = f)
        <4>1. PICK s \in Runs : s = file'[g][e] /\ s = file[g][e]
          BY <1>0, <2>1, <2>3, <2>4, <3>2
        <4>2. HasRow(s) /\ proc[s].host = g
          BY <2>4, <4>1 DEF FilesInv
        <4>3. HasRow(s)'
          BY <4>2, RowsStay
        <4> QED BY <2>3, <4>1, <4>2, <4>3 DEF HasRow
      <3> QED BY <3>1, <3>2
    <2> QED BY <1>a, <2>3, <2>4 DEF FilesInv, HasRow
  <1> QED BY <1>1, <1>2, <1>3, <1>4 DEF EnrollNext, RunStep, CreateEnrollment, CodeLapses,
              RevokeIdentity, IdentityLapses, Restatus, Rename, panelVars, enrollVars

\* However runs overlap, fail between two files and find their answers lost, and
\* whatever becomes of the identities: files that load are of one identity, and
\* the Panel issued it to a run on this host.
THEOREM LoadedIdentityWasIssued == EnrollSpec => []LoadedWasIssued
  <1>1. EnrollInit => FilesInv
    BY DEF EnrollInit, FilesInv, Procs
  <1>2. FilesInv => LoadedWasIssued
    <2> SUFFICES ASSUME FilesInv, NEW h \in Hosts, Loads(h)
                 PROVE  \E i \in rows : i.run = file[h]["key"] /\ proc[i.run].host = h
      BY DEF LoadedWasIssued
    <2> QED BY DEF Loads, FilesInv, HasRow, Files
  <1> QED BY <1>1, <1>2, FilesStep, EnrollInitInv, EnrollStep, PTL DEF EnrollSpec
-----------------------------------------------------------------------------
\* A host that was never renamed has all its runs under its first node ID, and a
\* node ID has rows of one run only.
NamesInv ==
    /\ \A r \in Runs : name[proc[r].host] = proc[r].host => proc[r].node = proc[r].host
    /\ \A r \in Runs : proc[r].pc = "idle" => request[r] = "none"
    /\ \A i \in rows : i.node = proc[i.run].node /\ proc[i.run].pc # "idle"
    /\ \A i, j \in rows : i.node = j.node => i.run = j.run

\* A step that adds no row: the rows keep their runs and their node IDs.
LEMMA NoNewRow ==
    ASSUME EnrollInv, NamesInv,
           \A j \in rows' : \E i \in rows : j.run = i.run /\ j.node = i.node,
           \A r \in Runs : proc'[r].pc = "idle" => request'[r] = "none",
           \A r \in Runs : proc[r].pc # "idle" => proc'[r].node = proc[r].node /\ proc'[r].pc # "idle",
           \A r \in Runs : name'[proc'[r].host] = proc'[r].host => proc'[r].node = proc'[r].host
    PROVE  NamesInv'
  <1>1. \A i \in rows : i.run \in Runs
    BY DEF EnrollInv, EnrollTypeOK, Identities
  <1>2. ASSUME NEW j \in rows' PROVE j.node = proc'[j.run].node /\ proc'[j.run].pc # "idle"
    <2>1. PICK i \in rows : j.run = i.run /\ j.node = i.node
      BY <1>2
    <2> QED BY <1>1, <2>1 DEF NamesInv
  <1>3. ASSUME NEW j \in rows', NEW k \in rows', j.node = k.node PROVE j.run = k.run
    <2>1. PICK i \in rows : j.run = i.run /\ j.node = i.node
      BY <1>3
    <2>2. PICK l \in rows : k.run = l.run /\ k.node = l.node
      BY <1>3
    <2> QED BY <1>3, <2>1, <2>2 DEF NamesInv
  <1> QED BY <1>2, <1>3 DEF NamesInv

\* The request of a run is handled once, while its run is under way.
LEMMA NewRow ==
    ASSUME EnrollInv, NamesInv, NEW r \in Runs, HandleEnroll(r)
    PROVE  NamesInv'
  <1> DEFINE i == [run |-> r, node |-> proc[r].node, code |-> proc[r].code, status |-> "valid"]
  <1>0. /\ UNCHANGED <<proc, name, file>> /\ proc[r].pc # "idle"
        /\ request \in [Runs -> {"none", "sent"} \cup Verdicts]
    BY DEF HandleEnroll, NamesInv, EnrollInv, EnrollTypeOK
  <1>1. \A s \in Runs : proc'[s].pc = "idle" => request'[s] = "none"
    BY <1>0 DEF HandleEnroll, NamesInv
  <1>2. i.run = r /\ i.node = proc[r].node
    OBVIOUS
  <1>3. \/ UNCHANGED rows
        \/ ~Taken(proc[r].node) /\ rows' = rows \cup {i}
    BY DEF HandleEnroll
  <1> HIDE DEF i
  <1>4. CASE UNCHANGED rows
    BY <1>0, <1>1, <1>4, NoNewRow DEF NamesInv
  <1>5. CASE ~Taken(proc[r].node) /\ rows' = rows \cup {i}
    BY <1>0, <1>1, <1>2, <1>5 DEF NamesInv, Taken
  <1> QED BY <1>3, <1>4, <1>5

LEMMA NamesStep ==
    ASSUME Hosts \cap NewNames = {}, EnrollInv, NamesInv, [EnrollNext]_enrollVars
    PROVE  NamesInv'
  <1>0. /\ proc \in [Runs -> Procs] /\ name \in [Hosts -> NodeIDs]
        /\ request \in [Runs -> {"none", "sent"} \cup Verdicts]
        /\ rows \subseteq Identities
    BY DEF EnrollInv, EnrollTypeOK
  <1>1. CASE UNCHANGED <<rows, request, proc, name>>
    BY <1>1, NoNewRow DEF NamesInv
  <1>2. ASSUME NEW i \in rows, NEW status, Restatus(i, status) PROVE NamesInv'
    <2>1. [i EXCEPT !.status = status].run = i.run /\ [i EXCEPT !.status = status].node = i.node
      BY <1>0 DEF Identities
    <2>2. \A j \in rows' : \E k \in rows : j.run = k.run /\ j.node = k.node
      BY <1>2, <2>1 DEF Restatus
    <2>3. UNCHANGED <<request, proc, name>>
      BY <1>2 DEF Restatus
    <2> QED BY <2>2, <2>3, NoNewRow DEF NamesInv
  <1>3. ASSUME NEW r \in Runs, StartRun(r) PROVE NamesInv'
    <2>1. /\ proc[r].pc = "idle" /\ UNCHANGED <<rows, name>>
          /\ proc'[r].pc = "wait" /\ proc'[r].host = proc[r].host
          /\ proc'[r].node = name[proc[r].host]
          /\ \A s \in Runs \ {r} : proc'[s] = proc[s] /\ request'[s] = request[s]
      BY <1>0, <1>3 DEF StartRun, Procs
    <2> QED BY <2>1, NoNewRow DEF NamesInv
  <1>4. ASSUME NEW r \in Runs, Receive(r) \/ GiveUp(r) \/ RequestDropped(r) \/ Save(r) \/ SaveFails(r)
        PROVE  NamesInv'
    <2>1. /\ UNCHANGED <<rows, name>>
          /\ \A s \in Runs \ {r} : proc'[s] = proc[s] /\ request'[s] = request[s]
      BY <1>0, <1>4 DEF Receive, GiveUp, RequestDropped, Save, SaveFails, panelVars
    <2>2. proc'[r].host = proc[r].host /\ proc'[r].node = proc[r].node
      BY <1>0, <1>4 DEF Receive, GiveUp, RequestDropped, Save, SaveFails, Procs
    <2>3. proc[r].pc # "idle" /\ proc'[r].pc # "idle"
      BY <1>0, <1>4 DEF Receive, GiveUp, RequestDropped, Save, SaveFails, Procs, NamesInv
    <2> QED BY <2>1, <2>2, <2>3, NoNewRow DEF NamesInv
  <1>5. ASSUME NEW h \in Hosts, Rename(h) PROVE NamesInv'
    <2>1. UNCHANGED <<rows, request, proc>>
      BY <1>5 DEF Rename, panelVars
    <2>2. \A g \in Hosts : name'[g] = g => name[g] = g
      BY <1>0, <1>5 DEF Rename
    <2>3. \A r \in Runs : proc[r].host \in Hosts
      BY <1>0 DEF Procs
    <2> QED BY <2>1, <2>2, <2>3, NoNewRow DEF NamesInv
  <1> QED BY <1>1, <1>2, <1>3, <1>4, <1>5, NewRow DEF EnrollNext, RunStep, CreateEnrollment,
             CodeLapses, RevokeIdentity, IdentityLapses, enrollVars, panelVars

\* Only the run whose files load may write files of a host.
LEMMA KeepsIdentity ==
    ASSUME EnrollInv, FilesInv, NamesInv, [EnrollNext]_enrollVars,
           NEW h \in Hosts, Loads(h), name[h] = h
    PROVE  Loads(h)'
  <1>0. /\ proc \in [Runs -> Procs] /\ file \in [Hosts -> [Files -> Runs \cup {"none"}]]
        /\ {"key", "cert", "state", "trust"} \subseteq Files
    BY DEF EnrollInv, EnrollTypeOK, Files
  <1>1. CASE UNCHANGED file
    BY <1>1 DEF Loads
  <1>2. ASSUME NEW r \in Runs, Save(r) PROVE Loads(h)'
    <2> DEFINE f == NextFile(proc[r])
    <2>1. f \in Files /\ file' = [file EXCEPT ![proc[r].host][f] = r]
      BY <1>2 DEF Save, NextFile, Files
    <2> HIDE DEF f
    <2>2. CASE proc[r].host # h
      BY <1>0, <2>1, <2>2 DEF Loads
    <2>3. CASE proc[r].host = h
      <3> DEFINE s == file[h]["key"]
      <3>1. s \in Runs /\ file[h]["cert"] = s /\ file[h]["state"] = s /\ file[h]["trust"] # "none"
        BY <1>0 DEF Loads
      <3>2. HasRow(s) /\ proc[s].host = h
        BY <1>0, <3>1, EnrollAssumption DEF FilesInv
      <3>3. HasRow(r)
        BY <1>2 DEF FilesInv, Save
      <3> HIDE DEF s
      <3>4. s = r
        BY <2>3, <3>1, <3>2, <3>3 DEF NamesInv, HasRow
      <3>5. \A e \in Files : file'[h][e] = IF e = f THEN r ELSE file[h][e]
        BY <1>0, <2>1, <2>3
      <3>6. r # "none"
        BY EnrollAssumption
      <3> QED BY <1>0, <3>1, <3>4, <3>5, <3>6 DEF Loads, s
    <2> QED BY <2>2, <2>3
  <1> QED BY <1>1, <1>2 DEF EnrollNext, RunStep, CreateEnrollment, CodeLapses, RevokeIdentity,
             IdentityLapses, Restatus, StartRun, HandleEnroll, Receive, GiveUp, RequestDropped,
             SaveFails, Rename, enrollVars, panelVars

\* Where no host is given the first node ID of any: a host that has kept its node ID
\* never loses an identity it can load, because UNIQUE(node_id) refuses every other
\* run for it before Save, whatever the status of the row.
THEOREM LoadedIdentityStays ==
    ASSUME Hosts \cap NewNames = {}
    PROVE  EnrollSpec => IdentityIsKept
  <1>1. ASSUME EnrollInit PROVE FilesInv /\ NamesInv
    <2>1. FilesInv
      BY <1>1 DEF EnrollInit, FilesInv, Procs
    <2>2. \A r \in Runs : proc[r].pc = "idle" /\ proc[r].node = proc[r].host /\ request[r] = "none"
      BY <1>1 DEF EnrollInit
    <2>3. rows = {}
      BY <1>1 DEF EnrollInit
    <2> QED BY <2>1, <2>2, <2>3 DEF NamesInv
  <1>2. EnrollInv /\ FilesInv /\ NamesInv /\ [EnrollNext]_enrollVars =>
            [\A h \in Hosts : Loads(h) /\ name[h] = h => Loads(h)']_enrollVars
    BY KeepsIdentity
  <1>3. EnrollInv /\ NamesInv /\ [EnrollNext]_enrollVars => NamesInv'
    BY NamesStep
  <1> QED BY <1>1, <1>2, <1>3, FilesStep, EnrollInitInv, EnrollStep, PTL DEF EnrollSpec, IdentityIsKept

-----------------------------------------------------------------------------
(* Renewal, revocation and the control sessions (AgentIdentity).            *)

AskTypes == [st: {"off", "sent", "admitted", "ok", "refused", "gone"},
             why: {"start", "reload"}, serial: 0..MaxSerial, new: 0..MaxSerial]
SessTypes == [st: {"off", "admitted", "live", "closing", "ended"}, serial: 0..MaxSerial]

\* The types, and that an answer carries a certificate.
IdentityTypeInv ==
    /\ IdentityTypeOK
    /\ \A a \in Asks : ask[a].st = "ok" => ask[a].new \in Serials

LEMMA SerialFacts ==
    /\ 1 \in Serials /\ Serials \subseteq 0..MaxSerial /\ 0 \in 0..MaxSerial
    /\ Sessions \subseteq 0..MaxSession /\ 0 \in 0..MaxSession
    /\ 0 \in 0..MaxAsk /\ Asks = (0..MaxAsk) \ {0}
  BY IdentityAssumption DEF Serials, Sessions, Asks

LEMMA IdentityTypeInit == IdentityInit => IdentityTypeInv
<1> SUFFICES ASSUME IdentityInit PROVE IdentityTypeInv
  OBVIOUS
<1>1. ask \in [Asks -> AskTypes] /\ \A a \in Asks : ask[a].st = "off"
  BY SerialFacts DEF IdentityInit, NoAsk, AskTypes
<1>2. sess \in [Sessions -> SessTypes]
  BY SerialFacts DEF IdentityInit, NoSession, SessTypes
<1> QED
  BY <1>1, <1>2, SerialFacts DEF IdentityInit, IdentityTypeInv, IdentityTypeOK, AskTypes, SessTypes

LEMMA IdentityTypeStep == IdentityTypeInv /\ [IdentityNext]_identityVars => IdentityTypeInv'
<1> SUFFICES ASSUME IdentityTypeInv, [IdentityNext]_identityVars PROVE IdentityTypeInv'
  OBVIOUS
<1> USE DEF IdentityTypeInv
<1>0. /\ ask \in [Asks -> AskTypes] /\ sess \in [Sessions -> SessTypes]
      /\ renewal \in 0..MaxAsk /\ disk \in Serials /\ issued \in Serials
      /\ row \in [serial: Serials, revoked: BOOLEAN]
      /\ client \in [control: 0..MaxSerial, report: 0..MaxSerial]
      /\ age \in [Serials -> {"fresh", "due", "expired"}]
      /\ running \in BOOLEAN /\ mine \in 0..MaxSession /\ hub \in 0..MaxSession
      /\ revoking \in {"no", "committed", "done"}
  BY DEF IdentityTypeOK, AskTypes, SessTypes
<1>1. row' \in [serial: Serials, revoked: BOOLEAN] /\ issued' \in Serials
  <2>1. ASSUME NEW a \in Asks, CommitRenewal(a)
        PROVE  row' \in [serial: Serials, revoked: BOOLEAN] /\ issued' \in Serials
    <3>1. issued + 1 \in Serials
      BY <1>0, <2>1, IdentityAssumption DEF CommitRenewal, Serials
    <3> QED
      BY <1>0, <2>1, <3>1 DEF CommitRenewal
  <2>2. CASE ~ \E a \in Asks : CommitRenewal(a)
    BY <1>0, <2>2 DEF IdentityNext, Start, Reload, Build, ReceiveCertificate, RenewalFails, AgentCrash,
       AdmitRenewal, Revoke, Disconnect, Dial, RegisterSession, Heartbeat, Drop, Leave, Age, identityVars
  <2> QED
    BY <2>1, <2>2
<1>2. age' \in [Serials -> {"fresh", "due", "expired"}]
  BY <1>0 DEF IdentityNext, Start, Reload, Build, ReceiveCertificate, RenewalFails, AgentCrash,
     AdmitRenewal, CommitRenewal, Revoke, Disconnect, Dial, RegisterSession, Heartbeat, Drop, Leave, Age, identityVars
<1>3. /\ disk' \in Serials /\ renewal' \in 0..MaxAsk /\ running' \in BOOLEAN
      /\ client' \in [control: 0..MaxSerial, report: 0..MaxSerial]
  <2>1. ASSUME NEW why \in {"start", "reload"}, Build(why)
        PROVE  /\ disk' \in Serials /\ renewal' \in 0..MaxAsk /\ running' \in BOOLEAN
               /\ client' \in [control: 0..MaxSerial, report: 0..MaxSerial]
    <3>1. CASE Built(why, disk) /\ UNCHANGED renewal
      BY <1>0, <2>1, <3>1, SerialFacts DEF Build, Built
    <3>2. CASE UNCHANGED <<running, client>>
      BY <1>0, <2>1, <3>2, SerialFacts DEF Build
    <3> QED
      BY <2>1, <3>1, <3>2 DEF Build
  <2>2. CASE ReceiveCertificate
    BY <1>0, <2>2, SerialFacts DEF ReceiveCertificate, Built
  <2>3. CASE RenewalFails \/ AgentCrash
    BY <1>0, <2>3, SerialFacts DEF RenewalFails, AgentCrash
  <2>4. CASE UNCHANGED <<disk, client, running, renewal>>
    BY <1>0, <2>4
  <2> QED
    BY <2>1, <2>2, <2>3, <2>4 DEF IdentityNext, Start, Reload, AdmitRenewal, CommitRenewal, Revoke, Disconnect,
       Dial, RegisterSession, Heartbeat, Drop, Leave, Age, identityVars, agentVars
<1>4. ask' \in [Asks -> AskTypes] /\ \A a \in Asks : ask'[a].st = "ok" => ask'[a].new \in Serials
  <2>1. CASE Start \/ Reload
    BY <1>0, <2>1, SerialFacts DEF Start, Reload, Build, AskTypes
  <2>2. CASE ReceiveCertificate
    BY <1>0, <2>2 DEF ReceiveCertificate, AskTypes
  <2>3. ASSUME NEW a \in Asks, AdmitRenewal(a)
        PROVE  ask' \in [Asks -> AskTypes] /\ \A b \in Asks : ask'[b].st = "ok" => ask'[b].new \in Serials
    BY <1>0, <2>3 DEF AdmitRenewal, AskTypes
  <2>4. ASSUME NEW a \in Asks, CommitRenewal(a)
        PROVE  ask' \in [Asks -> AskTypes] /\ \A b \in Asks : ask'[b].st = "ok" => ask'[b].new \in Serials
    <3>1. issued + 1 \in Serials
      BY <1>0, <2>4, IdentityAssumption DEF CommitRenewal, Serials
    <3> QED
      BY <1>0, <2>4, <3>1, SerialFacts DEF CommitRenewal, AskTypes
  <2>5. CASE UNCHANGED ask
    BY <1>0, <2>5
  <2> QED
    BY <2>1, <2>2, <2>3, <2>4, <2>5 DEF IdentityNext, RenewalFails, AgentCrash, Revoke, Disconnect,
       Dial, RegisterSession, Heartbeat, Drop, Leave, Age, identityVars
<1>5. sess' \in [Sessions -> SessTypes] /\ mine' \in 0..MaxSession /\ hub' \in 0..MaxSession
  <2>1. CASE Disconnect
    BY <1>0, <2>1, SerialFacts DEF Disconnect, Closing, SessTypes, agentVars
  <2>2. ASSUME NEW s \in Sessions, Dial(s)
        PROVE  sess' \in [Sessions -> SessTypes] /\ mine' \in 0..MaxSession /\ hub' \in 0..MaxSession
    BY <1>0, <2>2, SerialFacts DEF Dial, SessTypes
  <2>3. ASSUME NEW s \in Sessions, RegisterSession(s)
        PROVE  sess' \in [Sessions -> SessTypes] /\ mine' \in 0..MaxSession /\ hub' \in 0..MaxSession
    BY <1>0, <2>3, SerialFacts DEF RegisterSession, SessTypes, agentVars
  <2>4. ASSUME NEW s \in Sessions, Heartbeat(s) \/ Drop(s) \/ Leave(s)
        PROVE  sess' \in [Sessions -> SessTypes] /\ mine' \in 0..MaxSession /\ hub' \in 0..MaxSession
    BY <1>0, <2>4, SerialFacts DEF Heartbeat, Drop, Leave, Closing, SessTypes, agentVars
  <2>5. CASE AgentCrash
    BY <1>0, <2>5, SerialFacts DEF AgentCrash
  <2>6. CASE UNCHANGED <<sess, mine, hub>>
    BY <1>0, <2>6
  <2> QED
    BY <2>1, <2>2, <2>3, <2>4, <2>5, <2>6 DEF IdentityNext, Start, Reload, Build, ReceiveCertificate,
       RenewalFails, AdmitRenewal, CommitRenewal, Revoke, Age, identityVars, agentVars
<1>6. revoking' \in {"no", "committed", "done"}
  BY <1>0 DEF IdentityNext, Start, Reload, Build, ReceiveCertificate, RenewalFails, AgentCrash,
     AdmitRenewal, CommitRenewal, Revoke, Disconnect, Dial, RegisterSession, Heartbeat, Drop, Leave, Age, identityVars
<1> QED
  BY <1>1, <1>2, <1>3, <1>4, <1>5, <1>6 DEF IdentityTypeOK, AskTypes, SessTypes

\* The state of the identity keeps its type.
THEOREM IdentityTypeCorrect == IdentitySpec => []IdentityTypeInv
  BY IdentityTypeInit, IdentityTypeStep, PTL DEF IdentitySpec

-----------------------------------------------------------------------------
\* A revoked identity never gets a certificate again, however late a renewal
\* commits: the UPDATE of handleRenew names revoked_at.
THEOREM RevocationIsFinal == IdentitySpec => RevokedIsFinal
<1>1. ASSUME [IdentityNext]_identityVars, row.revoked PROVE row'.serial = row.serial
  <2>1. ASSUME NEW a \in Asks, CommitRenewal(a) PROVE row'.serial = row.serial
    BY <1>1, <2>1 DEF CommitRenewal, StillCurrent
  <2>2. CASE ~ \E a \in Asks : CommitRenewal(a)
    BY <1>1, <2>2 DEF IdentityNext, Start, Reload, Build, ReceiveCertificate, RenewalFails, AgentCrash,
       AdmitRenewal, Revoke, Disconnect, Dial, RegisterSession, Heartbeat, Drop, Leave, Age, identityVars
  <2> QED
    BY <2>1, <2>2
<1> QED
  BY <1>1, PTL DEF IdentitySpec, RevokedIsFinal

-----------------------------------------------------------------------------
LEMMA OneSessionStep ==
  IdentityTypeInv /\ OneCurrentSession /\ [IdentityNext]_identityVars => OneCurrentSession'
<1> USE DEF OneCurrentSession, Sessions
<1> SUFFICES ASSUME IdentityTypeInv, OneCurrentSession, [IdentityNext]_identityVars PROVE OneCurrentSession'
  OBVIOUS
<1>1. CASE Disconnect
  BY <1>1 DEF Disconnect, Closing, IdentityTypeInv, IdentityTypeOK, IdentityTypeOK
<1>2. ASSUME NEW s \in Sessions, Dial(s) PROVE OneCurrentSession'
  BY <1>2 DEF Dial, IdentityTypeInv, IdentityTypeOK
<1>3. ASSUME NEW s \in Sessions, RegisterSession(s) PROVE OneCurrentSession'
  BY <1>3 DEF RegisterSession, IdentityTypeInv, IdentityTypeOK
<1>4. ASSUME NEW s \in Sessions, Heartbeat(s) \/ Drop(s) PROVE OneCurrentSession'
  <2>1. sess' = Closing(s) /\ UNCHANGED hub
    BY <1>4 DEF Heartbeat, Drop
  <2> QED
    BY <2>1 DEF Closing, IdentityTypeInv, IdentityTypeOK
<1>5. ASSUME NEW s \in Sessions, Leave(s) PROVE OneCurrentSession'
  BY <1>5 DEF Leave, IdentityTypeInv, IdentityTypeOK
<1>6. CASE UNCHANGED <<sess, hub>>
  BY <1>6
<1> QED
  BY <1>1, <1>2, <1>3, <1>4, <1>5, <1>6 DEF IdentityNext, Start, Reload, Build, ReceiveCertificate,
     RenewalFails, AgentCrash, AdmitRenewal, CommitRenewal, Revoke, Age, identityVars

\* "Only one current session is allowed per Agent ID" (Hub.Register), whatever
\* sessions register, break, are refused and unregister in between.
THEOREM CurrentSessionIsOne == IdentitySpec => []OneCurrentSession
<1>1. IdentityInit => OneCurrentSession
  BY DEF IdentityInit, OneCurrentSession, NoSession, Sessions
<1> QED
  BY <1>1, OneSessionStep, IdentityTypeCorrect, PTL DEF IdentitySpec

-----------------------------------------------------------------------------
\* Access is kept because the request under way is about the certificate in the
\* file, and no other request can commit once it has been answered: those left
\* over from earlier starts name that certificate or an older one.
AccessInv ==
    /\ disk <= row.serial /\ row.serial <= issued
    /\ \A a \in Asks : ask[a].st \in {"sent", "admitted"} => ask[a].serial <= disk
    /\ renewal # 0 => /\ ask[renewal].serial = disk
                      /\ ask[renewal].st = "ok" => ask[renewal].new = row.serial /\ disk < row.serial
                      /\ ask[renewal].st # "off"
    /\ AccessIsKept

LEMMA AccessInit == IdentityInit => AccessInv
  BY IdentityAssumption DEF IdentityInit, AccessInv, AccessIsKept, NoAsk, Asks

LEMMA AccessStep == IdentityTypeInv /\ AccessInv /\ [IdentityNext]_identityVars => AccessInv'
<1> SUFFICES ASSUME IdentityTypeInv, AccessInv, [IdentityNext]_identityVars PROVE AccessInv'
  OBVIOUS
<1>0. /\ row \in [serial: Int, revoked: BOOLEAN] /\ issued \in Int /\ disk \in Int
      /\ \A a \in Asks : ask[a].serial \in Int /\ ask[a].new \in Int
      /\ ask \in [Asks -> AskTypes]
      /\ renewal # 0 => renewal \in Asks
  <2>1. Serials \subseteq Int /\ 0..MaxSerial \subseteq Int
    BY IdentityAssumption DEF Serials
  <2> QED
    BY <2>1, SerialFacts DEF IdentityTypeInv, IdentityTypeOK, AskTypes
<1> USE DEF AccessInv, AccessIsKept
<1>1. ASSUME NEW why \in {"start", "reload"}, Build(why) PROVE AccessInv'
  <2>1. CASE UNCHANGED <<renewal, ask>>
    BY <1>1, <2>1 DEF Build
  <2>2. ASSUME NEW a \in Asks, ask[a].st = "off", renewal' = a,
               ask' = [ask EXCEPT ![a] = [st |-> "sent", why |-> why, serial |-> disk, new |-> 0]]
        PROVE  AccessInv'
    <3>1. UNCHANGED <<row, issued, disk>>
      BY <1>1 DEF Build
    <3>2. /\ ask'[a].st = "sent" /\ ask'[a].serial = disk
          /\ \A b \in Asks : b # a => ask'[b] = ask[b]
      BY <1>0, <2>2
    <3> QED
      BY <1>0, <2>2, <3>1, <3>2
  <2> QED
    BY <1>1, <2>1, <2>2 DEF Build
<1>2. CASE ReceiveCertificate
  <2>1. /\ disk' = row.serial /\ renewal' = 0 /\ ask'[renewal].st = "gone"
        /\ \A b \in Asks : b # renewal => ask'[b] = ask[b]
        /\ UNCHANGED <<row, issued>>
    BY <1>0, <1>2 DEF ReceiveCertificate
  <2> QED
    BY <1>0, <1>2, <2>1 DEF ReceiveCertificate
<1>3. CASE RenewalFails \/ AgentCrash
  <2>1. renewal' = 0 /\ UNCHANGED <<row, issued, disk, ask>>
    BY <1>3 DEF RenewalFails, AgentCrash
  <2> QED
    BY <2>1
<1>4. ASSUME NEW a \in Asks, AdmitRenewal(a) PROVE AccessInv'
  <2>1. /\ ask[a].st = "sent" /\ ask'[a].st \in {"admitted", "refused"} /\ ask'[a].serial = ask[a].serial
        /\ \A b \in Asks : b # a => ask'[b] = ask[b]
        /\ UNCHANGED <<row, issued, disk, renewal>>
    BY <1>0, <1>4 DEF AdmitRenewal, agentVars, AskTypes
  <2> QED
    BY <1>0, <2>1
<1>5. ASSUME NEW a \in Asks, CommitRenewal(a) PROVE AccessInv'
  <2>0. issued' = issued + 1 /\ ask[a].st = "admitted" /\ UNCHANGED <<disk, renewal>>
    BY <1>5 DEF CommitRenewal, agentVars
  <2>1. CASE StillCurrent(ask[a].serial)
    <3>1. renewal # 0 => ask[renewal].st # "ok"
      BY <1>0, <2>0, <2>1 DEF StillCurrent
    <3>2. /\ row'.serial = issued + 1
          /\ ask'[a].st = "ok" /\ ask'[a].new = issued + 1 /\ ask'[a].serial = ask[a].serial
          /\ \A b \in Asks : b # a => ask'[b] = ask[b]
      BY <1>0, <1>5, <2>1 DEF CommitRenewal, AskTypes
    <3> QED
      BY <1>0, <2>0, <3>1, <3>2
  <2>2. CASE ~StillCurrent(ask[a].serial)
    <3>1. /\ UNCHANGED row
          /\ ask'[a].st = "refused" /\ ask'[a].serial = ask[a].serial
          /\ \A b \in Asks : b # a => ask'[b] = ask[b]
      BY <1>0, <1>5, <2>2 DEF CommitRenewal, AskTypes
    <3> QED
      BY <1>0, <2>0, <3>1
  <2> QED
    BY <2>1, <2>2
<1>6. CASE Revoke
  BY <1>0, <1>6 DEF Revoke, agentVars
<1>7. CASE UNCHANGED <<row, issued, disk, ask, renewal>>
  BY <1>7
<1> QED
  BY <1>1, <1>2, <1>3, <1>4, <1>5, <1>6, <1>7 DEF IdentityNext, Start, Reload, Disconnect, Dial, RegisterSession,
     Heartbeat, Drop, Leave, Age, identityVars, agentVars

\* However renewals, crashes, reloads and answers interleave, the one certificate
\* the Panel accepts is in the Agent's file, or in an answer the Agent did not get.
THEOREM AccessIsNeverLost == IdentitySpec => []AccessIsKept
<1>1. AccessInv => AccessIsKept
  BY DEF AccessInv
<1> QED
  BY <1>1, AccessInit, AccessStep, IdentityTypeCorrect, PTL DEF IdentitySpec

-----------------------------------------------------------------------------
(* ControlSession: what the Agent reads in a session it answers, as long as *)
(* the session is up.                                                       *)

Commanded == {About("command", c) : c \in SessionCommands}

SessionTypes ==
    /\ net \in {"ok", "cut", "broken", "closed"}
    /\ down \in Seq(DownFrames) /\ Len(down) <= LinkSize
    /\ up \in Seq(UpFrames) /\ Len(up) <= LinkSize
    /\ panelPing \in BOOLEAN /\ stopping \in BOOLEAN /\ open \in BOOLEAN /\ resolved \in BOOLEAN
    /\ sent \in 0 .. MaxCommand
    /\ mainLoop \in [pc : {"select", "lock", "write", "await", "ended"},
                     job : UpFrames \cup {Idle, Frame("close")}]
    /\ ticks \subseteq Tickers
    /\ reader \in [pc : {"read", "lock", "write", "push", "ended"}, frame : {Idle, EOF} \cup Commanded]
    /\ inbound \in Seq({EOF} \cup Commanded) /\ Len(inbound) <= 1
    /\ queue \in Seq(SessionCommands) /\ Len(queue) <= QueueSize
    /\ results \in Seq(SessionCommands) /\ Len(results) <= QueueSize
    /\ worker \in [pc : {"idle", "run", "ended"}, command : 0 .. MaxCommand]
    /\ worker.pc = "run" => worker.command \in SessionCommands
    /\ writeMu \in {"free", "loop", "reader"}

\* A goroutine holds a frame only where its code has one in hand.
HoldInv ==
    /\ (reader.pc = "push") <=> reader.frame # Idle
    /\ (mainLoop.pc \in {"select", "ended"}) <=> mainLoop.job = Idle
    /\ mainLoop.pc = "await" => mainLoop.job = Frame("ping")

\* The places of a command on its way through the session.
InDown(c) == About("command", c) \in ToSet(down)
InReader(c) == reader.frame = About("command", c)
InInbound(c) == About("command", c) \in ToSet(inbound)
InQueue(c) == c \in ToSet(queue)
InWorker(c) == worker.pc = "run" /\ worker.command = c
InResults(c) == c \in ToSet(results)
InJob(c) == mainLoop.job \in {About("result", c), About("backpressure", c)}
InUp(c) == c \in AnswerOf(up)

HeldPlaces == {"reader", "inbound", "queue", "worker", "results", "job"}

Where(c) ==
    {p \in HeldPlaces \cup {"down", "up"} :
        \/ p = "down" /\ InDown(c)
        \/ p = "reader" /\ InReader(c)
        \/ p = "inbound" /\ InInbound(c)
        \/ p = "queue" /\ InQueue(c)
        \/ p = "worker" /\ InWorker(c)
        \/ p = "results" /\ InResults(c)
        \/ p = "job" /\ InJob(c)
        \/ p = "up" /\ InUp(c)}

\* The elements of K occur at most once in a sequence.
Once(s, K) == \A i, j \in DOMAIN s : s[i] \in K /\ s[i] = s[j] => i = j

\* A command is in one place, and only after it was sent.
PlaceInv == \A c \in SessionCommands :
    /\ \A p, q \in Where(c) : p = q
    /\ c > sent => Where(c) = {}

OnceInv == Once(down, Commanded) /\ Once(queue, SessionCommands) /\ Once(results, SessionCommands)

SessionInv == SessionTypes /\ HoldInv /\ PlaceInv /\ OnceInv

\* What TakenIsAnswered says of a step.
KeepsHeld ==
    \A c \in Held : mainLoop'.pc # "ended" /\ open' /\ ~stopping =>
        c \in Held' \/ c \in AnswerOf(up') \ AnswerOf(up)

-----------------------------------------------------------------------------
\* Sequences.
LEMMA AppendOnce ==
    ASSUME NEW S, NEW s \in Seq(S), NEW e \in S, NEW K
    PROVE  /\ Append(s, e) \in Seq(S) /\ Len(Append(s, e)) = Len(s) + 1
           /\ \A x : x \in ToSet(Append(s, e)) <=> x \in ToSet(s) \/ x = e
           /\ Once(s, K) /\ (e \in K => e \notin ToSet(s)) => Once(Append(s, e), K)
  <1>1. Append(s, e) \in Seq(S) /\ Len(Append(s, e)) = Len(s) + 1
    OBVIOUS
  <1>2. \A i \in 1 .. Len(s) : Append(s, e)[i] = s[i]
    OBVIOUS
  <1>3. Append(s, e)[Len(s) + 1] = e
    OBVIOUS
  <1>4. DOMAIN s = 1 .. Len(s) /\ DOMAIN Append(s, e) = 1 .. (Len(s) + 1) /\ Len(s) \in Nat
    OBVIOUS
  <1>5. ASSUME NEW x PROVE x \in ToSet(Append(s, e)) <=> x \in ToSet(s) \/ x = e
    <2>1. ASSUME x \in ToSet(Append(s, e)) PROVE x \in ToSet(s) \/ x = e
      <3>1. PICK i \in 1 .. (Len(s) + 1) : x = Append(s, e)[i]
        BY <1>4, <2>1 DEF ToSet
      <3>2. i = Len(s) + 1 \/ i \in 1 .. Len(s)
        BY <1>4
      <3> QED BY <1>2, <1>3, <1>4, <3>1, <3>2 DEF ToSet
    <2>2. ASSUME x \in ToSet(s) PROVE x \in ToSet(Append(s, e))
      <3>1. PICK i \in 1 .. Len(s) : x = s[i]
        BY <1>4, <2>2 DEF ToSet
      <3>2. i \in 1 .. (Len(s) + 1)
        BY <1>4
      <3> QED BY <1>2, <1>4, <3>1, <3>2 DEF ToSet
    <2>3. e \in ToSet(Append(s, e))
      <3>1. Len(s) + 1 \in 1 .. (Len(s) + 1)
        BY <1>4
      <3> QED BY <1>3, <1>4, <3>1 DEF ToSet
    <2> QED BY <2>1, <2>2, <2>3
  <1>6. ASSUME Once(s, K), e \in K => e \notin ToSet(s),
               NEW i \in 1 .. (Len(s) + 1), NEW j \in 1 .. (Len(s) + 1),
               Append(s, e)[i] \in K, Append(s, e)[i] = Append(s, e)[j]
        PROVE  i = j
    <2>1. (i = Len(s) + 1 \/ i \in 1 .. Len(s)) /\ (j = Len(s) + 1 \/ j \in 1 .. Len(s))
      BY <1>4
    <2>2. \A k \in 1 .. Len(s) : s[k] \in ToSet(s)
      BY <1>4 DEF ToSet
    <2>3. CASE i \in 1 .. Len(s) /\ j \in 1 .. Len(s)
      BY <1>2, <1>4, <1>6, <2>3 DEF Once
    <2>4. CASE i = Len(s) + 1 /\ j \in 1 .. Len(s)
      BY <1>2, <1>3, <1>6, <2>2, <2>4
    <2>5. CASE j = Len(s) + 1 /\ i \in 1 .. Len(s)
      BY <1>2, <1>3, <1>6, <2>2, <2>5
    <2> QED BY <2>1, <2>3, <2>4, <2>5
  <1>7. Once(s, K) /\ (e \in K => e \notin ToSet(s)) => Once(Append(s, e), K)
    BY <1>4, <1>6 DEF Once
  <1> QED BY <1>1, <1>5, <1>7

LEMMA TailOnce ==
    ASSUME NEW S, NEW s \in Seq(S), s # <<>>, NEW K
    PROVE  /\ Tail(s) \in Seq(S) /\ Len(Tail(s)) = Len(s) - 1 /\ Len(s) \in Nat \ {0}
           /\ Head(s) \in S
           /\ \A x : x \in ToSet(s) <=> x \in ToSet(Tail(s)) \/ x = Head(s)
           /\ Once(s, K) => Once(Tail(s), K) /\ (Head(s) \in K => Head(s) \notin ToSet(Tail(s)))
  <1>1. Tail(s) \in Seq(S) /\ Len(Tail(s)) = Len(s) - 1 /\ Len(s) \in Nat \ {0} /\ Head(s) \in S
    OBVIOUS
  <1>2. DOMAIN s = 1 .. Len(s) /\ DOMAIN Tail(s) = 1 .. (Len(s) - 1) /\ Head(s) = s[1]
    BY <1>1
  <1>3. \A i \in 1 .. (Len(s) - 1) : Tail(s)[i] = s[i + 1] /\ i + 1 \in 1 .. Len(s)
    BY <1>1
  <1>4. 1 \in 1 .. Len(s) /\ \A i \in 1 .. Len(s) : i = 1 \/ (i - 1 \in 1 .. (Len(s) - 1) /\ (i - 1) + 1 = i)
    BY <1>1
  <1>5. ASSUME NEW x PROVE x \in ToSet(s) <=> x \in ToSet(Tail(s)) \/ x = Head(s)
    <2>1. ASSUME x \in ToSet(s) PROVE x \in ToSet(Tail(s)) \/ x = Head(s)
      <3>1. PICK i \in 1 .. Len(s) : x = s[i]
        BY <1>2, <2>1 DEF ToSet
      <3>2. CASE i = 1
        BY <1>2, <3>1, <3>2
      <3>3. CASE i - 1 \in 1 .. (Len(s) - 1) /\ (i - 1) + 1 = i
        <4>1. Tail(s)[i - 1] = s[i]
          BY <1>3, <3>3
        <4> QED BY <1>2, <3>1, <3>3, <4>1 DEF ToSet
      <3> QED BY <1>4, <3>2, <3>3
    <2>2. ASSUME x \in ToSet(Tail(s)) PROVE x \in ToSet(s)
      <3>1. PICK i \in 1 .. (Len(s) - 1) : x = Tail(s)[i]
        BY <1>2, <2>2 DEF ToSet
      <3> QED BY <1>2, <1>3, <3>1 DEF ToSet
    <2>3. Head(s) \in ToSet(s)
      BY <1>2, <1>4 DEF ToSet
    <2> QED BY <2>1, <2>2, <2>3
  <1>6. Once(s, K) => Once(Tail(s), K)
    <2> SUFFICES ASSUME Once(s, K), NEW i \in 1 .. (Len(s) - 1), NEW j \in 1 .. (Len(s) - 1),
                        Tail(s)[i] \in K, Tail(s)[i] = Tail(s)[j]
                 PROVE  i = j
      BY <1>2 DEF Once
    <2>1. i + 1 = j + 1
      BY <1>2, <1>3 DEF Once
    <2> QED BY <2>1
  <1>7. ASSUME Once(s, K), Head(s) \in K PROVE Head(s) \notin ToSet(Tail(s))
    <2> SUFFICES ASSUME NEW i \in 1 .. (Len(s) - 1), Head(s) = Tail(s)[i] PROVE FALSE
      BY <1>2 DEF ToSet
    <2>1. s[1] \in K /\ s[1] = s[i + 1]
      BY <1>2, <1>3, <1>7
    <2>2. 1 = i + 1
      BY <1>2, <1>3, <1>4, <1>7, <2>1 DEF Once
    <2> QED BY <2>2
  <1> QED BY <1>1, <1>5, <1>6, <1>7

LEMMA PrefixOnce ==
    ASSUME NEW S, NEW s \in Seq(S), NEW k \in 0 .. Len(s), NEW K
    PROVE  /\ SubSeq(s, 1, k) \in Seq(S) /\ Len(SubSeq(s, 1, k)) <= Len(s)
           /\ ToSet(SubSeq(s, 1, k)) \subseteq ToSet(s)
           /\ Once(s, K) => Once(SubSeq(s, 1, k), K)
  <1>0. Len(s) \in Nat /\ DOMAIN s = 1 .. Len(s) /\ k \in Nat /\ k <= Len(s)
    OBVIOUS
  <1>1. SubSeq(s, 1, k) \in Seq(S) /\ Len(SubSeq(s, 1, k)) = k
    BY <1>0
  <1>2. DOMAIN SubSeq(s, 1, k) = 1 .. k
    BY <1>1
  <1>3. \A i \in 1 .. k : SubSeq(s, 1, k)[i] = s[i] /\ i \in 1 .. Len(s)
    BY <1>0
  <1>4. ToSet(SubSeq(s, 1, k)) \subseteq ToSet(s)
    BY <1>0, <1>2, <1>3 DEF ToSet
  <1>5. Once(s, K) => Once(SubSeq(s, 1, k), K)
    BY <1>0, <1>2, <1>3 DEF Once
  <1> QED BY <1>0, <1>1, <1>4, <1>5

LEMMA EmptyOnce ==
    ASSUME NEW S, NEW K PROVE <<>> \in Seq(S) /\ Len(<<>>) = 0 /\ ToSet(<<>>) = {} /\ Once(<<>>, K)
  BY DEF ToSet, Once

-----------------------------------------------------------------------------
\* Frames.
LEMMA FrameFacts ==
    /\ \A c \in SessionCommands :
          /\ c \in Nat \ {0} /\ c \in 0 .. MaxCommand
          /\ About("command", c) \in Commanded /\ About("command", c) \in DownFrames
          /\ About("command", c).kind = "command" /\ About("command", c).command = c
          /\ About("command", c) # Idle /\ About("command", c) # EOF
          /\ \A k \in {"result", "backpressure"} :
                About(k, c) \in UpFrames /\ About(k, c) \in Answers /\ About(k, c).command = c
                /\ About(k, c).kind = k
    /\ \A c, d : About("command", c) = About("command", d) => c = d
    /\ \A f \in Answers : f.command \in SessionCommands /\ f.kind \in {"result", "backpressure"}
                          /\ f = About(f.kind, f.command)
    /\ \A k : Frame(k).kind = k
    /\ \A k \in {"heartbeat", "ping", "pong", "close", "none", "error"} : Frame(k) \notin Answers /\ Frame(k) \notin Commanded
    /\ Frame("heartbeat") \in UpFrames /\ Frame("ping") \in UpFrames /\ Frame("pong") \in UpFrames
    /\ Frame("ping") \in DownFrames /\ Frame("pong") \in DownFrames
    /\ Idle = Frame("none") /\ EOF = Frame("error") /\ Idle # EOF
  <1>1. \A c \in SessionCommands : c \in Nat \ {0} /\ c \in 0 .. MaxCommand
    BY SessionAssumption DEF SessionCommands
  <1>2. ASSUME NEW c \in SessionCommands
        PROVE  /\ About("command", c) \in Commanded /\ About("command", c) \in DownFrames
               /\ About("command", c).kind = "command" /\ About("command", c).command = c
               /\ About("command", c) # Idle /\ About("command", c) # EOF
    BY DEF About, Commanded, DownFrames, Idle, EOF, Frame
  <1>3. ASSUME NEW c \in SessionCommands, NEW k \in {"result", "backpressure"}
        PROVE  About(k, c) \in UpFrames /\ About(k, c) \in Answers /\ About(k, c).command = c /\ About(k, c).kind = k
    BY DEF About, UpFrames, Answers
  <1>4. \A c, d : About("command", c) = About("command", d) => c = d
    BY DEF About
  <1>5. \A f \in Answers : f.command \in SessionCommands /\ f.kind \in {"result", "backpressure"}
                           /\ f = About(f.kind, f.command)
    BY DEF Answers, About
  <1>6. \A k : Frame(k).kind = k
    BY DEF Frame
  <1>7. ASSUME NEW k \in {"heartbeat", "ping", "pong", "close", "none", "error"}
        PROVE  Frame(k) \notin Answers /\ Frame(k) \notin Commanded
    <2>1. Frame(k).command = 0
      BY DEF Frame
    <2>2. \A f \in Commanded : f.command \in SessionCommands
      BY DEF Commanded, About
    <2> QED BY <1>1, <1>5, <2>1, <2>2
  <1>8. /\ Frame("heartbeat") \in UpFrames /\ Frame("ping") \in UpFrames /\ Frame("pong") \in UpFrames
        /\ Frame("ping") \in DownFrames /\ Frame("pong") \in DownFrames
    BY DEF UpFrames, DownFrames
  <1>9. Idle = Frame("none") /\ EOF = Frame("error") /\ Idle # EOF
    BY DEF Idle, EOF, Frame
  <1> QED BY <1>1, <1>2, <1>3, <1>4, <1>5, <1>6, <1>7, <1>8, <1>9

\* A place that is left alone.
LEMMA InSame ==
    /\ down' = down => \A c : InDown(c)' <=> InDown(c)
    /\ reader'.frame = reader.frame => \A c : InReader(c)' <=> InReader(c)
    /\ inbound' = inbound => \A c : InInbound(c)' <=> InInbound(c)
    /\ queue' = queue => \A c : InQueue(c)' <=> InQueue(c)
    /\ worker' = worker => \A c : InWorker(c)' <=> InWorker(c)
    /\ results' = results => \A c : InResults(c)' <=> InResults(c)
    /\ mainLoop'.job = mainLoop.job => \A c : InJob(c)' <=> InJob(c)
    /\ up' = up => \A c : InUp(c)' <=> InUp(c)
  BY DEF InDown, InReader, InInbound, InQueue, InWorker, InResults, InJob, InUp, AnswerOf

\* A place that holds no command.
LEMMA InNone ==
    /\ down' = <<>> => \A c : ~InDown(c)'
    /\ reader'.frame \in {Idle, EOF} => \A c \in SessionCommands : ~InReader(c)'
    /\ inbound' = <<>> => \A c : ~InInbound(c)'
    /\ worker'.pc # "run" => \A c : ~InWorker(c)'
    /\ mainLoop'.job \notin Answers => \A c \in SessionCommands : ~InJob(c)'
    /\ up' = <<>> => \A c : ~InUp(c)'
  <1>1. ToSet(<<>>) = {}
    BY DEF ToSet
  <1>2. down' = <<>> => \A c : ~InDown(c)'
    BY <1>1 DEF InDown
  <1>3. inbound' = <<>> => \A c : ~InInbound(c)'
    BY <1>1 DEF InInbound
  <1>4. up' = <<>> => \A c : ~InUp(c)'
    BY <1>1 DEF InUp, AnswerOf
  <1>5. reader'.frame \in {Idle, EOF} => \A c \in SessionCommands : ~InReader(c)'
    BY FrameFacts DEF InReader
  <1>6. worker'.pc # "run" => \A c : ~InWorker(c)'
    BY DEF InWorker
  <1>7. mainLoop'.job \notin Answers => \A c \in SessionCommands : ~InJob(c)'
    BY FrameFacts DEF InJob
  <1> QED BY <1>2, <1>3, <1>4, <1>5, <1>6, <1>7

\* The same now.
LEMMA InNoneNow ==
    /\ reader.frame \in {Idle, EOF} => \A c \in SessionCommands : ~InReader(c)
    /\ mainLoop.job \notin Answers => \A c \in SessionCommands : ~InJob(c)
    /\ worker.pc # "run" => \A c : ~InWorker(c)
    /\ inbound = <<>> => \A c : ~InInbound(c)
  <1>1. ToSet(<<>>) = {}
    BY DEF ToSet
  <1> QED BY <1>1, FrameFacts DEF InReader, InJob, InWorker, InInbound

-----------------------------------------------------------------------------
\* The ways in which a step can move commands.
Drops == \A c \in SessionCommands : Where(c)' \subseteq Where(c) /\ Where(c) \cap HeldPlaces \subseteq Where(c)'
Fades == \A c \in SessionCommands : Where(c)' \subseteq Where(c)
Moves(d, p, q) ==
    /\ p \in Where(d) /\ q \in Where(d)' /\ Where(d)' \subseteq (Where(d) \ {p}) \cup {q}
    /\ \A c \in SessionCommands : c # d => Where(c)' = Where(c)

LEMMA WhereNow ==
    ASSUME NEW c
    PROVE  /\ "down" \in Where(c) <=> InDown(c)
           /\ "reader" \in Where(c) <=> InReader(c)
           /\ "inbound" \in Where(c) <=> InInbound(c)
           /\ "queue" \in Where(c) <=> InQueue(c)
           /\ "worker" \in Where(c) <=> InWorker(c)
           /\ "results" \in Where(c) <=> InResults(c)
           /\ "job" \in Where(c) <=> InJob(c)
           /\ "up" \in Where(c) <=> InUp(c)
           /\ Where(c) \subseteq HeldPlaces \cup {"down", "up"}
  BY DEF Where, HeldPlaces

LEMMA WhereNext ==
    ASSUME NEW c
    PROVE  /\ "down" \in Where(c)' <=> InDown(c)'
           /\ "reader" \in Where(c)' <=> InReader(c)'
           /\ "inbound" \in Where(c)' <=> InInbound(c)'
           /\ "queue" \in Where(c)' <=> InQueue(c)'
           /\ "worker" \in Where(c)' <=> InWorker(c)'
           /\ "results" \in Where(c)' <=> InResults(c)'
           /\ "job" \in Where(c)' <=> InJob(c)'
           /\ "up" \in Where(c)' <=> InUp(c)'
           /\ Where(c)' \subseteq HeldPlaces \cup {"down", "up"}
  BY DEF Where, HeldPlaces

LEMMA HeldIs ==
    ASSUME NEW c \in SessionCommands
    PROVE  /\ c \in Held <=> Where(c) \cap HeldPlaces # {}
           /\ c \in Held' <=> Where(c)' \cap HeldPlaces # {}
  <1>1. c \in Held <=> InReader(c) \/ InInbound(c) \/ InQueue(c) \/ InResults(c) \/ InWorker(c) \/ InJob(c)
    BY DEF Held, InReader, InInbound, InQueue, InResults, InWorker, InJob
  <1>2. c \in Held' <=> (InReader(c) \/ InInbound(c) \/ InQueue(c) \/ InResults(c) \/ InWorker(c) \/ InJob(c))'
    BY DEF Held, InReader, InInbound, InQueue, InResults, InWorker, InJob
  <1>3. Where(c) \cap HeldPlaces # {} <=>
           "reader" \in Where(c) \/ "inbound" \in Where(c) \/ "queue" \in Where(c) \/ "results" \in Where(c)
           \/ "worker" \in Where(c) \/ "job" \in Where(c)
    BY DEF HeldPlaces
  <1>4. Where(c)' \cap HeldPlaces # {} <=>
           "reader" \in Where(c)' \/ "inbound" \in Where(c)' \/ "queue" \in Where(c)' \/ "results" \in Where(c)'
           \/ "worker" \in Where(c)' \/ "job" \in Where(c)'
    BY DEF HeldPlaces
  <1> QED BY <1>1, <1>2, <1>3, <1>4, WhereNow, WhereNext

\* Every command stays where it is, or goes.
LEMMA FadesPlaced == ASSUME PlaceInv, sent' = sent, Fades PROVE PlaceInv'
  BY DEF PlaceInv, Fades

LEMMA MovesPlaced ==
    ASSUME PlaceInv, sent' = sent, NEW d \in SessionCommands, NEW p, NEW q, Moves(d, p, q) PROVE PlaceInv'
  <1>1. Where(d) = {p} /\ ~(d > sent)
    BY DEF PlaceInv, Moves
  <1>2. Where(d)' = {q}
    BY <1>1 DEF Moves
  <1>3. \A c \in SessionCommands : c # d => Where(c)' = Where(c)
    BY DEF Moves
  <1> QED BY <1>1, <1>2, <1>3 DEF PlaceInv

LEMMA DropsKept == ASSUME Drops PROVE KeepsHeld
  <1> SUFFICES ASSUME NEW c \in SessionCommands, c \in Held PROVE c \in Held'
    BY DEF KeepsHeld, Held
  <1> QED BY HeldIs DEF Drops

LEMMA MovesKept ==
    ASSUME PlaceInv, NEW d \in SessionCommands, NEW p, NEW q \in HeldPlaces \cup {"up"}, p # "up", Moves(d, p, q)
    PROVE  KeepsHeld
  <1>1. ASSUME NEW c \in SessionCommands, c # d, c \in Held PROVE c \in Held'
    BY <1>1, HeldIs DEF Moves
  <1>2. CASE q \in HeldPlaces
    <2>1. d \in Held'
      BY <1>2, HeldIs DEF Moves
    <2> QED BY <1>1, <2>1 DEF KeepsHeld, Held
  <1>3. CASE q = "up"
    <2>1. Where(d) = {p}
      BY DEF PlaceInv, Moves
    <2>2. ~InUp(d)
      BY <2>1, WhereNow
    <2>3. InUp(d)'
      BY <1>3, WhereNext DEF Moves
    <2>4. d \in AnswerOf(up') \ AnswerOf(up)
      BY <2>2, <2>3 DEF InUp, AnswerOf
    <2> QED BY <1>1, <2>4 DEF KeepsHeld, Held
  <1> QED BY <1>2, <1>3

-----------------------------------------------------------------------------
Carried == PlaceInv' /\ OnceInv' /\ KeepsHeld

LEMMA StillIs ==
    ASSUME NEW c, InDown(c)' <=> InDown(c), InReader(c)' <=> InReader(c), InInbound(c)' <=> InInbound(c),
           InQueue(c)' <=> InQueue(c), InWorker(c)' <=> InWorker(c), InResults(c)' <=> InResults(c),
           InJob(c)' <=> InJob(c), InUp(c)' <=> InUp(c)
    PROVE  Where(c)' = Where(c)
  BY WhereNow, WhereNext DEF HeldPlaces

LEMMA FadesIs ==
    ASSUME NEW c, InDown(c)' => InDown(c), InReader(c)' => InReader(c), InInbound(c)' => InInbound(c),
           InQueue(c)' => InQueue(c), InWorker(c)' => InWorker(c), InResults(c)' => InResults(c),
           InJob(c)' => InJob(c), InUp(c)' => InUp(c)
    PROVE  Where(c)' \subseteq Where(c)
  BY WhereNow, WhereNext DEF HeldPlaces

\* Nothing moves but frames that are not about commands.
LEMMA StillCarried ==
    ASSUME SessionInv, sent' = sent, UNCHANGED <<queue, worker, results>>,
           \A c \in SessionCommands : (InDown(c)' <=> InDown(c)) /\ (InReader(c)' <=> InReader(c))
                                      /\ (InInbound(c)' <=> InInbound(c))
                                      /\ (InJob(c)' <=> InJob(c)) /\ (InUp(c)' <=> InUp(c)),
           Once(down', Commanded)
    PROVE  Carried
  <1>1. \A c \in SessionCommands : Where(c)' = Where(c)
    BY StillIs, InSame
  <1>2. PlaceInv'
    BY <1>1, FadesPlaced DEF SessionInv, Fades
  <1>3. KeepsHeld
    BY <1>1, DropsKept DEF Drops
  <1>4. OnceInv'
    BY DEF OnceInv, SessionInv
  <1> QED BY <1>2, <1>3, <1>4 DEF Carried

\* The session ends or is closed, and with it what was on the connection.
LEMMA EndsCarried ==
    ASSUME SessionInv, down' = <<>>, up' = <<>>, UNCHANGED <<sent, reader, queue, worker, results>>,
           inbound' \in {inbound, <<>>}, mainLoop'.job \in {mainLoop.job, Idle},
           mainLoop'.pc = "ended" \/ ~open'
    PROVE  Carried
  <1>0. \A c \in SessionCommands :
           /\ ~InDown(c)' /\ ~InUp(c)'
           /\ (InInbound(c)' => InInbound(c)) /\ (InJob(c)' => InJob(c))
    <2>1. mainLoop'.job = Idle => \A c \in SessionCommands : ~InJob(c)'
      BY InNone, FrameFacts
    <2> QED BY <2>1, InSame, InNone
  <1>1. Fades
    BY <1>0, FadesIs, InSame DEF Fades
  <1>2. KeepsHeld
    BY DEF KeepsHeld
  <1>3. OnceInv'
    BY EmptyOnce DEF OnceInv, SessionInv
  <1> QED BY <1>1, <1>2, <1>3, FadesPlaced DEF Carried, SessionInv

\* A goroutine drops the command it has, as the session ends.
LEMMA DroppedCarried ==
    ASSUME SessionInv, UNCHANGED <<sent, down, up, mainLoop, inbound, queue, results>>,
           SessionDone, reader' = reader \/ reader'.frame = Idle, worker' = worker \/ worker'.pc = "ended"
    PROVE  Carried
  <1>0. \A c \in SessionCommands : (InReader(c)' => InReader(c)) /\ (InWorker(c)' => InWorker(c))
    BY InSame, InNone
  <1>1. Fades
    BY <1>0, FadesIs, InSame DEF Fades
  <1>2. KeepsHeld
    BY DEF KeepsHeld, SessionDone
  <1>3. OnceInv'
    BY DEF OnceInv, SessionInv
  <1> QED BY <1>1, <1>2, <1>3, FadesPlaced DEF Carried, SessionInv

\* A frame that is written.
LEMMA UpAppends ==
    ASSUME SessionInv, NEW f \in UpFrames, up' = Append(up, f), NEW c \in SessionCommands
    PROVE  InUp(c)' <=> InUp(c) \/ (f \in Answers /\ f.command = c)
  <1>1. up \in Seq(UpFrames)
    BY DEF SessionInv, SessionTypes
  <1>2. \A x : x \in ToSet(up') <=> x \in ToSet(up) \/ x = f
    BY <1>1, AppendOnce
  <1> QED BY <1>2 DEF InUp, AnswerOf

LEMMA DownAppends ==
    ASSUME SessionInv, NEW f \in DownFrames, down' = Append(down, f)
    PROVE  /\ \A c \in SessionCommands : InDown(c)' <=> InDown(c) \/ f = About("command", c)
           /\ (f \in Commanded => f \notin ToSet(down)) => Once(down', Commanded)
  <1>1. down \in Seq(DownFrames) /\ Once(down, Commanded)
    BY DEF SessionInv, SessionTypes, OnceInv
  <1>2. \A x : x \in ToSet(down') <=> x \in ToSet(down) \/ x = f
    BY <1>1, AppendOnce
  <1>3. (f \in Commanded => f \notin ToSet(down)) => Once(down', Commanded)
    BY <1>1, AppendOnce
  <1> QED BY <1>2, <1>3 DEF InDown

LEMMA DownTail ==
    ASSUME SessionInv, down # <<>>, down' = Tail(down)
    PROVE  /\ Head(down) \in DownFrames
           /\ \A c \in SessionCommands :
                 /\ InDown(c) <=> InDown(c)' \/ Head(down) = About("command", c)
                 /\ Head(down) = About("command", c) => ~InDown(c)'
           /\ Once(down', Commanded)
  <1>1. down \in Seq(DownFrames) /\ Once(down, Commanded)
    BY DEF SessionInv, SessionTypes, OnceInv
  <1>2. /\ Head(down) \in DownFrames
        /\ \A x : x \in ToSet(down) <=> x \in ToSet(down') \/ x = Head(down)
        /\ Once(down', Commanded) /\ (Head(down) \in Commanded => Head(down) \notin ToSet(down'))
    BY <1>1, TailOnce
  <1> QED BY <1>2, FrameFacts DEF InDown

-----------------------------------------------------------------------------
(* The steps of the loop *)

LEMMA LoopStill ==
    ASSUME SessionInv, SelectStop \/ (\E kind \in Tickers : SelectTick(kind)) \/ LoopLocks \/ Ponged
    PROVE  Carried
  <1>1. UNCHANGED <<netVars, inbound, reader, workVars>>
    BY DEF SelectStop, SelectTick, LoopLocks, Ponged
  <1>2. \/ mainLoop'.job = mainLoop.job
        \/ mainLoop'.job \notin Answers /\ mainLoop.job \notin Answers
    <2>0. mainLoop \in [pc : {"select", "lock", "write", "await", "ended"},
                        job : UpFrames \cup {Idle, Frame("close")}]
      BY DEF SessionInv, SessionTypes
    <2>1. CASE SelectStop \/ \E kind \in Tickers : SelectTick(kind)
      <3>1. mainLoop.job = Idle
        BY <2>1 DEF SelectStop, SelectTick, SessionInv, HoldInv
      <3>2. mainLoop'.job \in {Frame("close"), Frame("heartbeat"), Frame("ping")}
        BY <2>1, SessionAssumption DEF SelectStop, SelectTick, LoopWrites
      <3> QED BY <3>1, <3>2, FrameFacts
    <2>2. CASE LoopLocks
      BY <2>0, <2>2 DEF LoopLocks
    <2>3. CASE Ponged
      <3>1. mainLoop.job = Frame("ping") /\ mainLoop'.job = Idle
        BY <2>3 DEF Ponged, SessionInv, HoldInv
      <3> QED BY <3>1, FrameFacts
    <2> QED BY <2>1, <2>2, <2>3
  <1>3. \A c \in SessionCommands : InJob(c)' <=> InJob(c)
    BY <1>2, InSame, InNone, InNoneNow
  <1> QED BY <1>1, <1>3, InSame, StillCarried DEF netVars, link, workVars, SessionInv, OnceInv

LEMMA SelectResultCarried == ASSUME SessionInv, SelectResult PROVE Carried
  <1>d. PICK d \in SessionCommands : d = Head(results)
    BY TailOnce DEF SelectResult, SessionInv, SessionTypes
  <1>0. /\ results \in Seq(SessionCommands) /\ Once(results, SessionCommands) /\ results # <<>>
        /\ mainLoop.job = Idle /\ results' = Tail(results) /\ mainLoop'.job = About("result", d)
        /\ UNCHANGED <<sent, down, up, reader, inbound, queue, worker>>
    BY <1>d DEF SessionInv, SessionTypes, HoldInv, OnceInv, SelectResult, LoopWrites, netVars, link
  <1>1. /\ d \in SessionCommands /\ d \notin ToSet(results') /\ Once(results', SessionCommands)
        /\ \A x : x \in ToSet(results) <=> x \in ToSet(results') \/ x = d
    BY <1>0, <1>d, TailOnce
  <1>2. \A c \in SessionCommands : ~InJob(c) /\ (InJob(c)' <=> c = d)
    <2>1. \A c \in SessionCommands : ~InJob(c)
      BY <1>0, FrameFacts, InNoneNow
    <2>2. \A c \in SessionCommands : InJob(c)' <=> c = d
      BY <1>0, <1>1 DEF InJob, About
    <2> QED BY <2>1, <2>2
  <1>3. \A c \in SessionCommands : (InResults(c) <=> InResults(c)' \/ c = d) /\ ~InResults(d)'
    BY <1>1 DEF InResults
  <1>4. \A c \in SessionCommands : c # d => Where(c)' = Where(c)
    BY <1>0, <1>2, <1>3, InSame, StillIs
  <1>5. Where(d)' \subseteq (Where(d) \ {"results"}) \cup {"job"}
    BY <1>0, <1>1, <1>2, <1>3, InSame, WhereNow, WhereNext DEF HeldPlaces
  <1>6. Moves(d, "results", "job")
    BY <1>1, <1>2, <1>3, <1>4, <1>5, WhereNow, WhereNext DEF Moves
  <1>7. OnceInv'
    BY <1>0, <1>1 DEF SessionInv, OnceInv
  <1> QED BY <1>0, <1>1, <1>6, <1>7, MovesPlaced, MovesKept DEF Carried, SessionInv, HeldPlaces

LEMMA SelectInboundCarried == ASSUME SessionInv, SelectInbound PROVE Carried
  <1>0. /\ inbound \in Seq({EOF} \cup Commanded) /\ Len(inbound) <= 1 /\ inbound # <<>>
        /\ queue \in Seq(SessionCommands) /\ Once(queue, SessionCommands)
        /\ mainLoop.job = Idle /\ inbound' = <<>>
        /\ UNCHANGED <<sent, reader, worker, results>>
    BY DEF SessionInv, SessionTypes, HoldInv, OnceInv, SelectInbound
  <1>1. /\ Head(inbound) \in {EOF} \cup Commanded
        /\ \A x : x \in ToSet(inbound) <=> x = Head(inbound)
    <2>1. /\ Head(inbound) \in {EOF} \cup Commanded
          /\ \A x : x \in ToSet(inbound) <=> x \in ToSet(Tail(inbound)) \/ x = Head(inbound)
          /\ Tail(inbound) \in Seq({EOF} \cup Commanded) /\ Len(Tail(inbound)) = Len(inbound) - 1
          /\ Len(inbound) \in Nat \ {0}
      BY <1>0, TailOnce
    <2>2. DOMAIN Tail(inbound) = {}
      <3>1. DOMAIN Tail(inbound) = 1 .. 0
        BY <1>0, <2>1
      <3> QED BY <3>1
    <2>3. ToSet(Tail(inbound)) = {}
      BY <2>2 DEF ToSet
    <2> QED BY <2>1, <2>3
  <1>2. CASE Head(inbound) = EOF
    BY <1>0, <1>2, EndsCarried DEF SelectInbound, LoopEnds, CloseNow
  <1>3. ASSUME Head(inbound) # EOF PROVE Carried
    <2>1. PICK d \in SessionCommands : Head(inbound) = About("command", d)
      BY <1>1, <1>3 DEF Commanded
    <2>2. Head(inbound).command = d
      BY <2>1, FrameFacts
    <2>3. \A c \in SessionCommands : (InInbound(c) <=> c = d) /\ ~InInbound(c)'
      BY <1>0, <1>1, <2>1, FrameFacts, InNone DEF InInbound
    <2>4. UNCHANGED <<down, up>>
      BY <1>3 DEF SelectInbound, link
    <2>5. d \notin ToSet(queue) /\ ~InJob(d)
      <3>1. "inbound" \in Where(d)
        BY <2>3, WhereNow
      <3>2. "queue" \notin Where(d) /\ "job" \notin Where(d)
        BY <3>1 DEF SessionInv, PlaceInv
      <3> QED BY <3>2, WhereNow DEF InQueue
    <2>6. CASE queue' = Append(queue, d) /\ mainLoop' = mainLoop
      <3>1. /\ \A c \in SessionCommands : InQueue(c)' <=> InQueue(c) \/ c = d
            /\ Once(queue', SessionCommands)
        BY <1>0, <2>5, <2>6, AppendOnce DEF InQueue
      <3>2. \A c \in SessionCommands : c # d => Where(c)' = Where(c)
        BY <1>0, <2>3, <2>4, <2>6, <3>1, InSame, StillIs
      <3>3. Where(d)' \subseteq (Where(d) \ {"inbound"}) \cup {"queue"}
        BY <1>0, <2>3, <2>4, <2>6, <3>1, InSame, WhereNow, WhereNext DEF HeldPlaces
      <3>4. Moves(d, "inbound", "queue")
        BY <2>3, <3>1, <3>2, <3>3, WhereNow, WhereNext DEF Moves
      <3>5. OnceInv'
        BY <1>0, <2>4, <3>1 DEF SessionInv, OnceInv
      <3> QED BY <1>0, <3>4, <3>5, MovesPlaced, MovesKept DEF Carried, SessionInv, HeldPlaces
    <2>7. CASE queue' = queue /\ mainLoop'.job = About("backpressure", d)
      <3>1. \A c \in SessionCommands : (InJob(c)' <=> c = d) /\ ~InJob(c)
        <4>1. \A c \in SessionCommands : ~InJob(c)
          BY <1>0, FrameFacts, InNoneNow
        <4>2. \A c \in SessionCommands : InJob(c)' <=> c = d
          BY <2>7 DEF InJob, About
        <4> QED BY <4>1, <4>2
      <3>2. \A c \in SessionCommands : c # d => Where(c)' = Where(c)
        BY <1>0, <2>3, <2>4, <2>7, <3>1, InSame, StillIs
      <3>3. Where(d)' \subseteq (Where(d) \ {"inbound"}) \cup {"job"}
        BY <1>0, <2>3, <2>4, <2>7, <3>1, InSame, WhereNow, WhereNext DEF HeldPlaces
      <3>4. Moves(d, "inbound", "job")
        BY <2>3, <3>1, <3>2, <3>3, WhereNow, WhereNext DEF Moves
      <3>5. OnceInv'
        BY <1>0, <2>4, <2>7 DEF SessionInv, OnceInv
      <3> QED BY <1>0, <3>4, <3>5, MovesPlaced, MovesKept DEF Carried, SessionInv, HeldPlaces
    <2> QED BY <1>3, <2>2, <2>6, <2>7 DEF SelectInbound, Refuse, LoopWrites
  <1> QED BY <1>2, <1>3

LEMMA LoopWrittenCarried == ASSUME SessionInv, LoopWritten PROVE Carried
  <1> DEFINE f == mainLoop.job
  <1>0. /\ mainLoop.pc = "write" /\ f \in UpFrames \cup {Idle, Frame("close")}
        /\ mainLoop \in [pc : {"select", "lock", "write", "await", "ended"},
                         job : UpFrames \cup {Idle, Frame("close")}]
        /\ UNCHANGED <<sent, reader, inbound, queue, worker, results>>
    BY DEF LoopWritten, SessionInv, SessionTypes, workVars
  <1>1. CASE f.kind = "close"
    BY <1>0, <1>1, EndsCarried DEF LoopWritten, LoopEnds, CloseNow
  <1>2. ASSUME f.kind # "close" PROVE Carried
    <2>1. down' = down /\ up' = Append(up, f) /\ mainLoop'.job \in {f, Idle}
          /\ (mainLoop'.job = f => f.kind = "ping" \/ f = Idle)
      BY <1>0, <1>2 DEF LoopWritten
    <2>2. PICK g \in UpFrames \cup {Idle} : g = f
      BY <1>0, <1>2, FrameFacts
    <2> HIDE DEF f
    <2>3. CASE g \in Answers
      <3>1. g \in UpFrames /\ g.command \in SessionCommands /\ g.kind \in {"result", "backpressure"}
            /\ g = About(g.kind, g.command) /\ g # Idle
        BY <2>2, <2>3, FrameFacts
      <3>2. PICK d \in SessionCommands : d = g.command
        BY <3>1
      <3>3. mainLoop'.job = Idle
        BY <2>1, <2>2, <3>1
      <3>4. \A c \in SessionCommands : (InUp(c)' <=> InUp(c) \/ c = d) /\ ~InJob(c)'
        BY <2>1, <2>2, <2>3, <3>1, <3>2, <3>3, UpAppends, FrameFacts, InNone
      <3>5. \A c \in SessionCommands : InJob(c) <=> c = d
        <4>1. mainLoop.job = About(g.kind, d) /\ g.kind \in {"result", "backpressure"}
          BY <2>2, <3>1, <3>2 DEF f
        <4> QED BY <4>1 DEF InJob, About
      <3>6. \A c \in SessionCommands : c # d => Where(c)' = Where(c)
        BY <1>0, <2>1, <3>4, <3>5, InSame, StillIs
      <3>7. Where(d)' \subseteq (Where(d) \ {"job"}) \cup {"up"}
        BY <1>0, <2>1, <3>4, <3>5, InSame, WhereNow, WhereNext DEF HeldPlaces
      <3>8. Moves(d, "job", "up")
        BY <3>4, <3>5, <3>6, <3>7, WhereNow, WhereNext DEF Moves
      <3>9. OnceInv'
        BY <1>0, <2>1 DEF SessionInv, OnceInv
      <3> QED BY <1>0, <3>8, <3>9, MovesPlaced, MovesKept DEF Carried, SessionInv, HeldPlaces
    <2>4. CASE g \notin Answers
      <3>1. mainLoop.job \notin Answers /\ mainLoop'.job \notin Answers
        BY <2>1, <2>2, <2>4, FrameFacts DEF f
      <3>2. \A c \in SessionCommands : InJob(c)' <=> InJob(c)
        BY <3>1, InNone, InNoneNow
      <3>3. \A c \in SessionCommands : InUp(c)' <=> InUp(c)
        <4>1. up \in Seq(UpFrames) /\ up \in Seq(UpFrames \cup {Idle})
          BY DEF SessionInv, SessionTypes
        <4>2. \A x : x \in ToSet(up') <=> x \in ToSet(up) \/ x = g
          BY <2>1, <2>2, <4>1, AppendOnce
        <4> QED BY <2>4, <4>2 DEF InUp, AnswerOf
      <3> QED BY <1>0, <2>1, <3>2, <3>3, InSame, StillCarried DEF SessionInv, OnceInv
    <2> QED BY <2>3, <2>4
  <1> QED BY <1>1, <1>2

LEMMA LoopCarried == ASSUME SessionInv, LoopStep PROVE Carried
  <1>1. CASE LoopWriteFails \/ AwaitStopped
    <2>1. /\ down' = <<>> /\ up' = <<>> /\ mainLoop'.pc = "ended" /\ mainLoop'.job = Idle
          /\ UNCHANGED <<sent, reader, inbound, queue, worker, results>>
      BY <1>1 DEF LoopWriteFails, AwaitStopped, LoopEnds, CloseNow, workVars
    <2> QED BY <2>1, EndsCarried
  <1> QED BY <1>1, LoopStill, SelectResultCarried, SelectInboundCarried, LoopWrittenCarried DEF LoopStep

-----------------------------------------------------------------------------
(* The steps of the reader *)

LEMMA ReadFrameCarried == ASSUME SessionInv, ReadFrame PROVE Carried
  <1>1. PICK f \in DownFrames : f = Head(down)
    BY TailOnce DEF ReadFrame, SessionInv, SessionTypes
  <1>2. /\ reader.frame = Idle /\ down # <<>> /\ down' = Tail(down)
        /\ UNCHANGED <<sent, up, mainLoop, inbound, queue, worker, results>>
    BY DEF ReadFrame, SessionInv, HoldInv, workVars
  <1>3. /\ \A c \in SessionCommands : (InDown(c) <=> InDown(c)' \/ f = About("command", c))
                                      /\ (f = About("command", c) => ~InDown(c)')
        /\ Once(down', Commanded)
    BY <1>1, <1>2, DownTail
  <1>4. \A c \in SessionCommands : ~InReader(c)
    BY <1>2, InNoneNow
  <1>5. CASE f.kind \in {"pong", "ping"}
    <2>1. reader'.frame = Idle
      BY <1>1, <1>2, <1>5 DEF ReadFrame
    <2>2. \A c \in SessionCommands : f # About("command", c)
      BY <1>5, FrameFacts
    <2>3. \A c \in SessionCommands : ~InReader(c)'
      BY <2>1, InNone
    <2> QED BY <1>2, <1>3, <1>4, <2>2, <2>3, InSame, StillCarried
  <1>6. CASE f.kind \notin {"pong", "ping"}
    <2>1. PICK d \in SessionCommands : f = About("command", d)
      BY <1>6, FrameFacts DEF DownFrames
    <2>2. reader'.frame = f
      BY <1>1, <1>6 DEF ReadFrame, ReaderPushes
    <2>3. \A c \in SessionCommands : InReader(c)' <=> c = d
      BY <2>1, <2>2, FrameFacts DEF InReader
    <2>4. \A c \in SessionCommands : (InDown(c) <=> InDown(c)' \/ c = d) /\ ~InDown(d)'
      BY <1>3, <2>1, FrameFacts
    <2>5. \A c \in SessionCommands : c # d => Where(c)' = Where(c)
      BY <1>2, <1>4, <2>3, <2>4, InSame, StillIs
    <2>6. Where(d)' \subseteq (Where(d) \ {"down"}) \cup {"reader"}
      BY <1>2, <1>4, <2>3, <2>4, InSame, WhereNow, WhereNext DEF HeldPlaces
    <2>7. Moves(d, "down", "reader")
      BY <2>3, <2>4, <2>5, <2>6, WhereNow, WhereNext DEF Moves
    <2>8. OnceInv'
      BY <1>2, <1>3 DEF SessionInv, OnceInv
    <2> QED BY <1>2, <2>7, <2>8, MovesPlaced, MovesKept DEF Carried, SessionInv, HeldPlaces
  <1> QED BY <1>5, <1>6

LEMMA PushCarried == ASSUME SessionInv, Push PROVE Carried
  <1>1. /\ inbound = <<>> /\ inbound' = <<reader.frame>> /\ reader'.frame = Idle
        /\ reader.frame \in {Idle, EOF} \cup Commanded
        /\ UNCHANGED <<sent, down, up, mainLoop, queue, worker, results>>
    BY DEF Push, AfterPush, SessionInv, SessionTypes, netVars, link, agentLoop, workVars
  <1>2. \A x : x \in ToSet(inbound') <=> x = reader.frame
    BY <1>1 DEF ToSet
  <1>3. \A c \in SessionCommands : ~InInbound(c) /\ ~InReader(c)' /\ (InInbound(c)' <=> InReader(c))
    BY <1>1, <1>2, InNone, InNoneNow DEF InInbound, InReader
  <1>4. OnceInv'
    BY <1>1 DEF SessionInv, OnceInv
  <1>5. CASE reader.frame \in {Idle, EOF}
    BY <1>1, <1>3, <1>4, <1>5, InSame, InNoneNow, StillCarried DEF OnceInv
  <1>6. CASE reader.frame \in Commanded
    <2>1. PICK d \in SessionCommands : reader.frame = About("command", d)
      BY <1>6 DEF Commanded
    <2>2. \A c \in SessionCommands : InReader(c) <=> c = d
      BY <2>1, FrameFacts DEF InReader
    <2>3. \A c \in SessionCommands : c # d => Where(c)' = Where(c)
      BY <1>1, <1>3, <2>2, InSame, StillIs
    <2>4. Where(d)' \subseteq (Where(d) \ {"reader"}) \cup {"inbound"}
      BY <1>1, <1>3, <2>2, InSame, WhereNow, WhereNext DEF HeldPlaces
    <2>5. Moves(d, "reader", "inbound")
      BY <1>3, <2>2, <2>3, <2>4, WhereNow, WhereNext DEF Moves
    <2> QED BY <1>1, <1>4, <2>5, MovesPlaced, MovesKept DEF Carried, SessionInv, HeldPlaces
  <1> QED BY <1>1, <1>5, <1>6

LEMMA ReaderCarried == ASSUME SessionInv, ReaderStep PROVE Carried
  <1>1. CASE ReadFails \/ ReaderLocks
    <2>1. UNCHANGED <<sent, down, up, mainLoop, inbound, queue, worker, results>>
      BY <1>1 DEF ReadFails, ReaderLocks, netVars, link, agentLoop, workVars
    <2>2. reader.frame = Idle /\ reader'.frame \in {Idle, EOF}
      <3>1. reader.frame = Idle
        BY <1>1 DEF ReadFails, ReaderLocks, SessionInv, HoldInv
      <3>2. reader \in [pc : {"read", "lock", "write", "push", "ended"}, frame : {Idle, EOF} \cup Commanded]
        BY DEF SessionInv, SessionTypes
      <3> QED BY <1>1, <3>1, <3>2 DEF ReadFails, ReaderLocks, ReaderPushes
    <2>3. \A c \in SessionCommands : InReader(c)' <=> InReader(c)
      BY <2>2, InNone, InNoneNow
    <2>4. Once(down', Commanded)
      BY <2>1 DEF SessionInv, OnceInv
    <2> QED BY <2>1, <2>3, <2>4, InSame, StillCarried
  <1>2. CASE ReaderWritten
    <2>1. UNCHANGED <<sent, down, mainLoop, inbound, queue, worker, results>>
      BY <1>2 DEF ReaderWritten, agentLoop, workVars
    <2>2. reader.frame = Idle /\ reader'.frame \in {Idle, EOF}
      BY <1>2 DEF ReaderWritten, SessionInv, HoldInv, ReaderPushes
    <2>3. \A c \in SessionCommands : InReader(c)' <=> InReader(c)
      BY <2>2, InNone, InNoneNow
    <2>4. \A c \in SessionCommands : InUp(c)' <=> InUp(c)
      <3>1. up' = up \/ up' = Append(up, Frame("pong"))
        BY <1>2 DEF ReaderWritten
      <3> QED BY <3>1, UpAppends, InSame, FrameFacts
    <2>5. Once(down', Commanded)
      BY <2>1 DEF SessionInv, OnceInv
    <2> QED BY <2>1, <2>3, <2>4, <2>5, InSame, StillCarried
  <1>3. CASE ReaderStops
    <2>1. /\ UNCHANGED <<sent, down, up, mainLoop, inbound, queue, results, worker>>
          /\ SessionDone /\ reader'.frame = Idle
      BY <1>3 DEF ReaderStops, ReadStopped, netVars, link, agentLoop, workVars
    <2> QED BY <2>1, DroppedCarried
  <1> QED BY <1>1, <1>2, <1>3, ReadFrameCarried, PushCarried DEF ReaderStep

-----------------------------------------------------------------------------
(* The steps of the worker *)

LEMMA WorkerTakesCarried == ASSUME SessionInv, WorkerTakes PROVE Carried
  <1>1. PICK d \in SessionCommands : d = Head(queue)
    BY TailOnce DEF WorkerTakes, SessionInv, SessionTypes
  <1>2. /\ queue \in Seq(SessionCommands) /\ Once(queue, SessionCommands) /\ queue # <<>>
        /\ queue' = Tail(queue) /\ worker.pc = "idle" /\ worker' = [pc |-> "run", command |-> d]
        /\ UNCHANGED <<sent, down, up, mainLoop, reader, inbound, results>>
    BY <1>1 DEF WorkerTakes, SessionInv, SessionTypes, OnceInv, netVars, link, agentLoop
  <1>3. /\ d \notin ToSet(queue') /\ Once(queue', SessionCommands)
        /\ \A x : x \in ToSet(queue) <=> x \in ToSet(queue') \/ x = d
    BY <1>1, <1>2, TailOnce
  <1>4. \A c \in SessionCommands : (InQueue(c) <=> InQueue(c)' \/ c = d) /\ ~InQueue(d)'
    BY <1>3 DEF InQueue
  <1>5. \A c \in SessionCommands : ~InWorker(c) /\ (InWorker(c)' <=> c = d)
    BY <1>2 DEF InWorker
  <1>6. \A c \in SessionCommands : c # d => Where(c)' = Where(c)
    BY <1>2, <1>4, <1>5, InSame, StillIs
  <1>7. Where(d)' \subseteq (Where(d) \ {"queue"}) \cup {"worker"}
    BY <1>2, <1>4, <1>5, InSame, WhereNow, WhereNext DEF HeldPlaces
  <1>8. Moves(d, "queue", "worker")
    BY <1>4, <1>5, <1>6, <1>7, WhereNow, WhereNext DEF Moves
  <1>9. OnceInv'
    BY <1>2, <1>3 DEF SessionInv, OnceInv
  <1> QED BY <1>2, <1>8, <1>9, MovesPlaced, MovesKept DEF Carried, SessionInv, HeldPlaces

LEMMA WorkerAnswersCarried == ASSUME SessionInv, WorkerAnswers PROVE Carried
  <1>1. PICK d \in SessionCommands : d = worker.command
    BY DEF WorkerAnswers, SessionInv, SessionTypes
  <1>2. /\ results \in Seq(SessionCommands) /\ Once(results, SessionCommands)
        /\ results' = Append(results, d) /\ worker.pc = "run" /\ worker'.pc = "idle"
        /\ UNCHANGED <<sent, down, up, mainLoop, reader, inbound, queue>>
    BY <1>1 DEF WorkerAnswers, SessionInv, SessionTypes, OnceInv, netVars, link, agentLoop
  <1>3. \A c \in SessionCommands : (InWorker(c) <=> c = d) /\ ~InWorker(c)'
    BY <1>1, <1>2 DEF InWorker
  <1>4. d \notin ToSet(results)
    <2>1. "results" \notin Where(d)
      BY <1>3, WhereNow DEF SessionInv, PlaceInv
    <2> QED BY <2>1, WhereNow DEF InResults
  <1>5. /\ Once(results', SessionCommands)
        /\ \A x : x \in ToSet(results') <=> x \in ToSet(results) \/ x = d
    BY <1>2, <1>4, AppendOnce
  <1>6. \A c \in SessionCommands : InResults(c)' <=> InResults(c) \/ c = d
    BY <1>5 DEF InResults
  <1>7. \A c \in SessionCommands : c # d => Where(c)' = Where(c)
    BY <1>2, <1>3, <1>6, InSame, StillIs
  <1>8. Where(d)' \subseteq (Where(d) \ {"worker"}) \cup {"results"}
    BY <1>2, <1>3, <1>6, InSame, WhereNow, WhereNext DEF HeldPlaces
  <1>9. Moves(d, "worker", "results")
    BY <1>3, <1>6, <1>7, <1>8, WhereNow, WhereNext DEF Moves
  <1>10. OnceInv'
    BY <1>2, <1>5 DEF SessionInv, OnceInv
  <1> QED BY <1>2, <1>9, <1>10, MovesPlaced, MovesKept DEF Carried, SessionInv, HeldPlaces

LEMMA WorkerCarried == ASSUME SessionInv, WorkerStep PROVE Carried
  <1>1. CASE WorkerStops
    <2>1. /\ UNCHANGED <<sent, down, up, mainLoop, inbound, queue, results, reader>>
          /\ SessionDone /\ worker'.pc = "ended"
      BY <1>1 DEF WorkerStops, netVars, link, agentLoop
    <2> QED BY <2>1, DroppedCarried
  <1> QED BY <1>1, WorkerTakesCarried, WorkerAnswersCarried DEF WorkerStep

-----------------------------------------------------------------------------
(* The steps of the Panel, of the network and of the clock *)

\* What is read, or lost, on the connection was not held.
LEMMA LinkCarried ==
    ASSUME SessionInv, UNCHANGED <<sent, mainLoop, reader, inbound, queue, worker, results>>,
           \A c \in SessionCommands : (InDown(c)' => InDown(c)) /\ (InUp(c)' => InUp(c)),
           Once(down', Commanded)
    PROVE  Carried
  <1>1. Drops
    <2> SUFFICES ASSUME NEW c \in SessionCommands
                 PROVE  Where(c)' \subseteq Where(c) /\ Where(c) \cap HeldPlaces \subseteq Where(c)'
      BY DEF Drops
    <2>1. Where(c)' \subseteq Where(c)
      BY InSame, FadesIs
    <2>2. Where(c) \cap HeldPlaces \subseteq Where(c)'
      BY InSame, WhereNow, WhereNext DEF HeldPlaces
    <2> QED BY <2>1, <2>2
  <1>2. OnceInv'
    BY DEF SessionInv, OnceInv
  <1>3. PlaceInv'
    BY <1>1, FadesPlaced DEF SessionInv, Drops, Fades
  <1> QED BY <1>1, <1>2, <1>3, DropsKept DEF Carried

LEMMA PanelReadsCarried == ASSUME SessionInv, PanelReads PROVE Carried
  <1>1. UNCHANGED <<sent, mainLoop, reader, inbound, queue, worker, results>>
    BY DEF PanelReads, agentLoop, workVars
  <1>2. up \in Seq(UpFrames) /\ up # <<>> /\ up' = Tail(up)
    BY DEF PanelReads, SessionInv, SessionTypes
  <1>3. \A c \in SessionCommands : InUp(c)' => InUp(c)
    <2>1. \A x : x \in ToSet(up') => x \in ToSet(up)
      BY <1>2, TailOnce
    <2> QED BY <2>1 DEF InUp, AnswerOf
  <1>4. down' = down \/ down' = Append(down, Frame("pong"))
    BY DEF PanelReads
  <1>5. Once(down', Commanded) /\ \A c \in SessionCommands : InDown(c)' => InDown(c)
    <2>1. CASE down' = down
      BY <2>1, InSame DEF SessionInv, OnceInv
    <2>2. CASE down' = Append(down, Frame("pong"))
      BY <2>2, DownAppends, FrameFacts
    <2> QED BY <1>4, <2>1, <2>2
  <1> QED BY <1>1, <1>3, <1>5, LinkCarried

LEMMA PanelSendsCarried == ASSUME SessionInv, PanelSends PROVE Carried
  <1>1. /\ sent \in 0 .. MaxCommand /\ sent < MaxCommand /\ sent' = sent + 1
        /\ down' = Append(down, About("command", sent + 1))
        /\ UNCHANGED <<up, mainLoop, reader, inbound, queue, worker, results>>
    BY DEF PanelSends, SessionInv, SessionTypes, agentLoop, workVars
  <1>2. PICK d \in SessionCommands : d = sent + 1
    BY <1>1, SessionAssumption DEF SessionCommands
  <1>3. Where(d) = {}
    BY <1>1, <1>2 DEF SessionInv, PlaceInv
  <1>4. About("command", d) \notin ToSet(down)
    BY <1>3, WhereNow DEF InDown
  <1>5. /\ \A c \in SessionCommands : InDown(c)' <=> InDown(c) \/ c = d
        /\ Once(down', Commanded)
    BY <1>1, <1>2, <1>4, DownAppends, FrameFacts
  <1>6. \A c \in SessionCommands : c # d => Where(c)' = Where(c)
    BY <1>1, <1>5, InSame, StillIs
  <1>7. Where(d)' = {"down"}
    BY <1>1, <1>3, <1>5, InSame, WhereNow, WhereNext DEF HeldPlaces
  <1>8. PlaceInv'
    <2>1. \A c \in SessionCommands : c > sent' => c > sent /\ c # d
      BY <1>1, <1>2 DEF SessionCommands
    <2>2. ASSUME NEW c \in SessionCommands, c # d
          PROVE  (\A p, q \in Where(c)' : p = q) /\ (c > sent' => Where(c)' = {})
      BY <1>6, <2>1, <2>2 DEF SessionInv, PlaceInv
    <2>3. (\A p, q \in Where(d)' : p = q) /\ (d > sent' => Where(d)' = {})
      BY <1>7, <2>1
    <2> QED BY <2>2, <2>3 DEF PlaceInv
  <1>9. KeepsHeld
    <2>1. ASSUME NEW c \in SessionCommands, c \in Held PROVE c \in Held'
      BY <1>3, <1>6, <2>1, HeldIs
    <2> QED BY <2>1 DEF KeepsHeld, Held
  <1>10. OnceInv'
    BY <1>1, <1>5 DEF SessionInv, OnceInv
  <1> QED BY <1>8, <1>9, <1>10 DEF Carried

LEMMA OutsideCarried ==
    ASSUME SessionInv,
           (\E kind \in Tickers : Tick(kind)) \/ PanelTimesOut \/ PanelPings \/ PanelCloses \/ Cut
           \/ TcpGivesUp \/ AgentStops \/ UNCHANGED sessionVars
    PROVE  Carried
  <1>1. UNCHANGED <<sent, up, mainLoop, reader, inbound, queue, worker, results>>
    BY DEF Tick, PanelTimesOut, PanelPings, PanelCloses, Cut, TcpGivesUp, AgentStops, sessionVars,
           netVars, link, agentLoop, workVars
  <1>2. \/ down' = down \/ down' = Append(down, Frame("ping"))
        \/ \E k \in 0 .. Len(down) : down' = SubSeq(down, 1, k)
    BY DEF Tick, PanelTimesOut, PanelPings, PanelCloses, Cut, TcpGivesUp, AgentStops, sessionVars,
           netVars, link
  <1>3. Once(down', Commanded) /\ \A c \in SessionCommands : InDown(c)' => InDown(c)
    <2>0. down \in Seq(DownFrames) /\ Once(down, Commanded)
      BY DEF SessionInv, SessionTypes, OnceInv
    <2>1. CASE down' = down
      BY <2>0, <2>1, InSame
    <2>2. CASE down' = Append(down, Frame("ping"))
      BY <2>2, DownAppends, FrameFacts
    <2>3. ASSUME NEW k \in 0 .. Len(down), down' = SubSeq(down, 1, k)
          PROVE  Once(down', Commanded) /\ \A c \in SessionCommands : InDown(c)' => InDown(c)
      BY <2>0, <2>3, PrefixOnce DEF InDown
    <2> QED BY <1>2, <2>1, <2>2, <2>3
  <1>4. \A c \in SessionCommands : InUp(c)' => InUp(c)
    BY <1>1, InSame
  <1> QED BY <1>1, <1>3, <1>4, LinkCarried

LEMMA ClosesCarried == ASSUME SessionInv, AfterFuncCloses \/ PingTimesOut PROVE Carried
  <1>1. /\ down' = <<>> /\ up' = <<>> /\ UNCHANGED <<sent, reader, inbound, queue, worker, results>>
        /\ mainLoop'.job \in {mainLoop.job, Idle} /\ (mainLoop'.pc = "ended" \/ ~open')
    BY DEF AfterFuncCloses, PingTimesOut, LoopEnds, CloseNow, agentLoop, workVars
  <1> QED BY <1>1, EndsCarried

LEMMA StepCarried == ASSUME SessionInv, [SessionNext]_sessionVars PROVE Carried
  BY LoopCarried, ReaderCarried, WorkerCarried, PanelReadsCarried, PanelSendsCarried, OutsideCarried,
     ClosesCarried DEF SessionNext, Quick

-----------------------------------------------------------------------------
(* Type correctness, in four parts *)

LinkTypes ==
    /\ net \in {"ok", "cut", "broken", "closed"} /\ panelPing \in BOOLEAN
    /\ down \in Seq(DownFrames) /\ Len(down) <= LinkSize
    /\ up \in Seq(UpFrames) /\ Len(up) <= LinkSize
    /\ sent \in 0 .. MaxCommand

LoopTypes ==
    /\ stopping \in BOOLEAN /\ open \in BOOLEAN /\ resolved \in BOOLEAN
    /\ mainLoop \in [pc : {"select", "lock", "write", "await", "ended"},
                     job : UpFrames \cup {Idle, Frame("close")}]
    /\ ticks \subseteq Tickers
    /\ writeMu \in {"free", "loop", "reader"}
    /\ (mainLoop.pc \in {"select", "ended"}) <=> mainLoop.job = Idle
    /\ mainLoop.pc = "await" => mainLoop.job = Frame("ping")

ReaderTypes ==
    /\ reader \in [pc : {"read", "lock", "write", "push", "ended"}, frame : {Idle, EOF} \cup Commanded]
    /\ inbound \in Seq({EOF} \cup Commanded) /\ Len(inbound) <= 1
    /\ (reader.pc = "push") <=> reader.frame # Idle

WorkTypes ==
    /\ queue \in Seq(SessionCommands) /\ Len(queue) <= QueueSize
    /\ results \in Seq(SessionCommands) /\ Len(results) <= QueueSize
    /\ worker \in [pc : {"idle", "run", "ended"}, command : 0 .. MaxCommand]
    /\ worker.pc = "run" => worker.command \in SessionCommands

\* A command the loop has to queue, or to refuse.
LEMMA InboundCommand ==
    ASSUME SessionInv, inbound # <<>>, Head(inbound) # EOF
    PROVE  Head(inbound).command \in SessionCommands
  <1>1. Head(inbound) \in Commanded
    BY TailOnce DEF SessionInv, SessionTypes
  <1> QED BY <1>1, FrameFacts DEF Commanded

LEMMA DownKeepsType ==
    ASSUME SessionInv,
           \/ down' \in {down, <<>>}
           \/ down # <<>> /\ down' = Tail(down)
           \/ Len(down) < LinkSize /\ \E f \in DownFrames : down' = Append(down, f)
           \/ \E k \in 0 .. Len(down) : down' = SubSeq(down, 1, k)
    PROVE  down' \in Seq(DownFrames) /\ Len(down') <= LinkSize
  <1>1. down \in Seq(DownFrames) /\ Len(down) <= LinkSize /\ Len(down) \in Nat /\ LinkSize \in Nat
    BY SessionAssumption DEF SessionInv, SessionTypes
  <1>2. CASE down' \in {down, <<>>}
    <2>1. <<>> \in Seq(DownFrames) /\ Len(<<>>) = 0
      BY EmptyOnce
    <2>2. CASE down' = down
      BY <1>1, <2>2
    <2>3. CASE down' = <<>>
      BY <1>1, <2>1, <2>3
    <2> QED BY <1>2, <2>2, <2>3
  <1>3. CASE down # <<>> /\ down' = Tail(down)
    BY <1>1, <1>3, TailOnce
  <1>4. CASE Len(down) < LinkSize /\ \E f \in DownFrames : down' = Append(down, f)
    BY <1>1, <1>4, AppendOnce
  <1>5. ASSUME NEW k \in 0 .. Len(down), down' = SubSeq(down, 1, k)
        PROVE  down' \in Seq(DownFrames) /\ Len(down') <= LinkSize
    BY <1>1, <1>5
  <1> QED BY <1>2, <1>3, <1>4, <1>5

LEMMA UpKeepsType ==
    ASSUME SessionInv,
           \/ up' \in {up, <<>>}
           \/ up # <<>> /\ up' = Tail(up)
           \/ Len(up) < LinkSize /\ \E f \in UpFrames : up' = Append(up, f)
    PROVE  up' \in Seq(UpFrames) /\ Len(up') <= LinkSize
  <1>1. up \in Seq(UpFrames) /\ Len(up) <= LinkSize /\ Len(up) \in Nat /\ LinkSize \in Nat
    BY SessionAssumption DEF SessionInv, SessionTypes
  <1>2. CASE up' \in {up, <<>>}
    <2>1. <<>> \in Seq(UpFrames) /\ Len(<<>>) = 0
      BY EmptyOnce
    <2>2. CASE up' = up
      BY <1>1, <2>2
    <2>3. CASE up' = <<>>
      BY <1>1, <2>1, <2>3
    <2> QED BY <1>2, <2>2, <2>3
  <1>3. CASE up # <<>> /\ up' = Tail(up)
    BY <1>1, <1>3, TailOnce
  <1>4. CASE Len(up) < LinkSize /\ \E f \in UpFrames : up' = Append(up, f)
    BY <1>1, <1>4, AppendOnce
  <1> QED BY <1>2, <1>3, <1>4

LEMMA LinkTyped == ASSUME SessionInv, [SessionNext]_sessionVars PROVE LinkTypes'
  <1>0. LinkTypes
    BY DEF LinkTypes, SessionInv, SessionTypes
  <1>1. CASE LoopStep \/ PingTimesOut
    <2>1. CASE SelectStop \/ (\E kind \in Tickers : SelectTick(kind)) \/ SelectResult \/ LoopLocks \/ Ponged
      BY <1>0, <2>1 DEF SelectStop, SelectTick, SelectResult, LoopLocks, Ponged, netVars, link, LinkTypes
    <2>2. CASE SelectInbound \/ LoopWriteFails \/ AwaitStopped \/ PingTimesOut
      <3>1. UNCHANGED <<net, panelPing, sent>> /\ down' \in {down, <<>>} /\ up' \in {up, <<>>}
        BY <2>2 DEF SelectInbound, LoopWriteFails, AwaitStopped, PingTimesOut, LoopEnds, CloseNow, link
      <3> QED BY <1>0, <3>1, DownKeepsType, UpKeepsType DEF LinkTypes
    <2>3. CASE LoopWritten
      <3>1. mainLoop.job.kind # "close" => mainLoop.job \in UpFrames
        <4>1. mainLoop.job # Idle
          BY <2>3 DEF LoopWritten, SessionInv, HoldInv
        <4> QED BY <4>1, FrameFacts DEF SessionInv, SessionTypes
      <3>2. /\ UNCHANGED <<net, panelPing, sent>> /\ down' \in {down, <<>>}
            /\ up' = <<>> \/ (Len(up) < LinkSize /\ \E f \in UpFrames : up' = Append(up, f))
        BY <2>3, <3>1 DEF LoopWritten, LoopEnds, CloseNow
      <3> QED BY <1>0, <3>2, DownKeepsType, UpKeepsType DEF LinkTypes
    <2> QED BY <1>1, <2>1, <2>2, <2>3 DEF LoopStep
  <1>2. CASE ReaderStep
    <2>1. CASE ReadFrame
      BY <1>0, <2>1, DownKeepsType DEF ReadFrame, LinkTypes
    <2>2. CASE ReaderWritten
      BY <1>0, <2>2, UpKeepsType, FrameFacts DEF ReaderWritten, LinkTypes
    <2>3. CASE ReadFails \/ ReaderLocks \/ Push \/ ReaderStops
      BY <1>0, <2>3 DEF ReadFails, ReaderLocks, Push, ReaderStops, netVars, link, LinkTypes
    <2> QED BY <1>2, <2>1, <2>2, <2>3 DEF ReaderStep
  <1>3. CASE WorkerStep \/ UNCHANGED sessionVars
    BY <1>0, <1>3 DEF WorkerStep, WorkerTakes, WorkerAnswers, WorkerStops, sessionVars, netVars, link, LinkTypes
  <1>4. CASE AfterFuncCloses
    BY <1>0, <1>4, DownKeepsType, UpKeepsType DEF AfterFuncCloses, CloseNow, LinkTypes
  <1>5. CASE PanelReads
    <2>1. /\ UNCHANGED <<net, sent>> /\ panelPing' \in BOOLEAN /\ up # <<>> /\ up' = Tail(up)
          /\ down' = down \/ (Len(down) < LinkSize /\ down' = Append(down, Frame("pong")))
      BY <1>5 DEF PanelReads
    <2> QED BY <1>0, <2>1, DownKeepsType, UpKeepsType, FrameFacts DEF LinkTypes
  <1>6. CASE PanelSends
    <2>1. sent + 1 \in SessionCommands
      BY <1>0, <1>6, SessionAssumption DEF PanelSends, LinkTypes, SessionCommands
    <2>2. sent' \in 0 .. MaxCommand /\ About("command", sent') \in DownFrames
      BY <1>6, <2>1, FrameFacts DEF PanelSends
    <2> QED BY <1>0, <1>6, <2>2, DownKeepsType DEF PanelSends, LinkTypes
  <1>7. CASE PanelPings
    BY <1>0, <1>7, DownKeepsType, FrameFacts DEF PanelPings, LinkTypes
  <1>8. CASE Cut
    BY <1>0, <1>8, DownKeepsType DEF Cut, LinkTypes
  <1>9. CASE (\E kind \in Tickers : Tick(kind)) \/ PanelTimesOut \/ PanelCloses \/ TcpGivesUp \/ AgentStops
    BY <1>0, <1>9 DEF Tick, PanelTimesOut, PanelCloses, TcpGivesUp, AgentStops, netVars, link, LinkTypes
  <1> QED BY <1>1, <1>2, <1>3, <1>4, <1>5, <1>6, <1>7, <1>8, <1>9 DEF SessionNext, Quick

LEMMA LoopTyped == ASSUME SessionInv, [SessionNext]_sessionVars PROVE LoopTypes'
  <1>0. LoopTypes
    BY DEF LoopTypes, SessionInv, SessionTypes, HoldInv
  <1>1. ASSUME NEW f \in UpFrames \cup {Frame("close")}, LoopWrites(f), UNCHANGED <<stopping, open, writeMu>>,
               ticks' \subseteq ticks
        PROVE  LoopTypes'
    <2>1. f # Idle
      BY FrameFacts DEF UpFrames, Answers, About, Frame, Idle
    <2> QED BY <1>0, <1>1, <2>1 DEF LoopWrites, LoopTypes
  <1>2. ASSUME LoopEnds, UNCHANGED stopping, writeMu' \in {writeMu, "free"} PROVE LoopTypes'
    BY <1>0, <1>2 DEF LoopEnds, CloseNow, LoopTypes
  <1>3. CASE LoopStep
    <2>1. CASE SelectStop
      BY <1>1, <2>1 DEF SelectStop
    <2>2. ASSUME NEW kind \in Tickers, SelectTick(kind) PROVE LoopTypes'
      <3>1. Frame(kind) \in UpFrames
        BY SessionAssumption, FrameFacts
      <3>2. ticks' \subseteq ticks /\ LoopWrites(Frame(kind)) /\ UNCHANGED <<stopping, open, writeMu>>
        BY <2>2 DEF SelectTick
      <3> QED BY <1>1, <3>1, <3>2
    <2>3. CASE SelectResult
      <3>1. About("result", Head(results)) \in UpFrames
        BY <2>3, TailOnce, FrameFacts DEF SelectResult, SessionInv, SessionTypes
      <3>2. /\ LoopWrites(About("result", Head(results)))
            /\ ticks' \subseteq ticks /\ UNCHANGED <<stopping, open, writeMu>>
        BY <2>3 DEF SelectResult
      <3> QED BY <1>1, <3>1, <3>2
    <2>4. CASE SelectInbound
      <3>1. CASE Head(inbound) = EOF
        BY <1>2, <2>4, <3>1 DEF SelectInbound
      <3>2. CASE Head(inbound) # EOF /\ Len(queue) < QueueSize /\ UNCHANGED <<mainLoop, open, ticks, resolved>>
        BY <1>0, <2>4, <3>2 DEF SelectInbound, LoopTypes
      <3>3. CASE Head(inbound) # EOF /\ Refuse(Head(inbound).command) /\ UNCHANGED <<open, ticks>>
        <4>1. About("backpressure", Head(inbound).command) \in UpFrames
          BY <2>4, <3>3, InboundCommand, FrameFacts DEF SelectInbound
        <4>2. UNCHANGED <<stopping, open, writeMu>> /\ ticks' \subseteq ticks
          BY <2>4, <3>3 DEF SelectInbound
        <4> QED BY <1>1, <3>3, <4>1, <4>2 DEF Refuse
      <3> QED BY <2>4, <3>1, <3>2, <3>3 DEF SelectInbound
    <2>5. CASE LoopLocks
      BY <1>0, <2>5 DEF LoopLocks, LoopTypes
    <2>6. CASE LoopWritten
      <3>1. CASE mainLoop.job.kind = "close"
        BY <1>2, <2>6, <3>1 DEF LoopWritten
      <3>2. CASE mainLoop.job.kind # "close"
        <4>1. mainLoop.job.kind = "ping" => mainLoop.job = Frame("ping")
          BY <1>0 DEF LoopTypes, UpFrames, Answers, About, Frame, Idle
        <4>2. Frame("ping") # Idle
          BY FrameFacts DEF Frame
        <4> QED BY <1>0, <2>6, <3>2, <4>1, <4>2 DEF LoopWritten, LoopTypes
      <3> QED BY <3>1, <3>2
    <2>7. CASE LoopWriteFails \/ AwaitStopped
      BY <1>2, <2>7 DEF LoopWriteFails, AwaitStopped
    <2>8. CASE Ponged
      BY <1>0, <2>8 DEF Ponged, LoopTypes
    <2> QED BY <1>3, <2>1, <2>2, <2>3, <2>4, <2>5, <2>6, <2>7, <2>8 DEF LoopStep
  <1>4. CASE ReaderStep
    BY <1>0, <1>4 DEF ReaderStep, ReadFrame, ReadFails, ReaderLocks, ReaderWritten, Push, ReaderStops, agentLoop,
                      LoopTypes
  <1>5. CASE WorkerStep \/ AfterFuncCloses \/ UNCHANGED sessionVars
    BY <1>0, <1>5 DEF WorkerStep, WorkerTakes, WorkerAnswers, WorkerStops, AfterFuncCloses, CloseNow,
                      sessionVars, agentLoop, LoopTypes
  <1>6. CASE PanelReads \/ PanelSends \/ PanelPings \/ PanelCloses \/ PanelTimesOut \/ Cut \/ TcpGivesUp
             \/ AgentStops
    BY <1>0, <1>6 DEF PanelReads, PanelSends, PanelPings, PanelCloses, PanelTimesOut, Cut, TcpGivesUp,
                      AgentStops, agentLoop, LoopTypes
  <1>7. CASE \E kind \in Tickers : Tick(kind)
    BY <1>0, <1>7 DEF Tick, LoopTypes
  <1>8. CASE PingTimesOut
    BY <1>2, <1>8 DEF PingTimesOut
  <1> QED BY <1>3, <1>4, <1>5, <1>6, <1>7, <1>8 DEF SessionNext, Quick

LEMMA ReaderTyped == ASSUME SessionInv, [SessionNext]_sessionVars PROVE ReaderTypes'
  <1>0. ReaderTypes
    BY DEF ReaderTypes, SessionInv, SessionTypes, HoldInv
  <1>1. CASE UNCHANGED <<reader, inbound>>
    BY <1>0, <1>1 DEF ReaderTypes
  <1>2. CASE SelectInbound
    <2>1. inbound' = <<>> /\ reader' = reader
      BY <1>2 DEF SelectInbound
    <2> QED BY <1>0, <2>1, EmptyOnce DEF ReaderTypes
  <1>3. CASE ReaderStep
    <2>1. CASE ReadFrame
      <3>1. Head(down) \in DownFrames
        BY <2>1, TailOnce DEF ReadFrame, SessionInv, SessionTypes
      <3>2. Head(down).kind \notin {"pong", "ping"} => Head(down) \in Commanded
        BY <3>1, FrameFacts DEF DownFrames, Commanded
      <3>3. Head(down) \in Commanded => Head(down) # Idle
        BY FrameFacts
      <3> QED BY <1>0, <2>1, <3>2, <3>3 DEF ReadFrame, ReaderPushes, ReaderTypes
    <2>2. CASE ReadFails \/ ReaderLocks \/ ReaderWritten \/ ReaderStops
      BY <1>0, <2>2, FrameFacts DEF ReadFails, ReaderLocks, ReaderWritten, ReaderStops, ReaderPushes, ReaderTypes
    <2>3. CASE Push
      <3>1. reader.frame \in {EOF} \cup Commanded
        BY <1>0, <2>3 DEF Push, ReaderTypes
      <3>2. inbound' \in Seq({EOF} \cup Commanded) /\ Len(inbound') <= 1
        BY <2>3, <3>1 DEF Push
      <3> QED BY <2>3, <3>2 DEF Push, AfterPush, ReaderTypes
    <2> QED BY <1>3, <2>1, <2>2, <2>3 DEF ReaderStep
  <1>4. CASE LoopStep \/ WorkerStep \/ AfterFuncCloses \/ PingTimesOut \/ UNCHANGED sessionVars
    <2>1. SelectInbound \/ UNCHANGED <<reader, inbound>>
      BY <1>4 DEF LoopStep, SelectStop, SelectTick, SelectResult, LoopLocks, LoopWritten, LoopWriteFails,
                  Ponged, AwaitStopped, WorkerStep, WorkerTakes, WorkerAnswers, WorkerStops, AfterFuncCloses,
                  PingTimesOut, sessionVars
    <2> QED BY <1>1, <1>2, <2>1
  <1>5. CASE (\E kind \in Tickers : Tick(kind)) \/ PanelReads \/ PanelSends \/ PanelPings \/ PanelCloses
             \/ PanelTimesOut \/ Cut \/ TcpGivesUp \/ AgentStops
    BY <1>1, <1>5 DEF Tick, PanelReads, PanelSends, PanelPings, PanelCloses, PanelTimesOut, Cut, TcpGivesUp,
                      AgentStops
  <1> QED BY <1>3, <1>4, <1>5 DEF SessionNext, Quick

LEMMA WorkTyped == ASSUME SessionInv, [SessionNext]_sessionVars PROVE WorkTypes'
  <1>0. WorkTypes /\ QueueSize \in Nat /\ SessionCommands \subseteq 0 .. MaxCommand /\ 0 \in 0 .. MaxCommand
    BY SessionAssumption DEF WorkTypes, SessionInv, SessionTypes, SessionCommands
  <1>1. CASE UNCHANGED <<queue, results, worker>>
    BY <1>0, <1>1 DEF WorkTypes
  <1>2. CASE SelectResult
    <2>1. results # <<>> /\ results' = Tail(results) /\ UNCHANGED <<queue, worker>>
      BY <1>2 DEF SelectResult
    <2>2. results' \in Seq(SessionCommands) /\ Len(results') <= QueueSize
      BY <1>0, <2>1, TailOnce DEF WorkTypes
    <2> QED BY <1>0, <2>1, <2>2 DEF WorkTypes
  <1>3. CASE SelectInbound
    <2>1. CASE UNCHANGED queue
      BY <1>1, <1>3, <2>1 DEF SelectInbound
    <2>2. CASE Head(inbound) # EOF /\ Len(queue) < QueueSize /\ queue' = Append(queue, Head(inbound).command)
      <3>1. Head(inbound).command \in SessionCommands
        BY <1>3, <2>2, InboundCommand DEF SelectInbound
      <3>2. queue' \in Seq(SessionCommands) /\ Len(queue') = Len(queue) + 1 /\ Len(queue) \in Nat
        BY <1>0, <2>2, <3>1, AppendOnce DEF WorkTypes
      <3> QED BY <1>0, <1>3, <2>2, <3>2 DEF SelectInbound, WorkTypes
    <2> QED BY <1>3, <2>1, <2>2 DEF SelectInbound
  <1>4. CASE WorkerStep
    <2>1. CASE WorkerTakes
      <3>1. Head(queue) \in SessionCommands /\ queue' \in Seq(SessionCommands) /\ Len(queue') <= QueueSize
        BY <1>0, <2>1, TailOnce DEF WorkerTakes, WorkTypes
      <3> QED BY <1>0, <2>1, <3>1 DEF WorkerTakes, WorkTypes
    <2>2. CASE WorkerAnswers
      <3>1. results' \in Seq(SessionCommands) /\ Len(results') = Len(results) + 1 /\ Len(results) \in Nat
        BY <1>0, <2>2, AppendOnce DEF WorkerAnswers, WorkTypes
      <3> QED BY <1>0, <2>2, <3>1 DEF WorkerAnswers, WorkTypes
    <2>3. CASE WorkerStops
      BY <1>0, <2>3 DEF WorkerStops, WorkTypes
    <2> QED BY <1>4, <2>1, <2>2, <2>3 DEF WorkerStep
  <1>5. CASE LoopStep \/ ReaderStep \/ AfterFuncCloses \/ PingTimesOut \/ UNCHANGED sessionVars
    <2>1. SelectResult \/ SelectInbound \/ UNCHANGED workVars
      BY <1>5 DEF LoopStep, SelectStop, SelectTick, LoopLocks, LoopWritten, LoopWriteFails, Ponged, AwaitStopped,
                  ReaderStep, ReadFrame, ReadFails, ReaderLocks, ReaderWritten, Push, ReaderStops,
                  AfterFuncCloses, PingTimesOut, sessionVars
    <2> QED BY <1>1, <1>2, <1>3, <2>1 DEF workVars
  <1>6. CASE (\E kind \in Tickers : Tick(kind)) \/ PanelReads \/ PanelSends \/ PanelPings \/ PanelCloses
             \/ PanelTimesOut \/ Cut \/ TcpGivesUp \/ AgentStops
    BY <1>1, <1>6 DEF Tick, PanelReads, PanelSends, PanelPings, PanelCloses, PanelTimesOut, Cut, TcpGivesUp,
                      AgentStops, workVars
  <1> QED BY <1>4, <1>5, <1>6 DEF SessionNext, Quick

-----------------------------------------------------------------------------
LEMMA SessionBegins == ASSUME SessionInit PROVE SessionInv
  <1>1. SessionTypes
    <2>1. <<>> \in Seq(DownFrames) /\ <<>> \in Seq(UpFrames) /\ <<>> \in Seq({EOF} \cup Commanded)
          /\ <<>> \in Seq(SessionCommands) /\ Len(<<>>) = 0
      BY EmptyOnce
    <2>2. /\ LinkSize \in Nat /\ QueueSize \in Nat /\ 0 \in 0 .. MaxCommand
      BY SessionAssumption
    <2>3. /\ down \in Seq(DownFrames) /\ Len(down) <= LinkSize
          /\ up \in Seq(UpFrames) /\ Len(up) <= LinkSize
          /\ inbound \in Seq({EOF} \cup Commanded) /\ Len(inbound) <= 1
          /\ queue \in Seq(SessionCommands) /\ Len(queue) <= QueueSize
          /\ results \in Seq(SessionCommands) /\ Len(results) <= QueueSize
      BY <2>1, <2>2 DEF SessionInit
    <2>4. /\ mainLoop \in [pc : {"select", "lock", "write", "await", "ended"},
                             job : UpFrames \cup {Idle, Frame("close")}]
          /\ reader \in [pc : {"read", "lock", "write", "push", "ended"}, frame : {Idle, EOF} \cup Commanded]
          /\ worker \in [pc : {"idle", "run", "ended"}, command : 0 .. MaxCommand] /\ worker.pc = "idle"
      BY <2>2 DEF SessionInit
    <2> QED BY <2>2, <2>3, <2>4 DEF SessionInit, SessionTypes
  <1>2. HoldInv
    BY DEF SessionInit, HoldInv
  <1>3. OnceInv
    BY EmptyOnce DEF SessionInit, OnceInv
  <1>4. ASSUME NEW c \in SessionCommands PROVE Where(c) = {}
    <2>1. ~InDown(c) /\ ~InQueue(c) /\ ~InResults(c) /\ ~InUp(c) /\ ~InInbound(c)
      BY EmptyOnce DEF SessionInit, InDown, InQueue, InResults, InUp, InInbound, AnswerOf
    <2>2. ~InReader(c) /\ ~InWorker(c) /\ ~InJob(c)
      BY InNoneNow, FrameFacts DEF SessionInit
    <2> QED BY <2>1, <2>2, WhereNow DEF HeldPlaces
  <1>5. PlaceInv
    BY <1>4 DEF PlaceInv
  <1> QED BY <1>1, <1>2, <1>3, <1>5 DEF SessionInv

LEMMA SessionStep == ASSUME SessionInv, [SessionNext]_sessionVars PROVE SessionInv' /\ KeepsHeld
  <1>1. LinkTypes' /\ LoopTypes' /\ ReaderTypes' /\ WorkTypes'
    BY LinkTyped, LoopTyped, ReaderTyped, WorkTyped
  <1>2. SessionTypes' /\ HoldInv'
    BY <1>1 DEF LinkTypes, LoopTypes, ReaderTypes, WorkTypes, SessionTypes, HoldInv
  <1> QED BY <1>2, StepCarried DEF Carried, SessionInv

LEMMA SessionHolds == SessionSpec => []SessionInv
  BY SessionBegins, SessionStep, PTL DEF SessionSpec

LEMMA TypesAreMet == ASSUME SessionTypes PROVE SessionTypeOK
  <1>1. ASSUME NEW S, NEW n \in Nat, NEW s \in Seq(S), Len(s) <= n PROVE s \in BoundedSeq(S, n)
    <2>1. Len(s) \in 0 .. n /\ s \in [1 .. Len(s) -> S]
      BY <1>1
    <2> QED BY <2>1 DEF BoundedSeq, SeqOf
  <1>2. /\ down \in BoundedSeq(DownFrames, LinkSize) /\ up \in BoundedSeq(UpFrames, LinkSize)
        /\ inbound \in BoundedSeq({EOF} \cup Commanded, 1)
        /\ queue \in BoundedSeq(SessionCommands, QueueSize) /\ results \in BoundedSeq(SessionCommands, QueueSize)
    BY <1>1, SessionAssumption DEF SessionTypes
  <1> QED BY <1>2 DEF SessionTypes, SessionTypeOK, Commanded

\* The variables of a control session keep their types: no goroutine ever holds, and
\* no channel or direction of the connection ever carries, anything but the frames
\* and commands the code puts there, and none of them holds more than it has room for.
THEOREM SessionTypeCorrect == SessionSpec => []SessionTypeOK
  <1>1. SessionInv => SessionTypeOK
    BY TypesAreMet DEF SessionInv
  <1> QED BY <1>1, SessionHolds, PTL

\* A command the reader has taken off the connection is neither lost nor forgotten:
\* as long as runSession has not returned, the connection is open and the Agent is
\* not stopping, every step of any goroutine leaves it with the goroutine or in the
\* channel that has it, hands it on to the next, or writes its answer.
THEOREM TakenCommandsAreAnswered == SessionSpec => TakenIsAnswered
  <1>1. SessionInv /\ [SessionNext]_sessionVars
        => [\A c \in Held : mainLoop'.pc # "ended" /\ open' /\ ~stopping =>
              c \in Held' \/ c \in AnswerOf(up') \ AnswerOf(up)]_sessionVars
    BY SessionStep DEF KeepsHeld
  <1> QED BY <1>1, SessionHolds, PTL DEF SessionSpec, TakenIsAnswered
=============================================================================

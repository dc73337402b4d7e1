-------------------------- MODULE PanelStateProofs --------------------------
(* What the Panel's tables and files keep although no transaction covers them:
   the trust set of Ensure (PanelKeys), the rows of alerts (Alerting), and the
   rows about a node and its tags (NodeData).                                 *)
EXTENDS PanelKeys, Alerting, NodeData, FiniteSetTheorems, WellFoundedInduction, TLAPS

\* Every set of numbers has a least one, and a bounded one has a greatest.
LEMMA LeastIsThere ==
    ASSUME NEW T, T \subseteq Nat, T # {}
    PROVE  \E x \in T : \A y \in T : x <= y
  <1>1. IsWellFoundedOn(OpToRel(<, Nat), Nat)
    BY NatLessThanWellFounded
  <1>2. PICK x \in T : \A y \in T : ~ (<<y, x>> \in OpToRel(<, Nat))
    BY <1>1, WFMin, Zenon
  <1>3. \A y \in T : ~(y < x)
    BY <1>2 DEF OpToRel
  <1> QED BY <1>3

LEMMA GreatestIsThere ==
    ASSUME NEW S, S \subseteq Nat, S # {}, NEW b \in Nat, \A y \in S : y <= b
    PROVE  Max(S) \in S /\ \A y \in S : y <= Max(S)
  <1> DEFINE T == {n \in Nat : \A y \in S : y <= n}
  <1>1. b \in T
    OBVIOUS
  <1>2. PICK m \in T : \A n \in T : m <= n
    <2> HIDE DEF T
    <2> T \subseteq Nat
      BY DEF T
    <2> QED BY <1>1, LeastIsThere
  <1>3. m \in S
    <2> SUFFICES ASSUME m \notin S PROVE FALSE
      OBVIOUS
    <2>1. PICK y \in S : TRUE
      OBVIOUS
    <2>2. m # 0
      BY <2>1
    <2>3. m - 1 \in T
      BY <2>2
    <2> QED BY <2>3, <1>2
  <1>4. \E x \in S : \A y \in S : x >= y
    BY <1>3
  <1> QED BY <1>4 DEF Max

-----------------------------------------------------------------------------
(* PanelKeys.  TrustIsKept holds because at most one process is between the
   count and the end of load, so the files present are always of one set.     *)

LEMMA PartsFacts == Parts = 1 .. 6 /\ Len(Names) = 6
  BY DEF Parts, Names

\* The lock.
OnlyHolder == \A p \in Panels : panel[p].pc \in {"count", "generate", "load"} => initLock = {p}

\* The directory: what would outlive a power failure is what is there or nothing,
\* all files are of one set, and a set that was whole on the disk still is.
FilesOfOneSet ==
    /\ \A i \in Parts : onDisk[i] \in {0, keyFile[i]}
    /\ \A i, j \in Parts : keyFile[i] # 0 /\ keyFile[j] # 0 => keyFile[i] = keyFile[j]
    /\ \A s \in kept : \A i \in Parts : keyFile[i] = s /\ onDisk[i] = s

\* A process that has not counted will begin with the first file; one that generates
\* has written the files before the next one, and no other is there; one that serves
\* finds all of its set.
WriterAndServers ==
    \A p \in Panels :
        /\ panel[p].pc \in {"off", "lock", "count"} => panel[p].next = 1 /\ ~panel[p].seen
        /\ At(p, "generate") =>
              /\ panel[p].set # 0
              /\ panel[p].seen => panel[p].next \in Parts
              /\ \A i \in Parts : keyFile[i] = IF i < panel[p].next THEN panel[p].set ELSE 0
        /\ At(p, "serve") => panel[p].set # 0 /\ \A i \in Parts : keyFile[i] = panel[p].set

KeysInv == KeysTypeOK /\ OnlyHolder /\ FilesOfOneSet /\ WriterAndServers

PanelTypes == [pc : {"off", "lock", "count", "generate", "load", "serve"},
               set : 0 .. MaxSet, next : 1 .. 7, seen : BOOLEAN]

\* The types in the form the steps use.
LEMMA KeysTypes ==
    KeysTypeOK <=>
        /\ keyFile \in [Parts -> 0 .. MaxSet] /\ onDisk \in [Parts -> 0 .. MaxSet]
        /\ drawn \in 0 .. MaxSet
        /\ panel \in [Panels -> PanelTypes]
        /\ initLock \subseteq Panels
        /\ served \subseteq 1 .. MaxSet /\ kept \subseteq 1 .. MaxSet
  BY PartsFacts DEF KeysTypeOK, PanelTypes

LEMMA StartTypes == AtStart \in PanelTypes /\ AtStart.pc = "off" /\ AtStart.next = 1 /\ ~AtStart.seen
                      /\ 0 \in 0 .. MaxSet /\ MaxSet \in Nat
  BY KeysAssumption DEF AtStart, PanelTypes

LEMMA KeysInvInit == KeysInit => KeysInv
  <1> SUFFICES ASSUME KeysInit PROVE KeysInv
    OBVIOUS
  <1>1. \A p \in Panels : panel[p] = AtStart
    BY DEF KeysInit
  <1>2. KeysTypeOK
    BY KeysTypes, StartTypes DEF KeysInit
  <1>3. OnlyHolder /\ WriterAndServers
    BY <1>1, StartTypes DEF OnlyHolder, WriterAndServers, At
  <1>4. FilesOfOneSet
    BY DEF KeysInit, FilesOfOneSet
  <1> QED BY <1>2, <1>3, <1>4 DEF KeysInv

\* What a step does that changes one process p and neither the files nor the
\* history: it keeps the invariant if it does for p.
LEMMA OneProcess ==
    ASSUME KeysInv, NEW p \in Panels, NEW r \in PanelTypes,
           panel' = [panel EXCEPT ![p] = r],
           UNCHANGED <<keyFile, onDisk, kept>>,
           drawn' \in 0 .. MaxSet, served' \subseteq 1 .. MaxSet,
           \/ initLock' \in {initLock, initLock \ {p}} /\ r.pc \notin {"count", "generate", "load"}
           \/ initLock' = {p} /\ initLock \in {{}, {p}},
           r.pc \in {"off", "lock", "count"} => r.next = 1 /\ ~r.seen,
           r.pc = "generate" =>
              /\ r.set # 0 /\ (r.seen => r.next \in Parts)
              /\ \A i \in Parts : keyFile[i] = IF i < r.next THEN r.set ELSE 0,
           r.pc = "serve" => r.set # 0 /\ \A i \in Parts : keyFile[i] = r.set
    PROVE  KeysInv'
  <1>0. /\ panel \in [Panels -> PanelTypes] /\ initLock \subseteq Panels
        /\ keyFile \in [Parts -> 0 .. MaxSet] /\ onDisk \in [Parts -> 0 .. MaxSet]
        /\ kept \subseteq 1 .. MaxSet
    BY KeysTypes DEF KeysInv
  <1>1. panel'[p] = r /\ \A q \in Panels \ {p} : panel'[q] = panel[q]
    BY <1>0
  <1>2. KeysTypeOK'
    <2>1. panel' \in [Panels -> PanelTypes] /\ initLock' \subseteq Panels
      BY <1>0
    <2> QED BY <1>0, <2>1, KeysTypes, PartsFacts DEF KeysTypeOK, PanelTypes
  <1>3. OnlyHolder'
    BY <1>1 DEF KeysInv, OnlyHolder
  <1>4. FilesOfOneSet'
    BY DEF KeysInv, FilesOfOneSet
  <1>5. WriterAndServers'
    BY <1>1 DEF KeysInv, WriterAndServers, At
  <1> QED BY <1>2, <1>3, <1>4, <1>5 DEF KeysInv

\* The steps that change no file.
LEMMA ProcessSteps ==
    ASSUME KeysInv, NEW p \in Panels,
           \/ StartPanel(p) \/ Lock(p) \/ Count(p) \/ FindMissing(p) \/ WriteFails(p)
           \/ Load(p) \/ KillPanel(p)
           \/ GenerateEnds(p) /\ UNCHANGED <<onDisk, kept>>
    PROVE  KeysInv'
  <1>0. /\ panel \in [Panels -> PanelTypes] /\ panel[p] \in PanelTypes
        /\ keyFile \in [Parts -> 0 .. MaxSet]
        /\ drawn \in 0 .. MaxSet /\ initLock \subseteq Panels /\ served \subseteq 1 .. MaxSet
        /\ Parts = 1 .. 6 /\ MaxSet \in Nat
    BY KeysTypes, PartsFacts, StartTypes DEF KeysInv
  <1>1. ASSUME Fatal(p), UNCHANGED <<keyFile, onDisk, kept>>,
               drawn' \in 0 .. MaxSet, served' \subseteq 1 .. MaxSet
        PROVE  KeysInv'
    BY <1>1, OneProcess, StartTypes DEF Fatal, Unlock
  <1>a. /\ panel[p].pc \in {"off", "lock", "count"} => panel[p].next = 1 /\ ~panel[p].seen
        /\ panel[p].pc \in {"count", "generate", "load"} => initLock = {p}
        /\ At(p, "generate") =>
              /\ panel[p].set # 0
              /\ panel[p].seen => panel[p].next \in Parts
              /\ \A i \in Parts : keyFile[i] = IF i < panel[p].next THEN panel[p].set ELSE 0
    BY DEF KeysInv, OnlyHolder, WriterAndServers
  <1>2. CASE StartPanel(p)
    <2> DEFINE r == [panel[p] EXCEPT !.pc = "lock"]
    <2>1. r \in PanelTypes /\ r.pc = "lock" /\ r.next = 1 /\ ~r.seen
      BY <1>0, <1>a, <1>2 DEF PanelTypes, StartPanel, At
    <2>2. panel' = [panel EXCEPT ![p] = r]
      BY <1>2 DEF StartPanel
    <2> HIDE DEF r
    <2> QED BY <1>0, <1>2, <2>1, <2>2, OneProcess DEF StartPanel
  <1>3. CASE Lock(p)
    <2> DEFINE r == [panel[p] EXCEPT !.pc = "count"]
    <2>1. r \in PanelTypes /\ r.pc = "count" /\ r.next = 1 /\ ~r.seen
      BY <1>0, <1>a, <1>3 DEF PanelTypes, Lock, At
    <2>2. panel' = [panel EXCEPT ![p] = r]
      BY <1>3 DEF Lock
    <2> HIDE DEF r
    <2> QED BY <1>0, <1>3, <2>1, <2>2, OneProcess DEF Lock, LockFree
  <1>4. CASE Count(p)
    <2>0. initLock = {p} /\ panel[p].next = 1 /\ ~panel[p].seen
      BY <1>4, <1>a DEF Count, At
    <2>1. CASE /\ MayGenerate /\ drawn < MaxSet /\ drawn' = drawn + 1
               /\ panel' = [panel EXCEPT ![p].pc = "generate", ![p].set = drawn']
               /\ UNCHANGED <<initLock, keyFile, onDisk, served, kept>>
      <3> DEFINE r == [panel[p] EXCEPT !.pc = "generate", !.set = drawn + 1]
      <3>1. drawn + 1 \in 0 .. MaxSet /\ drawn + 1 # 0
        BY <1>0, <2>1
      <3>2. r \in PanelTypes /\ r.pc = "generate" /\ r.set # 0 /\ r.next = 1 /\ ~r.seen
        BY <1>0, <2>0, <3>1 DEF PanelTypes
      <3>3. panel' = [panel EXCEPT ![p] = r]
        BY <2>1
      <3> HIDE DEF r
      <3>4. \A i \in Parts : keyFile[i] = IF i < r.next THEN r.set ELSE 0
        BY <1>0, <2>1, <3>2 DEF MayGenerate, Present
      <3> QED BY <1>0, <2>0, <2>1, <3>1, <3>2, <3>3, <3>4, OneProcess
    <2>2. CASE /\ panel' = [panel EXCEPT ![p].pc = "load"]
               /\ UNCHANGED <<drawn, initLock, keyFile, onDisk, served, kept>>
      <3> DEFINE r == [panel[p] EXCEPT !.pc = "load"]
      <3>1. r \in PanelTypes /\ r.pc = "load"
        BY <1>0 DEF PanelTypes
      <3>2. panel' = [panel EXCEPT ![p] = r]
        BY <2>2
      <3> HIDE DEF r
      <3> QED BY <1>0, <2>0, <2>2, <3>1, <3>2, OneProcess
    <2>3. CASE Fatal(p) /\ UNCHANGED <<drawn, keyFile, onDisk, served, kept>>
      BY <1>0, <1>1, <2>3
    <2> QED BY <1>4, <2>1, <2>2, <2>3 DEF Count
  <1>5. CASE FindMissing(p)
    <2>1. CASE panel' = [panel EXCEPT ![p].seen = TRUE] /\ UNCHANGED initLock
      <3> DEFINE r == [panel[p] EXCEPT !.seen = TRUE]
      <3>1. /\ r \in PanelTypes /\ r.pc = "generate" /\ r.set = panel[p].set
            /\ r.next = panel[p].next /\ r.next \in Parts
        BY <1>0, <1>5 DEF PanelTypes, FindMissing, At
      <3>2. panel' = [panel EXCEPT ![p] = r]
        BY <2>1
      <3> HIDE DEF r
      <3>3. initLock = {p} /\ r.set # 0 /\ \A i \in Parts : keyFile[i] = IF i < r.next THEN r.set ELSE 0
        BY <1>5, <1>a, <3>1 DEF FindMissing, At
      <3> QED BY <1>0, <1>5, <2>1, <3>1, <3>2, <3>3, OneProcess DEF FindMissing
    <2> QED BY <1>0, <1>1, <1>5, <2>1 DEF FindMissing
  <1>6. CASE WriteFails(p) \/ KillPanel(p)
    BY <1>0, <1>1, <1>6 DEF WriteFails, KillPanel
  <1>7. CASE GenerateEnds(p) /\ UNCHANGED <<onDisk, kept>>
    <2>1. CASE panel' = [panel EXCEPT ![p].pc = "load"] /\ UNCHANGED initLock
      <3> DEFINE r == [panel[p] EXCEPT !.pc = "load"]
      <3>1. r \in PanelTypes /\ r.pc = "load"
        BY <1>0 DEF PanelTypes
      <3>2. panel' = [panel EXCEPT ![p] = r]
        BY <2>1
      <3>3. initLock = {p}
        BY <1>a, <1>7 DEF GenerateEnds, At
      <3> HIDE DEF r
      <3> QED BY <1>0, <1>7, <2>1, <3>1, <3>2, <3>3, OneProcess DEF GenerateEnds
    <2> QED BY <1>0, <1>1, <1>7, <2>1 DEF GenerateEnds
  <1>8. CASE Load(p)
    <2>1. CASE /\ Present = Parts /\ Coherent
               /\ panel' = [panel EXCEPT ![p] = [AtStart EXCEPT !.pc = "serve", !.set = keyFile[1]]]
               /\ Unlock(p)
               /\ served' = served \cup {keyFile[1]}
      <3> DEFINE r == [AtStart EXCEPT !.pc = "serve", !.set = keyFile[1]]
      <3>1. \A i \in Parts : keyFile[i] # 0 /\ keyFile[i] = keyFile[1]
        BY <1>0, <2>1 DEF Present, KeysInv, FilesOfOneSet
      <3>2. keyFile[1] \in 0 .. MaxSet /\ keyFile[1] # 0 /\ keyFile[1] \in 1 .. MaxSet
        BY <1>0, <3>1
      <3>3. r \in PanelTypes /\ r.pc = "serve" /\ r.set = keyFile[1]
        BY <3>2, StartTypes DEF PanelTypes
      <3> HIDE DEF r
      <3>4. panel' = [panel EXCEPT ![p] = r]
        BY <2>1 DEF r
      <3>5. \A i \in Parts : keyFile[i] = r.set
        BY <3>1, <3>3
      <3>6. served' \subseteq 1 .. MaxSet
        BY <1>0, <2>1, <3>2
      <3>7. UNCHANGED <<keyFile, onDisk, drawn, kept>> /\ initLock' = initLock \ {p} /\ r.set # 0
        BY <1>8, <2>1, <3>2, <3>3 DEF Load, Unlock
      <3> QED BY <1>0, <3>3, <3>4, <3>5, <3>6, <3>7, OneProcess
    <2> QED BY <1>0, <1>1, <1>8, <2>1 DEF Load
  <1> QED BY <1>2, <1>3, <1>4, <1>5, <1>6, <1>7, <1>8

\* The rename puts the next file of the only set there is in its place; no process
\* serves, and no set is whole on the disk.
LEMMA InstallStep == ASSUME KeysInv, NEW p \in Panels, Install(p) PROVE KeysInv'
  <1> DEFINE n == panel[p].next
             s == panel[p].set
             r == [panel[p] EXCEPT !.next = n + 1, !.seen = FALSE]
  <1>0. /\ panel \in [Panels -> PanelTypes] /\ panel[p] \in PanelTypes
        /\ keyFile \in [Parts -> 0 .. MaxSet] /\ onDisk \in [Parts -> 0 .. MaxSet]
        /\ initLock \subseteq Panels /\ served \subseteq 1 .. MaxSet /\ kept \subseteq 1 .. MaxSet
        /\ drawn \in 0 .. MaxSet /\ Parts = 1 .. 6 /\ MaxSet \in Nat
    BY KeysTypes, PartsFacts, StartTypes DEF KeysInv
  <1>1. /\ initLock = {p} /\ s # 0 /\ n \in Parts /\ s \in 0 .. MaxSet
        /\ \A i \in Parts : keyFile[i] = IF i < n THEN s ELSE 0
    BY <1>0 DEF Install, At, KeysInv, OnlyHolder, WriterAndServers, PanelTypes
  <1>2. /\ r \in PanelTypes /\ r.pc = "generate" /\ r.set = s /\ r.next = n + 1 /\ ~r.seen
    BY <1>0, <1>1 DEF PanelTypes, Install, At
  <1>3. /\ panel' = [panel EXCEPT ![p] = r]
        /\ keyFile' = [keyFile EXCEPT ![n] = s]
        /\ UNCHANGED <<onDisk, drawn, initLock, served, kept>>
    BY DEF Install
  <1> HIDE DEF n, s, r
  <1>4. /\ panel'[p] = r /\ \A q \in Panels \ {p} : panel'[q] = panel[q]
        /\ panel' \in [Panels -> PanelTypes]
    BY <1>0, <1>2, <1>3
  <1>5. /\ keyFile' \in [Parts -> 0 .. MaxSet]
        /\ keyFile'[n] = s /\ \A i \in Parts \ {n} : keyFile'[i] = keyFile[i]
    BY <1>0, <1>1, <1>3
  <1>6. \A i \in Parts : keyFile'[i] = IF i < n + 1 THEN s ELSE 0
    BY <1>0, <1>1, <1>5
  <1>7. keyFile[n] = 0
    BY <1>0, <1>1
  <1>8. kept = {} /\ \A q \in Panels : panel[q].pc # "serve"
    BY <1>0, <1>1, <1>7 DEF KeysInv, FilesOfOneSet, WriterAndServers, At
  <1>9. KeysTypeOK'
    BY <1>0, <1>3, <1>4, <1>5, PartsFacts DEF KeysTypeOK, PanelTypes
  <1>10. OnlyHolder'
    BY <1>1, <1>3, <1>4 DEF KeysInv, OnlyHolder
  <1>11. FilesOfOneSet'
    <2>1. \A i \in Parts : onDisk[i] \in {0, keyFile'[i]}
      BY <1>5, <1>7, <1>1 DEF KeysInv, FilesOfOneSet
    <2> QED BY <1>3, <1>6, <1>8, <2>1 DEF FilesOfOneSet
  <1>12. WriterAndServers'
    <2>1. \A q \in Panels \ {p} : panel[q].pc \notin {"count", "generate", "load"}
      BY <1>1 DEF KeysInv, OnlyHolder
    <2> QED BY <1>2, <1>4, <1>6, <1>8, <2>1, <1>1 DEF KeysInv, WriterAndServers, At
  <1> QED BY <1>9, <1>10, <1>11, <1>12 DEF KeysInv

\* What is synced, by the kernel or by syncDir, is what is there.
LEMMA SyncKeeps ==
    ASSUME KeysInv, SyncDir, UNCHANGED <<keyFile, drawn, panel, initLock, served>>
    PROVE  KeysInv'
  <1>1. WholeSet(keyFile) \subseteq 1 .. MaxSet
    BY DEF WholeSet
  <1>2. KeysTypeOK'
    BY <1>1, PartsFacts DEF KeysInv, KeysTypeOK, SyncDir
  <1>3. FilesOfOneSet'
    BY DEF KeysInv, FilesOfOneSet, SyncDir, WholeSet
  <1>4. OnlyHolder' /\ WriterAndServers'
    BY DEF KeysInv, OnlyHolder, WriterAndServers, At
  <1> QED BY <1>2, <1>3, <1>4 DEF KeysInv

\* What a power failure leaves is still of one set, and all of a set that was whole
\* on the disk.
LEMMA PowerKeeps == ASSUME KeysInv, PowerLoss PROVE KeysInv'
  <1>0. /\ keyFile \in [Parts -> 0 .. MaxSet] /\ onDisk \in [Parts -> 0 .. MaxSet]
        /\ drawn \in 0 .. MaxSet /\ served \subseteq 1 .. MaxSet /\ kept \subseteq 1 .. MaxSet
    BY KeysTypes DEF KeysInv
  <1>1. keyFile' \in [Parts -> {0} \cup {keyFile[i] : i \in Parts}]
    BY DEF PowerLoss
  <1>2. keyFile' \in [Parts -> 0 .. MaxSet]
    BY <1>0, <1>1, StartTypes
  <1>3. \A i \in Parts : keyFile'[i] \in {keyFile[i], onDisk[i]} /\ onDisk[i] \in {0, keyFile[i]}
    BY DEF PowerLoss, KeysInv, FilesOfOneSet
  <1>4. /\ onDisk' = keyFile' /\ kept' = kept \cup WholeSet(keyFile')
        /\ panel' = [p \in Panels |-> AtStart] /\ initLock' = {} /\ UNCHANGED <<drawn, served>>
    BY DEF PowerLoss
  <1>5. panel' \in [Panels -> PanelTypes] /\ \A p \in Panels : panel'[p] = AtStart
    BY <1>4, StartTypes
  <1>6. WholeSet(keyFile') \subseteq 1 .. MaxSet
    BY DEF WholeSet
  <1>7. KeysTypeOK'
    <2>1. kept' \subseteq 1 .. MaxSet /\ onDisk' \in [Parts -> 0 .. MaxSet] /\ initLock' \subseteq Panels
      BY <1>0, <1>2, <1>4, <1>6
    <2>2. panel' \in [Panels -> [pc : {"off", "lock", "count", "generate", "load", "serve"},
                                 set : 0 .. MaxSet, next : 1 .. Len(Names) + 1, seen : BOOLEAN]]
      BY <1>5, PartsFacts DEF PanelTypes
    <2> QED BY <1>0, <1>2, <1>4, <2>1, <2>2 DEF KeysTypeOK
  <1>8. OnlyHolder' /\ WriterAndServers'
    BY <1>5, StartTypes DEF OnlyHolder, WriterAndServers, At
  <1>9. FilesOfOneSet'
    <2>1. \A i, j \in Parts : keyFile'[i] # 0 /\ keyFile'[j] # 0 => keyFile'[i] = keyFile'[j]
      BY <1>3 DEF KeysInv, FilesOfOneSet
    <2>2. \A t \in kept' : \A i \in Parts : keyFile'[i] = t
      BY <1>3, <1>4 DEF KeysInv, FilesOfOneSet, WholeSet
    <2> QED BY <1>4, <2>1, <2>2 DEF FilesOfOneSet
  <1> QED BY <1>7, <1>8, <1>9 DEF KeysInv

LEMMA KeysStep == KeysInv /\ [KeysNext]_keysVars => KeysInv'
  <1> SUFFICES ASSUME KeysInv, [KeysNext]_keysVars PROVE KeysInv'
    OBVIOUS
  <1>1. ASSUME NEW p \in Panels, GenerateEnds(p), ~UNCHANGED <<onDisk, kept>> PROVE KeysInv'
    <2>1. /\ At(p, "generate") /\ SyncDir
          /\ panel' = [panel EXCEPT ![p].pc = "load"] /\ UNCHANGED <<initLock, keyFile, drawn, served>>
      BY <1>1 DEF GenerateEnds
    <2>2. /\ panel \in [Panels -> PanelTypes] /\ panel[p] \in PanelTypes
      BY KeysTypes DEF KeysInv
    <2> DEFINE r == [panel[p] EXCEPT !.pc = "load"]
    <2>3. r \in PanelTypes /\ r.pc = "load"
      BY <2>2 DEF PanelTypes
    <2>4. panel' = [panel EXCEPT ![p] = r]
      BY <2>1
    <2> HIDE DEF r
    <2>5. /\ panel'[p] = r /\ \A q \in Panels \ {p} : panel'[q] = panel[q]
          /\ panel' \in [Panels -> PanelTypes]
      BY <2>2, <2>3, <2>4
    <2>6. KeysTypeOK'
      <3>1. WholeSet(keyFile) \subseteq 1 .. MaxSet
        BY DEF WholeSet
      <3> QED BY <2>1, <2>5, <3>1, PartsFacts DEF KeysInv, KeysTypeOK, SyncDir, PanelTypes
    <2>7. OnlyHolder' /\ WriterAndServers'
      BY <2>1, <2>3, <2>5 DEF KeysInv, OnlyHolder, WriterAndServers, At
    <2>8. FilesOfOneSet'
      BY <2>1 DEF KeysInv, FilesOfOneSet, SyncDir, WholeSet
    <2> QED BY <2>6, <2>7, <2>8 DEF KeysInv
  <1>2. CASE UNCHANGED keysVars
    BY <1>2 DEF keysVars, KeysInv, KeysTypeOK, OnlyHolder, FilesOfOneSet, WriterAndServers, At
  <1>3. ASSUME NEW p \in Panels,
               \/ StartPanel(p) \/ Lock(p) \/ Count(p) \/ FindMissing(p) \/ Install(p)
               \/ WriteFails(p) \/ GenerateEnds(p) \/ Load(p) \/ KillPanel(p)
        PROVE  KeysInv'
    <2>1. CASE GenerateEnds(p) /\ UNCHANGED <<onDisk, kept>>
      BY <2>1, ProcessSteps
    <2>2. CASE GenerateEnds(p) /\ ~UNCHANGED <<onDisk, kept>>
      BY <2>2, <1>1
    <2>3. CASE Install(p)
      BY <2>3, InstallStep
    <2>4. CASE ~GenerateEnds(p) /\ ~Install(p)
      BY <1>3, <2>4, ProcessSteps
    <2> QED BY <2>1, <2>2, <2>3, <2>4
  <1>4. CASE WriteBack
    BY <1>4, SyncKeeps DEF WriteBack
  <1>5. CASE PowerLoss
    BY <1>5, PowerKeeps
  <1> QED BY <1>2, <1>3, <1>4, <1>5 DEF KeysNext

\* Processes that start together serve one set of keys, and a set that was served
\* and reached the disk is never replaced or taken apart, for every number of
\* processes, whoever is killed, fails to write or to sync, or loses the power.
THEOREM ServedTrustIsKept == KeysSpec => []TrustIsKept
  <1>1. KeysInv => TrustIsKept
    <2> SUFFICES ASSUME KeysInv PROVE TrustIsKept
      OBVIOUS
    <2>1. \A p \in Panels : At(p, "serve") => panel[p].set = keyFile[1]
      BY PartsFacts DEF KeysInv, WriterAndServers
    <2>2. \A s \in served \cap kept : s \in WholeSet(keyFile)
      BY DEF KeysInv, KeysTypeOK, FilesOfOneSet, WholeSet
    <2> QED BY <2>1, <2>2 DEF TrustIsKept
  <1> QED BY <1>1, KeysInvInit, KeysStep, PTL DEF KeysSpec

\* The files of the trust set, what is on disk and the starting processes keep their
\* types for every number of processes, sets of keys and parts of a set.
THEOREM KeysTypeCorrect == KeysSpec => []KeysTypeOK
  <1>1. KeysInv => KeysTypeOK
    BY DEF KeysInv
  <1> QED BY <1>1, KeysInvInit, KeysStep, PTL DEF KeysSpec

-----------------------------------------------------------------------------
(* Alerting, for every number of nodes, rules and rows.                     *)

Statuses == {"none", "firing", "acknowledged", "recovered"}

AlertTypes ==
    /\ \A i \in Used : i \in Nat \ {0} /\ alert[i] \in Alerts
    /\ \E b \in Nat : \A i \in Used : i <= b
    /\ existing \in [AlertKeys -> [id : Nat, status : Statuses]]
    /\ triggered \subseteq AlertKeys /\ left \subseteq AlertKeys
    /\ spent \in [DOMAIN Budgets -> Nat]

Firing(i) == alert[i].status = "firing"
Open(k) == \E i \in RowsOf(k) : alert[i].status # "recovered"

\* Of the rows of a key only the newest may be firing.
FiringIsNewest ==
    \A i, j \in Used : alert[i].key = alert[j].key /\ i < j => ~Firing(i)

\* What Evaluate is going to insert meets no firing row.
InsertsAreFree ==
    /\ eval = "nodes" => \A k \in AlertKeys : Raises(k) => ~Conflicts(k)
    /\ eval = "fire" => \A k \in left : ~Conflicts(k)

\* Until a node is deleted, what Evaluate loaded is there, and what it has found
\* triggered is open or still to be inserted.
LoadIsTrue ==
    spent.delete = 0 =>
        /\ eval \in {"nodes", "fire", "recover"} =>
              \A k \in AlertKeys : existing[k].status = "firing" => existing[k].id \in RowsOf(k)
        /\ eval = "nodes" => \A k \in AlertKeys : ~Raises(k) => Open(k)
        /\ eval = "fire" => \A k \in triggered \ left : Open(k)
        /\ eval \in {"recover", "notify"} => \A k \in triggered : Open(k)
        /\ eval = "recover" => \A k \in left : existing[k].status = "firing" /\ k \notin triggered

\* Until something fails, a firing row nobody was told of has its notice.
UntoldIsNoticed ==
    spent.failure = 0 =>
        \A i \in Used : Firing(i) /\ ~alert[i].told =>
            /\ eval \in {"fire", "recover", "notify"}
            /\ [of |-> i, kind |-> "firing"] \in notices

AlertInv == AlertTypes /\ FiringIsNewest /\ InsertsAreFree /\ LoadIsTrue /\ UntoldIsNoticed

LEMMA BudgetKinds == DOMAIN Budgets = {"event", "ack", "delete", "failure"}
  BY DEF Budgets

LEMMA AlertStart == AlertInit => AlertInv
  <1> SUFFICES ASSUME AlertInit PROVE AlertInv
    OBVIOUS
  <1>1. Used = {} /\ eval = "idle"
    BY DEF AlertInit, Used
  <1>2. AlertTypes
    <2>1. \E b \in Nat : \A i \in Used : i <= b
      BY <1>1
    <2> QED BY <1>1, <2>1 DEF AlertInit, AlertTypes, NoneLoaded, Statuses
  <1> QED BY <1>1, <1>2 DEF AlertInv, FiringIsNewest, InsertsAreFree, LoadIsTrue, UntoldIsNoticed

\* A budget only grows.
LEMMA SpendFacts ==
    ASSUME AlertTypes, NEW kind \in DOMAIN Budgets, Spend(kind)
    PROVE  /\ spent' \in [DOMAIN Budgets -> Nat]
           /\ spent'[kind] # 0
           /\ \A other \in DOMAIN Budgets \ {kind} : spent'[other] = spent[other]
  BY DEF AlertTypes, Spend

LEMMA NewIdFacts == AlertTypes => NewId \in Nat \ {0} /\ \A i \in Used : i < NewId
  <1> SUFFICES ASSUME AlertTypes PROVE NewId \in Nat \ {0} /\ \A i \in Used : i < NewId
    OBVIOUS
  <1>1. Used \subseteq Nat
    BY DEF AlertTypes
  <1>2. PICK b \in Nat : \A i \in Used : i <= b
    BY DEF AlertTypes
  <1>3. CASE Used = {}
    BY <1>3 DEF NewId
  <1>4. CASE Used # {}
    <2>1. Max(Used) \in Used /\ \A i \in Used : i <= Max(Used)
      BY <1>1, <1>2, <1>4, GreatestIsThere
    <2>2. NewId = Max(Used) + 1
      BY <1>4 DEF NewId
    <2> DEFINE m == Max(Used)
    <2> HIDE DEF m
    <2>3. m \in Nat /\ (\A i \in Used : i <= m) /\ NewId = m + 1
      BY <1>1, <2>1, <2>2 DEF m
    <2> QED BY <1>1, <2>3
  <1> QED BY <1>3, <1>4

LEMMA LatestFacts ==
    ASSUME AlertTypes, NEW k, RowsOf(k) # {}
    PROVE  Latest(k) \in RowsOf(k) /\ \A i \in RowsOf(k) : i <= Latest(k)
  <1>1. RowsOf(k) \subseteq Nat
    BY DEF AlertTypes, RowsOf
  <1>2. PICK b \in Nat : \A i \in RowsOf(k) : i <= b
    BY DEF AlertTypes, RowsOf
  <1> QED BY <1>1, <1>2, GreatestIsThere DEF Latest

\* Steps that leave the rows and Evaluate alone.
LEMMA RowsAlone ==
    ASSUME AlertInv, UNCHANGED <<alert, evalVars>>, spent' \in [DOMAIN Budgets -> Nat],
           spent'.delete = 0 => spent.delete = 0, spent'.failure = 0 => spent.failure = 0
    PROVE  AlertInv'
  <1>1. AlertTypes'
    BY DEF AlertInv, AlertTypes, evalVars, Used
  <1>2. FiringIsNewest' /\ InsertsAreFree' /\ LoadIsTrue' /\ UntoldIsNoticed'
    BY DEF AlertInv, FiringIsNewest, InsertsAreFree, LoadIsTrue, UntoldIsNoticed, evalVars, Used,
           Firing, Raises, Conflicts, RowsOf, Open
  <1> QED BY <1>1, <1>2 DEF AlertInv

LEMMA ApiKeeps ==
    ASSUME AlertInv,
           \/ \E n \in Nodes : \/ \E facts \in SUBSET Facts : Report(n, facts)
                               \/ FallSilent(n) \/ Mute(n)
           \/ DeleteRow
    PROVE  AlertInv'
  <1>1. UNCHANGED <<alert, evalVars>> /\ (Spend("event") \/ UNCHANGED spent)
    BY DEF Report, FallSilent, Mute, DeleteRow
  <1>2. /\ spent' \in [DOMAIN Budgets -> Nat]
        /\ spent'.delete = spent.delete /\ spent'.failure = spent.failure
    <2>1. CASE Spend("event")
      BY <2>1, SpendFacts, BudgetKinds DEF AlertInv
    <2> QED BY <1>1, <2>1 DEF AlertInv, AlertTypes
  <1> QED BY <1>1, <1>2, RowsAlone

LEMMA AcknowledgeKeeps == ASSUME AlertInv, NEW i \in Used, Acknowledge(i) PROVE AlertInv'
  <1>1. /\ UNCHANGED evalVars
        /\ Used' = Used
        /\ \A j \in Used : /\ alert'[j].key = alert[j].key /\ alert'[j].told = alert[j].told
                           /\ alert'[j].status \in {alert[j].status, "acknowledged"}
                           /\ alert'[j] \in Alerts
    BY DEF Acknowledge, Used, AlertInv, AlertTypes, Alerts
  <1>2. /\ spent' \in [DOMAIN Budgets -> Nat]
        /\ spent'.delete = spent.delete /\ spent'.failure = spent.failure
    BY SpendFacts, BudgetKinds DEF AlertInv, Acknowledge
  <1>3. AlertTypes'
    BY <1>1, <1>2 DEF AlertInv, AlertTypes, evalVars
  <1>4. \A k : RowsOf(k)' = RowsOf(k)
    BY <1>1 DEF RowsOf
  <1>5. \A j \in Used : Firing(j)' => Firing(j)
    BY <1>1 DEF Firing
  <1>6. FiringIsNewest' /\ UntoldIsNoticed'
    BY <1>1, <1>2, <1>5 DEF AlertInv, FiringIsNewest, UntoldIsNoticed, evalVars
  <1>7. \A k : Open(k) => Open(k)'
    BY <1>1, <1>4 DEF Open, RowsOf
  <1>8. \A k : Conflicts(k)' => Conflicts(k)
    BY <1>1, <1>4 DEF Conflicts, RowsOf
  <1>9. InsertsAreFree' /\ LoadIsTrue'
    BY <1>1, <1>2, <1>4, <1>7, <1>8 DEF AlertInv, InsertsAreFree, LoadIsTrue, evalVars, Raises
  <1> QED BY <1>3, <1>6, <1>9 DEF AlertInv

LEMMA DeleteKeeps == ASSUME AlertInv, NEW n \in Nodes, DeleteAlerts(n) PROVE AlertInv'
  <1>1. /\ UNCHANGED evalVars
        /\ Used' \subseteq Used
        /\ \A j \in Used' : alert'[j] = alert[j]
    BY DEF DeleteAlerts, Used
  <1>2. /\ spent' \in [DOMAIN Budgets -> Nat]
        /\ spent'.delete # 0 /\ spent'.failure = spent.failure
    BY SpendFacts, BudgetKinds DEF AlertInv, DeleteAlerts
  <1>3. AlertTypes'
    <2>1. \E b \in Nat : \A i \in Used' : i <= b
      BY <1>1 DEF AlertInv, AlertTypes
    <2> QED BY <1>1, <1>2, <2>1 DEF AlertInv, AlertTypes, evalVars
  <1>4. FiringIsNewest' /\ UntoldIsNoticed' /\ LoadIsTrue'
    BY <1>1, <1>2 DEF AlertInv, FiringIsNewest, UntoldIsNoticed, LoadIsTrue, evalVars, Firing
  <1>5. \A k : Conflicts(k)' => Conflicts(k)
    BY <1>1 DEF Conflicts, RowsOf
  <1>6. InsertsAreFree'
    BY <1>1, <1>5 DEF AlertInv, InsertsAreFree, evalVars, Raises
  <1> QED BY <1>3, <1>4, <1>6 DEF AlertInv

LEMMA LoadKeeps == ASSUME AlertInv, LoadAlerts \/ LoadNodes PROVE AlertInv'
  <1>0. UNCHANGED <<alert, spent, notices>> /\ Used' = Used /\ (\A k : RowsOf(k)' = RowsOf(k))
    BY DEF LoadAlerts, LoadNodes, Used, RowsOf
  <1>1. FiringIsNewest' /\ UntoldIsNoticed'
    BY <1>0 DEF AlertInv, FiringIsNewest, UntoldIsNoticed, LoadAlerts, LoadNodes, Firing
  <1>2. CASE LoadAlerts
    <2>0. /\ eval' = "nodes" /\ UNCHANGED <<triggered, left>>
          /\ existing' = [k \in AlertKeys |-> IF RowsOf(k) = {} THEN NoneLoaded
                                   ELSE [id |-> Latest(k), status |-> alert[Latest(k)].status]]
      BY <1>2 DEF LoadAlerts
    <2>1. ASSUME NEW k \in AlertKeys
          PROVE  /\ existing'[k] \in [id : Nat, status : Statuses]
                 /\ Raises(k)' => ~Conflicts(k)
                 /\ ~Raises(k)' => Open(k)
                 /\ existing'[k].status = "firing" => existing'[k].id \in RowsOf(k)
      <3>1. CASE RowsOf(k) = {}
        <4>1. existing'[k] = NoneLoaded
          BY <2>0, <3>1
        <4> QED BY <3>1, <4>1 DEF NoneLoaded, Statuses, Raises, Conflicts
      <3>2. CASE RowsOf(k) # {}
        <4> DEFINE i == Latest(k)
        <4>1. i \in RowsOf(k) /\ \A j \in RowsOf(k) : j <= i
          BY <3>2, LatestFacts DEF AlertInv
        <4>2. i \in Used /\ i \in Nat /\ alert[i] \in Alerts
          BY <4>1 DEF RowsOf, AlertInv, AlertTypes
        <4>3. existing'[k] = [id |-> i, status |-> alert[i].status]
          BY <2>0, <3>2
        <4>4. ASSUME alert[i].status # "firing" PROVE ~Conflicts(k)
          <5> SUFFICES ASSUME NEW j \in RowsOf(k), alert[j].status = "firing" PROVE FALSE
            BY DEF Conflicts
          <5>1. j < i
            BY <4>1, <4>2, <4>4 DEF RowsOf, AlertInv, AlertTypes
          <5> QED BY <4>1, <4>2, <5>1 DEF RowsOf, AlertInv, FiringIsNewest, Firing
        <4> HIDE DEF i
        <4>5. existing'[k] \in [id : Nat, status : Statuses]
          BY <4>2, <4>3 DEF Alerts, Statuses
        <4>6. Raises(k)' <=> alert[i].status = "recovered"
          BY <4>2, <4>3 DEF Raises, Alerts
        <4> QED BY <4>1, <4>3, <4>4, <4>5, <4>6 DEF Open
      <3> QED BY <3>1, <3>2
    <2>2. AlertTypes'
      <3>1. existing' \in [AlertKeys -> [id : Nat, status : Statuses]]
        BY <2>0, <2>1
      <3> QED BY <1>0, <2>0, <3>1 DEF AlertInv, AlertTypes
    <2>3. \A k : (Conflicts(k)' <=> Conflicts(k)) /\ (Open(k)' <=> Open(k))
      BY <1>0 DEF Conflicts, Open
    <2>4. InsertsAreFree' /\ LoadIsTrue'
      BY <1>0, <2>0, <2>1, <2>3 DEF InsertsAreFree, LoadIsTrue
    <2> QED BY <1>1, <2>2, <2>4 DEF AlertInv
  <1>3. CASE LoadNodes
    <2>0. /\ eval = "nodes" /\ eval' = "fire" /\ existing' = existing
          /\ triggered' \subseteq AlertKeys
          /\ left' = {k \in triggered' : Raises(k)}
      BY <1>3 DEF LoadNodes
    <2>1. AlertTypes'
      BY <1>0, <2>0 DEF AlertInv, AlertTypes
    <2>2. \A k : (Conflicts(k)' <=> Conflicts(k)) /\ (Open(k)' <=> Open(k))
      BY <1>0 DEF Conflicts, Open
    <2>3. InsertsAreFree' /\ LoadIsTrue'
      BY <1>0, <2>0, <2>2 DEF AlertInv, InsertsAreFree, LoadIsTrue
    <2> QED BY <1>1, <2>1, <2>3 DEF AlertInv
  <1> QED BY <1>2, <1>3

LEMMA FireKeeps == ASSUME AlertInv, NEW k \in AlertKeys, Fire(k) PROVE AlertInv'
  <1> DEFINE row == [key |-> k, status |-> "firing", told |-> FALSE]
             new == NewId
  <1>0. /\ new \in Nat \ {0} /\ \A i \in Used : i < new
    BY NewIdFacts DEF AlertInv
  <1>1. /\ eval = "fire" /\ k \in left /\ ~Conflicts(k)
        /\ Used' = Used \cup {new}
        /\ alert'[new] = row
        /\ \A i \in Used : alert'[i] = alert[i]
        /\ notices' = notices \cup {[of |-> new, kind |-> "firing"]}
        /\ left' = left \ {k}
        /\ UNCHANGED <<eval, existing, triggered, spent>>
    <2>1. \A i \in Used : i # new
      BY <1>0 DEF AlertInv, AlertTypes
    <2> QED BY <2>1 DEF Fire, Used
  <1>2. row \in Alerts
    BY DEF Alerts
  <1> HIDE DEF new
  <1>3. AlertTypes'
    <2>1. \E b \in Nat : \A i \in Used' : i <= b
      <3>1. \A i \in Used' : i <= new
        BY <1>0, <1>1 DEF AlertInv, AlertTypes
      <3> QED BY <1>0, <3>1
    <2>2. \A i \in Used' : i \in Nat \ {0} /\ alert'[i] \in Alerts
      BY <1>0, <1>1, <1>2 DEF AlertInv, AlertTypes
    <2> QED BY <1>1, <2>1, <2>2 DEF AlertInv, AlertTypes
  <1>4. \A l : RowsOf(l)' = IF l = k THEN RowsOf(l) \cup {new} ELSE RowsOf(l)
    BY <1>1 DEF RowsOf
  <1>5. FiringIsNewest'
    <2> SUFFICES ASSUME NEW i \in Used', NEW j \in Used', alert'[i].key = alert'[j].key, i < j
                 PROVE  ~Firing(i)'
      BY DEF FiringIsNewest
    <2>1. i \in Used
      BY <1>0, <1>1 DEF AlertInv, AlertTypes
    <2>2. CASE j \in Used
      BY <1>1, <2>1, <2>2 DEF AlertInv, FiringIsNewest, Firing
    <2>3. CASE j = new
      <3>1. i \in RowsOf(k)
        BY <1>1, <2>1, <2>3 DEF RowsOf
      <3> QED BY <1>1, <2>1, <3>1 DEF Conflicts, Firing
    <2> QED BY <1>1, <2>2, <2>3
  <1>6. \A l \in left \ {k} : Conflicts(l)' => Conflicts(l)
    BY <1>1, <1>4 DEF Conflicts, RowsOf
  <1>7. InsertsAreFree'
    BY <1>1, <1>6 DEF AlertInv, InsertsAreFree
  <1>8. Open(k)' /\ \A l : Open(l) => Open(l)'
    BY <1>1, <1>4 DEF Open, RowsOf
  <1>9. LoadIsTrue'
    BY <1>1, <1>4, <1>8 DEF AlertInv, LoadIsTrue
  <1>10. UntoldIsNoticed'
    BY <1>1 DEF AlertInv, UntoldIsNoticed, Firing
  <1> QED BY <1>3, <1>5, <1>7, <1>9, <1>10 DEF AlertInv

LEMMA RecoverKeeps == ASSUME AlertInv, NEW k \in AlertKeys, Recover(k) PROVE AlertInv'
  <1> DEFINE i == existing[k].id
  <1>1. /\ eval = "recover" /\ k \in left
        /\ Used' = Used
        /\ \A j \in Used : /\ j # i => alert'[j] = alert[j]
                           /\ j = i => alert'[j] = [alert[j] EXCEPT !.status = "recovered"]
        /\ notices \subseteq notices' /\ left' = left \ {k}
        /\ UNCHANGED <<eval, existing, triggered, spent>>
    BY DEF Recover, RecoveredRow, Used
  <1> HIDE DEF i
  <1>2. \A j \in Used : /\ alert'[j].key = alert[j].key /\ alert'[j].told = alert[j].told
                        /\ alert'[j] \in Alerts
                        /\ Firing(j)' => Firing(j)
    <2> SUFFICES ASSUME NEW j \in Used
                 PROVE  /\ alert'[j].key = alert[j].key /\ alert'[j].told = alert[j].told
                        /\ alert'[j] \in Alerts
                        /\ Firing(j)' => Firing(j)
      OBVIOUS
    <2>1. alert[j] \in Alerts
      BY DEF AlertInv, AlertTypes
    <2>2. alert'[j] = alert[j] \/ alert'[j] = [alert[j] EXCEPT !.status = "recovered"]
      BY <1>1
    <2> QED BY <2>1, <2>2 DEF Alerts, Firing
  <1>3. AlertTypes'
    BY <1>1, <1>2 DEF AlertInv, AlertTypes
  <1>4. FiringIsNewest' /\ UntoldIsNoticed' /\ InsertsAreFree'
    BY <1>1, <1>2 DEF AlertInv, FiringIsNewest, UntoldIsNoticed, InsertsAreFree
  <1>5. \A l : RowsOf(l)' = RowsOf(l)
    BY <1>1, <1>2 DEF RowsOf
  <1>6. ASSUME spent.delete = 0, NEW l \in triggered, Open(l) PROVE Open(l)'
    <2>1. i \in RowsOf(k) /\ l # k
      BY <1>1, <1>6 DEF AlertInv, LoadIsTrue, i
    <2> QED BY <1>1, <1>5, <1>6, <2>1 DEF Open, RowsOf
  <1>7. LoadIsTrue'
    BY <1>1, <1>5, <1>6 DEF AlertInv, LoadIsTrue
  <1> QED BY <1>3, <1>4, <1>7 DEF AlertInv

LEMMA BeginKeeps == ASSUME AlertInv, BeginRecover \/ BeginNotify PROVE AlertInv'
  <1>1. /\ UNCHANGED <<alert, existing, triggered, notices, spent>> /\ left = {}
        /\ Used' = Used /\ (\A k : RowsOf(k)' = RowsOf(k))
        /\ \/ eval = "fire" /\ eval' = "recover" /\ left' = {k \in AlertKeys : Recovers(k)}
           \/ eval = "recover" /\ eval' = "notify" /\ left' = {}
    BY DEF BeginRecover, BeginNotify, Used, RowsOf
  <1>2. AlertTypes'
    BY <1>1 DEF AlertInv, AlertTypes
  <1>3. FiringIsNewest' /\ UntoldIsNoticed' /\ InsertsAreFree'
    BY <1>1 DEF AlertInv, FiringIsNewest, UntoldIsNoticed, InsertsAreFree, Firing
  <1>4. \A k : Open(k)' <=> Open(k)
    BY <1>1 DEF Open
  <1>5. LoadIsTrue'
    BY <1>1, <1>4 DEF AlertInv, LoadIsTrue, Recovers
  <1> QED BY <1>2, <1>3, <1>5 DEF AlertInv

LEMMA NotifyKeeps == ASSUME AlertInv, NEW x \in notices, Notify(x) PROVE AlertInv'
  <1>1. /\ eval = "notify" /\ notices' = notices \ {x}
        /\ Used' = Used
        /\ UNCHANGED <<eval, existing, triggered, left, spent>>
        /\ \A j \in Used : \/ alert'[j] = alert[j] /\ ~(x.kind = "firing" /\ x.of = j)
                           \/ alert'[j] = [alert[j] EXCEPT !.told = TRUE]
    BY DEF Notify, MayNotify, Used
  <1>2. \A j \in Used : /\ alert'[j].key = alert[j].key /\ alert'[j].status = alert[j].status
                        /\ alert'[j] \in Alerts
                        /\ ~alert'[j].told => ~alert[j].told /\ ~(x.kind = "firing" /\ x.of = j)
    <2> SUFFICES ASSUME NEW j \in Used
                 PROVE  /\ alert'[j].key = alert[j].key /\ alert'[j].status = alert[j].status
                        /\ alert'[j] \in Alerts
                        /\ ~alert'[j].told => ~alert[j].told /\ ~(x.kind = "firing" /\ x.of = j)
      OBVIOUS
    <2>1. alert[j] \in Alerts
      BY DEF AlertInv, AlertTypes
    <2>2. \/ alert'[j] = alert[j] /\ ~(x.kind = "firing" /\ x.of = j)
          \/ alert'[j] = [alert[j] EXCEPT !.told = TRUE]
      BY <1>1
    <2> QED BY <2>1, <2>2 DEF Alerts
  <1>3. AlertTypes'
    BY <1>1, <1>2 DEF AlertInv, AlertTypes
  <1>4. FiringIsNewest' /\ UntoldIsNoticed' /\ InsertsAreFree'
    BY <1>1, <1>2 DEF AlertInv, FiringIsNewest, UntoldIsNoticed, InsertsAreFree, Firing
  <1>5. \A l : RowsOf(l)' = RowsOf(l)
    BY <1>1, <1>2 DEF RowsOf
  <1>6. \A k : Open(k) => Open(k)'
    BY <1>2, <1>5 DEF Open, RowsOf
  <1>7. LoadIsTrue'
    BY <1>1, <1>5, <1>6 DEF AlertInv, LoadIsTrue
  <1> QED BY <1>3, <1>4, <1>7 DEF AlertInv

LEMMA FailedSendKeeps == ASSUME AlertInv, NEW x \in notices, NotifyFails(x) PROVE AlertInv'
  <1>1. /\ eval = "notify" /\ UNCHANGED <<alert, eval, existing, triggered, left>>
        /\ Used' = Used /\ (\A k : RowsOf(k)' = RowsOf(k))
    BY DEF NotifyFails, MayNotify, Used, RowsOf
  <1>2. /\ spent' \in [DOMAIN Budgets -> Nat]
        /\ spent'.delete = spent.delete /\ spent'.failure # 0
    BY SpendFacts, BudgetKinds DEF AlertInv, NotifyFails
  <1>3. AlertTypes'
    BY <1>1, <1>2 DEF AlertInv, AlertTypes
  <1>4. FiringIsNewest' /\ UntoldIsNoticed' /\ InsertsAreFree'
    BY <1>1, <1>2 DEF AlertInv, FiringIsNewest, UntoldIsNoticed, InsertsAreFree, Firing
  <1>5. \A k : Open(k)' <=> Open(k)
    BY <1>1 DEF Open
  <1>6. LoadIsTrue'
    BY <1>1, <1>2, <1>5 DEF AlertInv, LoadIsTrue
  <1> QED BY <1>3, <1>4, <1>6 DEF AlertInv

LEMMA EndKeeps == ASSUME AlertInv, EvaluateReturns \/ EvaluateAborts PROVE AlertInv'
  <1>1. /\ eval' = "idle" /\ triggered' = {} /\ left' = {}
        /\ existing' = [k \in AlertKeys |-> NoneLoaded]
        /\ alert' = alert /\ Used' = Used
    BY DEF EvaluateReturns, EvaluateAborts, Forget, Used
  <1>2. \/ eval = "notify" /\ notices = {} /\ UNCHANGED spent
        \/ spent' \in [DOMAIN Budgets -> Nat] /\ spent'.failure # 0
    BY SpendFacts, BudgetKinds DEF AlertInv, EvaluateReturns, EvaluateAborts, Finished
  <1>3. AlertTypes'
    BY <1>1, <1>2 DEF AlertInv, AlertTypes, NoneLoaded, Statuses
  <1>4. FiringIsNewest' /\ InsertsAreFree' /\ LoadIsTrue'
    BY <1>1 DEF AlertInv, FiringIsNewest, InsertsAreFree, LoadIsTrue, Firing
  <1>5. UntoldIsNoticed'
    BY <1>1, <1>2 DEF AlertInv, UntoldIsNoticed, Firing
  <1> QED BY <1>3, <1>4, <1>5 DEF AlertInv

LEMMA AlertStep == AlertInv /\ [AlertNext]_alertVars => AlertInv'
  <1> SUFFICES ASSUME AlertInv, [AlertNext]_alertVars PROVE AlertInv'
    OBVIOUS
  <1>1. CASE UNCHANGED alertVars
    BY <1>1, RowsAlone DEF alertVars, evalVars, AlertInv, AlertTypes
  <1>2. CASE Evaluate
    BY <1>2, LoadKeeps, BeginKeeps, EndKeeps, FireKeeps, RecoverKeeps, NotifyKeeps DEF Evaluate
  <1> QED BY <1>1, <1>2, ApiKeeps, AcknowledgeKeeps, DeleteKeeps, FailedSendKeeps, EndKeeps
          DEF AlertNext

\* Through acknowledgements, deletions, failures and restarts the index never
\* refuses an insert of Evaluate, and what it found triggered is open when it
\* comes to notify, unless a node was deleted.
THEOREM TriggeredStaysOpen == AlertSpec => []TriggeredIsOpen
  <1>1. AlertInv => TriggeredIsOpen
    BY DEF AlertInv, InsertsAreFree, LoadIsTrue, TriggeredIsOpen, Open
  <1> QED BY <1>1, AlertStart, AlertStep, PTL DEF AlertSpec

\* Until a statement or a send fails, every alert that fires is announced by the
\* end of the evaluation that raised it, also when its row is acknowledged,
\* deleted or takes the identifier of a deleted one.
THEOREM FiringIsAnnounced == AlertSpec => []EveryFiringIsTold
  <1>1. AlertInv => EveryFiringIsTold
    BY DEF AlertInv, UntoldIsNoticed, EveryFiringIsTold, Firing
  <1> QED BY <1>1, AlertStart, AlertStep, PTL DEF AlertSpec

\* What no step of Evaluate has to know of the types.
RestAlertTypes ==
    /\ node \in [Nodes -> [row : BOOLEAN, heard : BOOLEAN, muted : BOOLEAN, facts : SUBSET Facts]]
    /\ eval \in {"idle", "nodes", "fire", "recover", "notify"}
    /\ \A x \in notices : x.of \in Nat /\ x.kind \in {"firing", "recovered"}
    /\ deleting \in Nodes \cup {NoNode}

LEMMA RestAlertStep == ASSUME AlertInv, RestAlertTypes, [AlertNext]_alertVars PROVE RestAlertTypes'
  <1>1. node' \in [Nodes -> [row : BOOLEAN, heard : BOOLEAN, muted : BOOLEAN, facts : SUBSET Facts]]
    <2>1. \/ node' = node
          \/ \E n \in Nodes, facts \in SUBSET Facts : Report(n, facts)
          \/ \E n \in Nodes : FallSilent(n) \/ Mute(n)
          \/ DeleteRow
      BY DEF AlertNext, Evaluate, LoadAlerts, LoadNodes, BeginRecover, BeginNotify, EvaluateReturns, Fire, Recover,
             Notify, NotifyFails, EvaluateAborts, DeleteAlerts, Acknowledge, alertVars
    <2>2. ASSUME NEW n \in Nodes, NEW facts \in SUBSET Facts, Report(n, facts)
          PROVE  node' \in [Nodes -> [row : BOOLEAN, heard : BOOLEAN, muted : BOOLEAN, facts : SUBSET Facts]]
      <3>1. node' = [node EXCEPT ![n] = [@ EXCEPT !.row = TRUE, !.heard = TRUE, !.facts = facts]]
        BY <2>2 DEF Report, RestAlertTypes
      <3> QED BY <3>1 DEF RestAlertTypes
    <2>3. ASSUME NEW n \in Nodes, FallSilent(n) \/ Mute(n)
          PROVE  node' \in [Nodes -> [row : BOOLEAN, heard : BOOLEAN, muted : BOOLEAN, facts : SUBSET Facts]]
      BY <2>3 DEF FallSilent, Mute, RestAlertTypes
    <2>4. CASE DeleteRow
      BY <2>4 DEF DeleteRow, RestAlertTypes, Unseen
    <2>5. CASE node' = node
      BY <2>5 DEF RestAlertTypes
    <2> QED BY <2>1, <2>2, <2>3, <2>4, <2>5
  <1>2. eval' \in {"idle", "nodes", "fire", "recover", "notify"}
    BY DEF RestAlertTypes, AlertNext, Evaluate, LoadAlerts, LoadNodes, BeginRecover, BeginNotify, EvaluateReturns,
           Fire, Recover, Notify, NotifyFails, EvaluateAborts, Forget, Report, FallSilent, Mute, DeleteAlerts,
           DeleteRow, Acknowledge, evalVars, alertVars
  <1>3. \A x \in notices' : x.of \in Nat /\ x.kind \in {"firing", "recovered"}
    <2>1. \/ notices' \subseteq notices
          \/ \E k \in AlertKeys : Fire(k) \/ Recover(k)
      BY DEF AlertNext, Evaluate, LoadAlerts, LoadNodes, BeginRecover, BeginNotify, EvaluateReturns,
             Notify, NotifyFails, EvaluateAborts, Forget, Report, FallSilent, Mute, DeleteAlerts,
             DeleteRow, Acknowledge, evalVars, alertVars
    <2>2. ASSUME NEW k \in AlertKeys, Fire(k)
          PROVE  \A x \in notices' : x.of \in Nat /\ x.kind \in {"firing", "recovered"}
      <3>1. NewId \in Nat
        BY NewIdFacts DEF AlertInv
      <3>2. \A x \in notices' : x \in notices \/ (x.of = NewId /\ x.kind = "firing")
        BY <2>2 DEF Fire
      <3> QED BY <3>1, <3>2 DEF RestAlertTypes
    <2>3. ASSUME NEW k \in AlertKeys, Recover(k)
          PROVE  \A x \in notices' : x.of \in Nat /\ x.kind \in {"firing", "recovered"}
      <3>1. RecoveredRow(k) \in Nat
        BY DEF AlertInv, AlertTypes, RecoveredRow
      <3>2. \A x \in notices' : x \in notices \/ (x.of = RecoveredRow(k) /\ x.kind = "recovered")
        BY <2>3 DEF Recover
      <3> QED BY <3>1, <3>2 DEF RestAlertTypes
    <2> QED BY <2>1, <2>2, <2>3 DEF RestAlertTypes
  <1>4. deleting' \in Nodes \cup {NoNode}
    BY DEF RestAlertTypes, AlertNext, Evaluate, LoadAlerts, LoadNodes, BeginRecover, BeginNotify, EvaluateReturns,
           Fire, Recover, Notify, NotifyFails, EvaluateAborts, Report, FallSilent, Mute, DeleteAlerts,
           DeleteRow, Acknowledge, alertVars
  <1> QED BY <1>1, <1>2, <1>3, <1>4 DEF RestAlertTypes

\* Rows, what Evaluate has loaded and found, and its notices keep their types for
\* every number of nodes, rules and rows.
THEOREM AlertTypeCorrect == AlertSpec => []AlertTypeOK
  <1>1. AlertInit => RestAlertTypes
    BY DEF AlertInit, RestAlertTypes, Unseen
  <1>2. AlertInv /\ RestAlertTypes => AlertTypeOK
    BY DEF AlertInv, AlertTypes, RestAlertTypes, AlertTypeOK
  <1>3. AlertInv /\ RestAlertTypes /\ [AlertNext]_alertVars => AlertInv' /\ RestAlertTypes'
    BY AlertStep, RestAlertStep
  <1> QED BY <1>1, <1>2, <1>3, AlertStart, PTL DEF AlertSpec

-----------------------------------------------------------------------------
(* NodeData, for every number of nodes, tags, requests and handlers.        *)

PatchPCs == {"find_node", "clear", "next_tag", "find_tag", "insert_use", "done"}
DeletePCs == {"node_tags", "metrics", "alerts", "nodes"}
TagPCs == {"tag_uses", "tag"}
HandlerTypes == [pc : {"idle"} \cup PatchPCs \cup DeletePCs \cup TagPCs,
                 node : NodeNames \cup {"none"}, want : SUBSET TagNames, key : Nat,
                 todo : SUBSET TagNames, tag : TagNames \cup {"none"}, use : Nat]

\* A table whose rows have keys of their own, of which one is the largest.
Proper(table, S) ==
    /\ table \in [S -> Nat]
    /\ \E b \in Nat : \A r \in S : table[r] <= b
    /\ \A r, s \in S : table[r] = table[s] /\ table[r] # 0 => r = s

NodeDataTypes ==
    /\ Proper(nodes, NodeNames) /\ Proper(tags, TagNames)
    /\ metrics \subseteq NodeNames /\ alerts \subseteq NodeNames
    /\ handler \in [Handlers -> HandlerTypes]
    /\ overtaken \in BOOLEAN
    /\ \A h \in Handlers :
          /\ handler[h].pc \in PatchPCs \cup DeletePCs => handler[h].node \in NodeNames
          /\ handler[h].pc \in {"idle"} \cup TagPCs => handler[h].node = "none"
          /\ handler[h].pc \notin PatchPCs => handler[h].want = {}
          /\ handler[h].todo \subseteq handler[h].want
          /\ handler[h].pc \in {"find_node", "clear"} => handler[h].todo = handler[h].want
          /\ handler[h].pc \in {"find_tag", "insert_use"} =>
                handler[h].tag \in handler[h].want \ handler[h].todo
          /\ handler[h].pc = "done" => handler[h].todo = {}

\* The rows are whole.
RowsWhole ==
    /\ \A r \in nodeTags : r[1] \in KeysOf(nodes) /\ r[2] \in KeysOf(tags)
    /\ \A n \in metrics \cup alerts : nodes[n] # 0

\* No two requests are about the same node or tag, and the tag of a deletion is there.
RequestsApart ==
    /\ \A g, h \in Handlers : g # h /\ handler[g].node = handler[h].node => handler[g].node = "none"
    /\ \A h \in Handlers : handler[h].pc \in TagPCs =>
          /\ handler[h].key \in KeysOf(tags)
          /\ \A g \in Handlers \ {h} : handler[g].pc \in TagPCs => handler[g].key # handler[h].key
          /\ \A g \in Handlers : \A t \in handler[g].want : tags[t] # handler[h].key

\* The tags a PATCH has given its node by now.
Given(h) ==
    {t \in handler[h].want \ handler[h].todo :
        handler[h].pc \in {"find_tag", "insert_use"} => t # handler[h].tag}

\* What a PATCH has read is still true, and its node has the tags it has given it.
PatchKnows(h) ==
    /\ handler[h].pc \in PatchPCs \ {"find_node"} =>
          handler[h].key = nodes[handler[h].node] /\ handler[h].key # 0
    /\ handler[h].pc = "insert_use" => handler[h].use = tags[handler[h].tag] /\ handler[h].use # 0
    /\ handler[h].pc \in PatchPCs \ {"find_node", "clear"} =>
          /\ \A t \in Given(h) : tags[t] # 0 /\ <<handler[h].key, tags[t]>> \in nodeTags
          /\ \A r \in nodeTags : r[1] = handler[h].key => \E t \in Given(h) : r[2] = tags[t]

\* What a deletion has cleared stays clear.
DeletionKnows(h) ==
    /\ handler[h].pc \in {"metrics", "alerts", "nodes"} =>
          \A r \in nodeTags : r[1] # nodes[handler[h].node]
    /\ handler[h].pc \in {"alerts", "nodes"} => handler[h].node \notin metrics
    /\ handler[h].pc = "nodes" => handler[h].node \notin alerts
    /\ handler[h].pc = "tag" => \A r \in nodeTags : r[2] # handler[h].key

UntilOvertaken ==
    RowsWhole /\ RequestsApart /\ \A h \in Handlers : PatchKnows(h) /\ DeletionKnows(h)

NodeDataInv == NodeDataTypes /\ (~overtaken => UntilOvertaken)

LEMMA Resting == AtEase \in HandlerTypes
  BY DEF AtEase, HandlerTypes

LEMMA NodeDataStart == NodeDataInit => NodeDataInv
  <1> SUFFICES ASSUME NodeDataInit PROVE NodeDataInv
    OBVIOUS
  <1>1. Proper(nodes, NodeNames) /\ Proper(tags, TagNames)
    <2>1. 0 \in Nat
      OBVIOUS
    <2> QED BY <2>1 DEF NodeDataInit, Proper
  <1>2. NodeDataTypes
    BY <1>1, Resting DEF NodeDataInit, NodeDataTypes, AtEase, PatchPCs, DeletePCs, TagPCs
  <1>3. UntilOvertaken
    BY DEF NodeDataInit, UntilOvertaken, RowsWhole, RequestsApart, PatchKnows, DeletionKnows,
           AtEase, PatchPCs, DeletePCs, TagPCs
  <1> QED BY <1>2, <1>3 DEF NodeDataInv

\* An upsert keeps the keys that are there, and gives a new row one of its own.
LEMMA UpsertFacts ==
    ASSUME NEW S, NEW table, Proper(table, S), NEW r \in S
    PROVE  LET new == Upsert(table, r)
           IN  /\ Proper(new, S)
               /\ new[r] # 0
               /\ \A s \in S : table[s] # 0 => new[s] = table[s]
               /\ \A s \in S \ {r} : new[s] = table[s]
               /\ KeysOf(table) \subseteq KeysOf(new)
               /\ table[r] = 0 => new[r] \notin KeysOf(table)
  <1>1. PICK b \in Nat : \A s \in S : table[s] <= b
    BY DEF Proper
  <1>2. /\ KeysOf(table) \subseteq Nat
        /\ \A k \in KeysOf(table) : k <= b
        /\ \A s \in S : table[s] # 0 => table[s] \in KeysOf(table)
        /\ 0 \notin KeysOf(table)
    BY <1>1 DEF Proper, KeysOf
  <1> DEFINE next == NextKey(table)
  <1>3. next \in Nat /\ next # 0 /\ \A k \in KeysOf(table) : k < next
    <2>1. CASE KeysOf(table) = {}
      BY <2>1 DEF NextKey
    <2>2. CASE KeysOf(table) # {}
      <3>1. Max(KeysOf(table)) \in KeysOf(table) /\ \A k \in KeysOf(table) : k <= Max(KeysOf(table))
        BY <1>2, <2>2, GreatestIsThere
      <3>2. next = Max(KeysOf(table)) + 1
        BY <2>2 DEF NextKey
      <3> DEFINE m == Max(KeysOf(table))
      <3> HIDE DEF m, next
      <3>3. m \in Nat /\ next = m + 1 /\ \A k \in KeysOf(table) : k <= m
        BY <1>2, <3>1, <3>2 DEF m
      <3> QED BY <1>2, <3>3
    <2> QED BY <2>1, <2>2
  <1> HIDE DEF next
  <1>4. CASE table[r] # 0
    BY <1>4 DEF Upsert
  <1>5. CASE table[r] = 0
    <2> DEFINE new == [table EXCEPT ![r] = next]
    <2>1. Upsert(table, r) = new
      BY <1>5 DEF Upsert, next
    <2>2. /\ new \in [S -> Nat] /\ new[r] = next
          /\ \A s \in S \ {r} : new[s] = table[s]
      BY <1>3 DEF Proper
    <2> HIDE DEF new
    <2>3. \E c \in Nat : \A s \in S : new[s] <= c
      <3>1. \A s \in S : new[s] <= b + next
        BY <1>1, <1>3, <2>2 DEF Proper
      <3> QED BY <1>3, <3>1
    <2>4. \A s \in S \ {r} : new[s] # next
      BY <1>2, <1>3, <2>2
    <2>5. Proper(new, S)
      BY <2>2, <2>3, <2>4 DEF Proper
    <2>6. KeysOf(table) \subseteq KeysOf(new)
      BY <1>5, <2>2 DEF KeysOf, Proper
    <2>7. next \notin KeysOf(table)
      BY <1>2, <1>3
    <2> QED BY <1>3, <1>5, <2>1, <2>2, <2>5, <2>6, <2>7
  <1> QED BY <1>4, <1>5

\* Who is overtaken stays so.
LEMMA OvertakenStays == NodeDataTypes /\ [NodeDataNext]_nodeDataVars => (overtaken => overtaken')
  BY DEF NodeDataTypes, NodeDataNext, nodeDataVars, HandleReport, RaiseAlert, CreateTag, Receive, PatchNode,
         DeleteNode, DeleteTag, HandlerStep, FindNode, ClearTags, InsertTag, FindTag, InsertUse,
         Patched, DeleteNodeTags, DeleteMetrics, DeleteAlertRows, DeleteNodeRow, DeleteTagUses,
         DeleteTagRow, StatementFails

\* What a handler that does not step knows stays true, unless its own rows change.
LEMMA OthersKnow ==
    ASSUME NodeDataTypes, NEW g \in Handlers, PatchKnows(g), handler'[g] = handler[g],
           nodes[handler[g].node] # 0 /\ handler[g].pc \in PatchPCs =>
               nodes'[handler[g].node] = nodes[handler[g].node],
           \A t \in handler[g].want : tags[t] # 0 => tags'[t] = tags[t],
           handler[g].pc \in PatchPCs \ {"find_node", "clear"} =>
               \A r : r[1] = handler[g].key => (r \in nodeTags <=> r \in nodeTags')
    PROVE  PatchKnows(g)'
  <1>1. Given(g)' = Given(g) /\ Given(g) \subseteq handler[g].want
    BY DEF Given
  <1>2. handler[g].pc = "insert_use" => handler[g].tag \in handler[g].want
    BY DEF NodeDataTypes
  <1>3. \A k : <<handler[g].key, k>>[1] = handler[g].key
    OBVIOUS
  <1>4. handler[g].pc \in PatchPCs \ {"find_node"} =>
            handler[g].key = nodes'[handler[g].node] /\ handler[g].key # 0
    BY DEF PatchKnows
  <1>5. handler[g].pc = "insert_use" =>
            handler[g].use = tags'[handler[g].tag] /\ handler[g].use # 0
    BY <1>2 DEF PatchKnows
  <1>6. ASSUME handler[g].pc \in PatchPCs \ {"find_node", "clear"}
        PROVE  /\ \A t \in Given(g) : tags'[t] # 0 /\ <<handler[g].key, tags'[t]>> \in nodeTags'
               /\ \A r \in nodeTags' : r[1] = handler[g].key => \E t \in Given(g) : r[2] = tags'[t]
    <2>1. \A t \in Given(g) : tags[t] # 0 /\ tags'[t] = tags[t]
      BY <1>1, <1>6 DEF PatchKnows
    <2>2. \A t \in Given(g) : <<handler[g].key, tags[t]>> \in nodeTags'
      BY <1>3, <1>6 DEF PatchKnows
    <2>3. \A r \in nodeTags' : r[1] = handler[g].key => \E t \in Given(g) : r[2] = tags[t]
      BY <1>6 DEF PatchKnows
    <2> QED BY <2>1, <2>2, <2>3
  <1> QED BY <1>1, <1>4, <1>5, <1>6 DEF PatchKnows

\* A request that arrives meets no other one, or is known to.
LEMMA ReceiveKeeps ==
    ASSUME NodeDataInv, NEW h \in Handlers, NEW start \in HandlerTypes, Receive(h, start),
           start.pc \in {"find_node", "node_tags", "tag_uses"},
           start.todo = start.want,
           start.pc \in {"find_node", "node_tags"} => start.node \in NodeNames,
           start.pc # "find_node" => start.want = {},
           start.pc = "tag_uses" => start.node = "none" /\ start.key \in KeysOf(tags)
    PROVE  NodeDataInv'
  <1>1. /\ UNCHANGED rowVars /\ handler[h].pc = "idle"
        /\ handler' \in [Handlers -> HandlerTypes] /\ handler'[h] = start
        /\ \A g \in Handlers \ {h} : handler'[g] = handler[g]
        /\ overtaken' \in BOOLEAN
        /\ ~overtaken' => ~overtaken /\ \A g \in Handlers : Busy(g) => ~Meets(start, handler[g])
    BY DEF NodeDataInv, NodeDataTypes, Receive, Reached
  <1>2. NodeDataTypes'
    BY <1>1 DEF NodeDataInv, NodeDataTypes, rowVars, Proper, PatchPCs, DeletePCs, TagPCs
  <1>3. ASSUME ~overtaken' PROVE UntilOvertaken'
    <2>0. UntilOvertaken /\ \A g \in Handlers : Busy(g) => ~Meets(start, handler[g])
      BY <1>1, <1>3 DEF NodeDataInv
    <2>1. RowsWhole'
      BY <1>1, <2>0 DEF UntilOvertaken, RowsWhole, rowVars, KeysOf
    <2>2. \A g \in Handlers \ {h} : /\ start.node = handler[g].node => start.node = "none"
                                    /\ start.pc = "tag_uses" /\ handler[g].pc \in TagPCs => start.key # handler[g].key
                                    /\ start.pc = "tag_uses" => \A t \in handler[g].want : tags[t] # start.key
                                    /\ handler[g].pc \in TagPCs => \A t \in start.want : tags[t] # handler[g].key
      <3> TAKE g \in Handlers \ {h}
      <3>1. CASE handler[g].pc = "idle"
        BY <3>1 DEF NodeDataInv, NodeDataTypes, TagPCs, PatchPCs
      <3>2. CASE handler[g].pc # "idle"
        BY <2>0, <3>2 DEF Busy, Reached, Meets, TagPCs
      <3> QED BY <3>1, <3>2
    <2>3. RequestsApart'
      <3>1. \A f, g \in Handlers : f # g /\ handler'[f].node = handler'[g].node => handler'[f].node = "none"
        BY <1>1, <2>0, <2>2 DEF UntilOvertaken, RequestsApart
      <3>2. ASSUME NEW g \in Handlers, handler'[g].pc \in TagPCs
            PROVE  /\ handler'[g].key \in KeysOf(tags)
                   /\ \A f \in Handlers \ {g} : handler'[f].pc \in TagPCs => handler'[f].key # handler'[g].key
                   /\ \A f \in Handlers : \A t \in handler'[f].want : tags[t] # handler'[g].key
        BY <1>1, <2>0, <2>2, <3>2 DEF UntilOvertaken, RequestsApart, TagPCs
      <3> QED BY <1>1, <3>1, <3>2 DEF RequestsApart, rowVars
    <2>4. ASSUME NEW g \in Handlers PROVE PatchKnows(g)' /\ DeletionKnows(g)'
      <3>1. CASE g = h
        BY <1>1, <3>1 DEF PatchKnows, DeletionKnows, PatchPCs
      <3>2. CASE g # h
        <4>1. handler'[g] = handler[g] /\ PatchKnows(g) /\ DeletionKnows(g)
          BY <1>1, <2>0, <3>2 DEF UntilOvertaken
        <4>2. PatchKnows(g)'
          BY <1>1, <4>1, OthersKnow DEF NodeDataInv, rowVars
        <4> QED BY <1>1, <4>1, <4>2 DEF DeletionKnows, rowVars
      <3> QED BY <3>1, <3>2
    <2> QED BY <2>1, <2>3, <2>4 DEF UntilOvertaken
  <1> QED BY <1>2, <1>3 DEF NodeDataInv

LEMMA RequestKeeps ==
    ASSUME NodeDataInv, NEW h \in Handlers,
           \/ \E n \in NodeNames : DeleteNode(h, n) \/ \E want \in SUBSET TagNames : PatchNode(h, n, want)
           \/ \E t \in TagNames : DeleteTag(h, t)
    PROVE  NodeDataInv'
  <1>1. ASSUME NEW n \in NodeNames, NEW want \in SUBSET TagNames, PatchNode(h, n, want) PROVE NodeDataInv'
    <2> DEFINE start == [AtEase EXCEPT !.pc = "find_node", !.node = n, !.want = want, !.todo = want]
    <2>1. /\ start \in HandlerTypes /\ start.pc = "find_node" /\ start.node = n
          /\ start.want = want /\ start.todo = want
      BY DEF AtEase, HandlerTypes, PatchPCs
    <2>2. Receive(h, start)
      BY <1>1 DEF PatchNode
    <2> HIDE DEF start
    <2> QED BY <2>1, <2>2, ReceiveKeeps
  <1>2. ASSUME NEW n \in NodeNames, DeleteNode(h, n) PROVE NodeDataInv'
    <2> DEFINE start == [AtEase EXCEPT !.pc = "node_tags", !.node = n]
    <2>1. /\ start \in HandlerTypes /\ start.pc = "node_tags" /\ start.node = n
          /\ start.want = {} /\ start.todo = {}
      BY DEF AtEase, HandlerTypes, DeletePCs
    <2>2. Receive(h, start)
      BY <1>2 DEF DeleteNode
    <2> HIDE DEF start
    <2> QED BY <2>1, <2>2, ReceiveKeeps
  <1>3. ASSUME NEW t \in TagNames, DeleteTag(h, t) PROVE NodeDataInv'
    <2> DEFINE start == [AtEase EXCEPT !.pc = "tag_uses", !.key = tags[t]]
    <2>0. tags[t] \in Nat /\ tags[t] # 0 /\ tags[t] \in KeysOf(tags)
      BY <1>3 DEF DeleteTag, NodeDataInv, NodeDataTypes, Proper, KeysOf
    <2>1. /\ start \in HandlerTypes /\ start.pc = "tag_uses" /\ start.node = "none"
          /\ start.want = {} /\ start.todo = {} /\ start.key = tags[t]
      BY <2>0 DEF AtEase, HandlerTypes, TagPCs
    <2>2. Receive(h, start)
      BY <1>3 DEF DeleteTag
    <2> HIDE DEF start
    <2> QED BY <2>0, <2>1, <2>2, ReceiveKeeps
  <1> QED BY <1>1, <1>2, <1>3

\* Requests stay apart while one of them goes on and tags are renumbered as the
\* statements do it.
LEMMA ApartStays ==
    ASSUME NodeDataTypes, RequestsApart, NEW h \in Handlers,
           \A g \in Handlers \ {h} : handler'[g] = handler[g],
           handler'[h].node \in {handler[h].node, "none"},
           handler'[h].want \subseteq handler[h].want,
           handler'[h].pc \in TagPCs => handler[h].pc \in TagPCs /\ handler'[h].key = handler[h].key,
           \A g \in Handlers : handler'[g].pc \in TagPCs => handler'[g].key \in KeysOf(tags'),
           \A t \in TagNames : tags'[t] \in {tags[t], 0} \/ tags'[t] \notin KeysOf(tags)
    PROVE  RequestsApart'
  <1>1. \A f, g \in Handlers : f # g /\ handler'[f].node = handler'[g].node => handler'[f].node = "none"
    BY DEF RequestsApart
  <1>2. ASSUME NEW g \in Handlers, handler'[g].pc \in TagPCs
        PROVE  /\ \A f \in Handlers \ {g} : handler'[f].pc \in TagPCs => handler'[f].key # handler'[g].key
               /\ \A f \in Handlers : \A t \in handler'[f].want : tags'[t] # handler'[g].key
    <2>1. handler[g].pc \in TagPCs /\ handler'[g].key = handler[g].key
      BY <1>2
    <2>2. handler[g].key \in KeysOf(tags) /\ handler[g].key # 0
      BY <2>1 DEF RequestsApart, KeysOf
    <2>3. \A f \in Handlers \ {g} : handler'[f].pc \in TagPCs => handler'[f].key # handler'[g].key
      BY <2>1 DEF RequestsApart
    <2>4. ASSUME NEW f \in Handlers, NEW t \in handler'[f].want PROVE tags'[t] # handler'[g].key
      <3>1. t \in handler[f].want /\ t \in TagNames
        BY DEF NodeDataTypes, HandlerTypes
      <3>2. tags[t] # handler[g].key
        BY <2>1, <3>1 DEF RequestsApart
      <3> QED BY <2>1, <2>2, <3>1, <3>2
    <2> QED BY <2>3, <2>4
  <1> QED BY <1>1, <1>2 DEF RequestsApart

LEMMA WritersKeep ==
    ASSUME NodeDataInv, \/ \E n \in NodeNames : HandleReport(n) \/ RaiseAlert(n)
                        \/ \E t \in TagNames : CreateTag(t)
    PROVE  NodeDataInv'
  <1>1. ASSUME NEW n \in NodeNames, HandleReport(n) PROVE NodeDataInv'
    <2>1. /\ nodes' = Upsert(nodes, n) /\ metrics' = metrics \cup {n}
          /\ UNCHANGED <<tags, nodeTags, alerts, handler>>
          /\ overtaken' \in BOOLEAN
          /\ ~overtaken' => ~overtaken /\ ~BeingDeleted(n)
      BY <1>1 DEF HandleReport, NodeRow, NodeDataInv, NodeDataTypes
    <2>2. /\ Proper(nodes', NodeNames) /\ nodes'[n] # 0
          /\ \A m \in NodeNames : nodes[m] # 0 => nodes'[m] = nodes[m]
          /\ \A m \in NodeNames \ {n} : nodes'[m] = nodes[m]
          /\ KeysOf(nodes) \subseteq KeysOf(nodes')
      BY <2>1, UpsertFacts DEF NodeDataInv, NodeDataTypes
    <2>3. NodeDataTypes'
      BY <2>1, <2>2 DEF NodeDataInv, NodeDataTypes, Proper
    <2>4. ASSUME ~overtaken' PROVE UntilOvertaken'
      <3>0. UntilOvertaken /\ ~BeingDeleted(n)
        BY <2>1, <2>4 DEF NodeDataInv
      <3>1. RowsWhole'
        BY <2>1, <2>2, <3>0 DEF UntilOvertaken, RowsWhole, NodeDataInv, NodeDataTypes, KeysOf
      <3>2. RequestsApart'
        BY <2>1, <3>0 DEF UntilOvertaken, RequestsApart, KeysOf
      <3>3. ASSUME NEW g \in Handlers PROVE PatchKnows(g)' /\ DeletionKnows(g)'
        <4>1. handler[g].pc \in PatchPCs \cup DeletePCs => handler[g].node \in NodeNames
          BY DEF NodeDataInv, NodeDataTypes
        <4>2. PatchKnows(g)'
          BY <2>1, <2>2, <3>0, <4>1, OthersKnow DEF NodeDataInv, UntilOvertaken
        <4>3. handler[g].pc \in {"metrics", "alerts", "nodes"} => handler[g].node # n
          BY <3>0 DEF BeingDeleted
        <4>4. DeletionKnows(g)'
          BY <2>1, <2>2, <3>0, <4>1, <4>3 DEF UntilOvertaken, DeletionKnows, DeletePCs
        <4> QED BY <4>2, <4>4
      <3> QED BY <3>1, <3>2, <3>3 DEF UntilOvertaken
    <2> QED BY <2>3, <2>4 DEF NodeDataInv
  <1>2. ASSUME NEW n \in NodeNames, RaiseAlert(n) PROVE NodeDataInv'
    <2>1. /\ nodes[n] # 0 /\ alerts' = alerts \cup {n}
          /\ UNCHANGED <<nodes, tags, nodeTags, metrics, handler>>
          /\ overtaken' \in BOOLEAN
          /\ ~overtaken' => ~overtaken /\ ~BeingDeleted(n)
      BY <1>2 DEF RaiseAlert, NodeDataInv, NodeDataTypes
    <2>3. NodeDataTypes'
      BY <2>1 DEF NodeDataInv, NodeDataTypes, Proper
    <2>4. ASSUME ~overtaken' PROVE UntilOvertaken'
      <3>0. UntilOvertaken /\ ~BeingDeleted(n)
        BY <2>1, <2>4 DEF NodeDataInv
      <3>1. RowsWhole' /\ RequestsApart'
        BY <2>1, <3>0 DEF UntilOvertaken, RowsWhole, RequestsApart, KeysOf
      <3>2. ASSUME NEW g \in Handlers PROVE PatchKnows(g)' /\ DeletionKnows(g)'
        <4>1. PatchKnows(g)'
          BY <2>1, <3>0, OthersKnow DEF NodeDataInv, UntilOvertaken
        <4>2. handler[g].pc \in {"metrics", "alerts", "nodes"} => handler[g].node # n
          BY <3>0 DEF BeingDeleted
        <4>3. DeletionKnows(g)'
          BY <2>1, <3>0, <4>2 DEF UntilOvertaken, DeletionKnows
        <4> QED BY <4>1, <4>3
      <3> QED BY <3>1, <3>2 DEF UntilOvertaken
    <2> QED BY <2>3, <2>4 DEF NodeDataInv
  <1>3. ASSUME NEW t \in TagNames, CreateTag(t) PROVE NodeDataInv'
    <2>1. /\ tags' = Upsert(tags, t)
          /\ UNCHANGED <<nodes, nodeTags, metrics, alerts, handler, overtaken>>
      BY <1>3 DEF CreateTag
    <2>2. /\ Proper(tags', TagNames)
          /\ \A s \in TagNames : tags[s] # 0 => tags'[s] = tags[s]
          /\ \A s \in TagNames \ {t} : tags'[s] = tags[s]
          /\ KeysOf(tags) \subseteq KeysOf(tags')
          /\ tags[t] = 0 => tags'[t] \notin KeysOf(tags)
      BY <2>1, UpsertFacts DEF NodeDataInv, NodeDataTypes
    <2>3. NodeDataTypes'
      BY <2>1, <2>2 DEF NodeDataInv, NodeDataTypes, Proper
    <2>4. ASSUME ~overtaken' PROVE UntilOvertaken'
      <3>0. UntilOvertaken
        BY <2>1, <2>4 DEF NodeDataInv
      <3>1. RowsWhole'
        BY <2>1, <2>2, <3>0 DEF UntilOvertaken, RowsWhole, KeysOf
      <3>2. RequestsApart'
        <4>1. \A g \in Handlers : handler[g].pc \in TagPCs => handler[g].key \in KeysOf(tags')
          BY <2>2, <3>0 DEF UntilOvertaken, RequestsApart
        <4>2. \A s \in TagNames : tags'[s] \in {tags[s], 0} \/ tags'[s] \notin KeysOf(tags)
          BY <2>2
        <4> QED
          <5>1. CASE Handlers = {}
            BY <2>1, <5>1 DEF RequestsApart
          <5>2. CASE \E h \in Handlers : TRUE
            BY <2>1, <3>0, <4>1, <4>2, <5>2, ApartStays DEF NodeDataInv, UntilOvertaken
          <5> QED BY <5>1, <5>2
      <3>3. ASSUME NEW g \in Handlers PROVE PatchKnows(g)' /\ DeletionKnows(g)'
        <4>1. handler[g].want \subseteq TagNames
          BY DEF NodeDataInv, NodeDataTypes, HandlerTypes
        <4>2. PatchKnows(g)'
          BY <2>1, <2>2, <3>0, <4>1, OthersKnow DEF NodeDataInv, UntilOvertaken
        <4> QED BY <2>1, <3>0, <4>2 DEF UntilOvertaken, DeletionKnows
      <3> QED BY <3>1, <3>2, <3>3 DEF UntilOvertaken
    <2> QED BY <2>3, <2>4 DEF NodeDataInv
  <1> QED BY <1>1, <1>2, <1>3

\* A handler that answers leaves the rows to the others.
LEMMA AnswerKeeps ==
    ASSUME NodeDataInv, NEW h \in Handlers, handler[h].pc # "idle", Returns(h),
           UNCHANGED <<rowVars, overtaken>>
    PROVE  NodeDataInv'
  <1>1. /\ handler' \in [Handlers -> HandlerTypes] /\ handler'[h] = AtEase
        /\ \A g \in Handlers \ {h} : handler'[g] = handler[g]
    BY Resting DEF NodeDataInv, NodeDataTypes, Returns
  <1>2. /\ AtEase.pc = "idle" /\ AtEase.node = "none" /\ AtEase.want = {} /\ AtEase.todo = {}
    BY DEF AtEase
  <1>3. NodeDataTypes'
    BY <1>1, <1>2 DEF NodeDataInv, NodeDataTypes, rowVars, Proper, PatchPCs, DeletePCs, TagPCs
  <1>4. ASSUME ~overtaken' PROVE UntilOvertaken'
    <2>0. UntilOvertaken
      BY <1>4 DEF NodeDataInv
    <2>1. RowsWhole'
      BY <2>0 DEF UntilOvertaken, RowsWhole, rowVars, KeysOf
    <2>2. RequestsApart'
      <3>1. \A g \in Handlers : handler'[g].pc \in TagPCs => handler'[g].key \in KeysOf(tags')
        BY <1>1, <1>2, <2>0 DEF UntilOvertaken, RequestsApart, rowVars, TagPCs
      <3> QED BY <1>1, <1>2, <2>0, <3>1, ApartStays DEF NodeDataInv, UntilOvertaken, rowVars, TagPCs
    <2>3. ASSUME NEW g \in Handlers PROVE PatchKnows(g)' /\ DeletionKnows(g)'
      <3>1. CASE g = h
        BY <1>1, <1>2, <3>1 DEF PatchKnows, DeletionKnows, PatchPCs
      <3>2. CASE g # h
        <4>1. handler'[g] = handler[g] /\ PatchKnows(g) /\ DeletionKnows(g)
          BY <1>1, <2>0, <3>2 DEF UntilOvertaken
        <4>2. PatchKnows(g)'
          BY <4>1, OthersKnow DEF NodeDataInv, rowVars
        <4> QED BY <4>1, <4>2 DEF DeletionKnows, rowVars
      <3> QED BY <3>1, <3>2
    <2> QED BY <2>1, <2>2, <2>3 DEF UntilOvertaken
  <1> QED BY <1>3, <1>4 DEF NodeDataInv

\* A PATCH goes on and changes no row.
LEMMA OwnStepKeeps ==
    ASSUME NodeDataInv, NEW h \in Handlers, UNCHANGED <<rowVars, overtaken>>,
           NEW now \in HandlerTypes, handler' = [handler EXCEPT ![h] = now],
           handler[h].pc \in PatchPCs, now.pc \in PatchPCs,
           now.node = handler[h].node, now.want = handler[h].want, now.todo = handler[h].todo,
           now.pc \in {"find_tag", "insert_use"} => now.tag \in now.want \ now.todo,
           now.pc = "done" => now.todo = {},
           now.pc \in {"find_node", "clear"} => now.todo = now.want,
           ~overtaken => PatchKnows(h)'
    PROVE  NodeDataInv'
  <1>1. /\ handler' \in [Handlers -> HandlerTypes] /\ handler'[h] = now
        /\ \A g \in Handlers \ {h} : handler'[g] = handler[g]
    BY DEF NodeDataInv, NodeDataTypes
  <1>2. NodeDataTypes'
    BY <1>1 DEF NodeDataInv, NodeDataTypes, rowVars, Proper, PatchPCs, DeletePCs, TagPCs
  <1>3. ASSUME ~overtaken' PROVE UntilOvertaken'
    <2>0. UntilOvertaken
      BY <1>3 DEF NodeDataInv
    <2>1. RowsWhole'
      BY <2>0 DEF UntilOvertaken, RowsWhole, rowVars, KeysOf
    <2>2. RequestsApart'
      <3>1. \A g \in Handlers : handler'[g].pc \in TagPCs => handler'[g].key \in KeysOf(tags')
        BY <1>1, <2>0 DEF UntilOvertaken, RequestsApart, rowVars, TagPCs, PatchPCs
      <3> QED BY <1>1, <2>0, <3>1, ApartStays DEF NodeDataInv, UntilOvertaken, rowVars, TagPCs, PatchPCs
    <2>3. ASSUME NEW g \in Handlers PROVE PatchKnows(g)' /\ DeletionKnows(g)'
      <3>1. CASE g = h
        BY <1>1, <1>3, <3>1 DEF DeletionKnows, PatchPCs
      <3>2. CASE g # h
        <4>1. handler'[g] = handler[g] /\ PatchKnows(g) /\ DeletionKnows(g)
          BY <1>1, <2>0, <3>2 DEF UntilOvertaken
        <4>2. PatchKnows(g)'
          BY <4>1, OthersKnow DEF NodeDataInv, rowVars
        <4> QED BY <4>1, <4>2 DEF DeletionKnows, rowVars
      <3> QED BY <3>1, <3>2
    <2> QED BY <2>1, <2>2, <2>3 DEF UntilOvertaken
  <1> QED BY <1>2, <1>3 DEF NodeDataInv

LEMMA ReadsKeep ==
    ASSUME NodeDataInv, NEW h \in Handlers, FindNode(h) \/ FindTag(h) \/ Patched(h)
    PROVE  NodeDataInv'
  <1>0. /\ handler[h] \in HandlerTypes
        /\ handler[h].pc \in PatchPCs => handler[h].node \in NodeNames
        /\ \A n \in NodeNames : nodes[n] \in Nat
        /\ \A t \in TagNames : tags[t] \in Nat
    BY DEF NodeDataInv, NodeDataTypes, Proper
  <1>1. ASSUME handler[h].pc # "idle", Returns(h), UNCHANGED <<rowVars, overtaken>> PROVE NodeDataInv'
    BY <1>1, AnswerKeeps
  <1>2. ASSUME FindNode(h), nodes[handler[h].node] # 0 PROVE NodeDataInv'
    <2> DEFINE k == nodes[handler[h].node]
               now == [handler[h] EXCEPT !.key = k, !.pc = "clear"]
    <2>1. handler[h].pc = "find_node" /\ UNCHANGED <<rowVars, overtaken>> /\ handler' = [handler EXCEPT ![h] = now]
      BY <1>2 DEF FindNode, Reached, NodeDataInv, NodeDataTypes, HandlerTypes
    <2>2. k \in Nat /\ k # 0
      BY <1>0, <1>2, <2>1 DEF PatchPCs
    <2>3. /\ now \in HandlerTypes /\ now.pc = "clear" /\ now.node = handler[h].node /\ now.key = k
          /\ now.want = handler[h].want /\ now.todo = handler[h].todo
      BY <1>0, <2>2 DEF HandlerTypes, PatchPCs
    <2> HIDE DEF now
    <2>4. handler'[h] = now /\ nodes' = nodes
      BY <2>1 DEF NodeDataInv, NodeDataTypes, rowVars
    <2>5. PatchKnows(h)'
      BY <2>2, <2>3, <2>4 DEF PatchKnows, PatchPCs
    <2>6. now.todo = now.want
      BY <2>1, <2>3 DEF NodeDataInv, NodeDataTypes
    <2> QED BY <2>1, <2>3, <2>5, <2>6, OwnStepKeeps DEF PatchPCs
  <1>3. ASSUME FindTag(h), tags[handler[h].tag] # 0 PROVE NodeDataInv'
    <2> DEFINE k == tags[handler[h].tag]
               now == [handler[h] EXCEPT !.use = k, !.pc = "insert_use"]
    <2>1. handler[h].pc = "find_tag" /\ UNCHANGED <<rowVars, overtaken>> /\ handler' = [handler EXCEPT ![h] = now]
      BY <1>3 DEF FindTag, Reached, NodeDataInv, NodeDataTypes, HandlerTypes
    <2>2. handler[h].tag \in handler[h].want \ handler[h].todo /\ handler[h].tag \in TagNames
      BY <1>0, <2>1 DEF NodeDataInv, NodeDataTypes, HandlerTypes
    <2>3. k \in Nat /\ k # 0
      BY <1>0, <1>3, <2>2
    <2>4. /\ now \in HandlerTypes /\ now.pc = "insert_use" /\ now.node = handler[h].node /\ now.use = k
          /\ now.want = handler[h].want /\ now.todo = handler[h].todo /\ now.key = handler[h].key
          /\ now.tag = handler[h].tag
      BY <1>0, <2>3 DEF HandlerTypes, PatchPCs
    <2> HIDE DEF now
    <2>5. handler'[h] = now /\ UNCHANGED <<nodes, tags, nodeTags>>
      BY <2>1 DEF NodeDataInv, NodeDataTypes, rowVars
    <2>6. Given(h)' = Given(h)
      BY <2>1, <2>4, <2>5 DEF Given
    <2>7. ASSUME ~overtaken PROVE PatchKnows(h)'
      <3>1. PatchKnows(h)
        BY <2>7 DEF NodeDataInv, UntilOvertaken
      <3> QED BY <2>1, <2>3, <2>4, <2>5, <2>6, <3>1 DEF PatchKnows, PatchPCs
    <2> QED BY <2>1, <2>2, <2>4, <2>7, OwnStepKeeps DEF PatchPCs
  <1>4. ASSUME handler[h].pc = "next_tag", handler[h].todo = {}, Goto(h, "done"), UNCHANGED <<rowVars, overtaken>>
        PROVE  NodeDataInv'
    <2> DEFINE now == [handler[h] EXCEPT !.pc = "done"]
    <2>1. handler' = [handler EXCEPT ![h] = now]
      BY <1>4 DEF Goto, NodeDataInv, NodeDataTypes, HandlerTypes
    <2>2. /\ now \in HandlerTypes /\ now.pc = "done" /\ now.node = handler[h].node
          /\ now.want = handler[h].want /\ now.todo = handler[h].todo /\ now.key = handler[h].key
          /\ now.tag = handler[h].tag
      BY <1>0 DEF HandlerTypes, PatchPCs
    <2> HIDE DEF now
    <2>3. handler'[h] = now /\ UNCHANGED <<nodes, tags, nodeTags>>
      BY <1>4, <2>1 DEF NodeDataInv, NodeDataTypes, rowVars
    <2>4. Given(h)' = Given(h)
      BY <1>4, <2>2, <2>3 DEF Given
    <2>5. ASSUME ~overtaken PROVE PatchKnows(h)'
      <3>1. PatchKnows(h)
        BY <2>5 DEF NodeDataInv, UntilOvertaken
      <3> QED BY <1>4, <2>2, <2>3, <2>4, <3>1 DEF PatchKnows, PatchPCs
    <2> QED BY <1>4, <2>1, <2>2, <2>5, OwnStepKeeps DEF PatchPCs
  <1> QED BY <1>1, <1>2, <1>3, <1>4 DEF FindNode, FindTag, Patched, Reached

\* What the request of a handler is like, at any time.
RightRequest(q) ==
    /\ q.pc \in PatchPCs \cup DeletePCs => q.node \in NodeNames
    /\ q.pc \in {"idle"} \cup TagPCs => q.node = "none"
    /\ q.pc \notin PatchPCs => q.want = {}
    /\ q.todo \subseteq q.want
    /\ q.pc \in {"find_node", "clear"} => q.todo = q.want
    /\ q.pc \in {"find_tag", "insert_use"} => q.tag \in q.want \ q.todo
    /\ q.pc = "done" => q.todo = {}

\* What has to be shown of a statement that changes rows.
LEMMA StatementKeeps ==
    ASSUME NodeDataInv, NEW h \in Handlers, UNCHANGED overtaken,
           NEW now \in HandlerTypes, handler' = [handler EXCEPT ![h] = now], RightRequest(now),
           Proper(nodes', NodeNames), Proper(tags', TagNames),
           metrics' \subseteq NodeNames, alerts' \subseteq NodeNames,
           now.node \in {handler[h].node, "none"}, now.want \subseteq handler[h].want,
           now.pc \in TagPCs => handler[h].pc \in TagPCs /\ now.key = handler[h].key,
           \A t \in TagNames : tags'[t] \in {tags[t], 0} \/ tags'[t] \notin KeysOf(tags),
           ~overtaken =>
               /\ RowsWhole'
               /\ \A g \in Handlers : handler'[g].pc \in TagPCs => handler'[g].key \in KeysOf(tags')
               /\ \A g \in Handlers : PatchKnows(g)' /\ DeletionKnows(g)'
    PROVE  NodeDataInv'
  <1>1. /\ handler' \in [Handlers -> HandlerTypes] /\ handler'[h] = now
        /\ \A g \in Handlers \ {h} : handler'[g] = handler[g]
    BY DEF NodeDataInv, NodeDataTypes
  <1>2. NodeDataTypes'
    <2>1. \A g \in Handlers : RightRequest(handler'[g])
      BY <1>1 DEF NodeDataInv, NodeDataTypes, RightRequest
    <2>2. overtaken' \in BOOLEAN
      BY DEF NodeDataInv, NodeDataTypes
    <2> HIDE DEF Proper
    <2> QED BY <1>1, <2>1, <2>2 DEF NodeDataTypes, RightRequest
  <1>3. ASSUME ~overtaken' PROVE UntilOvertaken'
    <2>1. RequestsApart'
      BY <1>1, <1>3, ApartStays DEF NodeDataInv, UntilOvertaken
    <2> QED BY <1>3, <2>1 DEF UntilOvertaken
  <1> QED BY <1>2, <1>3 DEF NodeDataInv

\* The key a PATCH works with is not the one of another request's node.
LEMMA KeysApart ==
    ASSUME NodeDataTypes, RequestsApart, NEW g \in Handlers, NEW h \in Handlers, g # h,
           PatchKnows(g), handler[g].pc \in PatchPCs \ {"find_node"},
           handler[h].pc \in PatchPCs \cup DeletePCs
    PROVE  handler[g].key # nodes[handler[h].node]
  <1>1. handler[g].node \in NodeNames /\ handler[h].node \in NodeNames
    BY DEF NodeDataTypes
  <1>2. handler[g].node # handler[h].node
    BY <1>1, NodeDataAssumption DEF RequestsApart
  <1> QED BY <1>1, <1>2 DEF PatchKnows, NodeDataTypes, Proper

\* A statement removes uses of tags and the handler moves to its next statement.
LEMMA UsesGo ==
    ASSUME NodeDataInv, NEW h \in Handlers,
           ClearTags(h) \/ DeleteNodeTags(h) \/ DeleteTagUses(h)
    PROVE  NodeDataInv'
  <1> DEFINE pc == CASE ClearTags(h) -> "next_tag" [] DeleteNodeTags(h) -> "metrics" [] OTHER -> "tag"
             now == [handler[h] EXCEPT !.pc = pc]
  <1>0. handler[h] \in HandlerTypes /\ NodeDataTypes
    BY DEF NodeDataInv, NodeDataTypes
  <1>1. /\ nodeTags' \subseteq nodeTags
        /\ UNCHANGED <<nodes, tags, metrics, alerts, overtaken>>
        /\ \/ /\ handler[h].pc = "clear" /\ pc = "next_tag"
              /\ \A r \in nodeTags : r \in nodeTags' <=> r[1] # handler[h].key
           \/ /\ handler[h].pc = "node_tags" /\ pc = "metrics"
              /\ \A r \in nodeTags : r \in nodeTags' <=> r[1] # nodes[handler[h].node]
           \/ /\ handler[h].pc = "tag_uses" /\ pc = "tag"
              /\ \A r \in nodeTags : r \in nodeTags' <=> r[2] # handler[h].key
        /\ handler' = [handler EXCEPT ![h].pc = pc]
    BY DEF ClearTags, Without, DeleteNodeTags, DeleteTagUses, Goto, Reached
  <1> HIDE DEF pc
  <1>2. handler' = [handler EXCEPT ![h] = now]
    BY <1>1 DEF NodeDataInv, NodeDataTypes, HandlerTypes
  <1>3. /\ now \in HandlerTypes /\ now.pc = pc /\ now.node = handler[h].node /\ now.key = handler[h].key
        /\ now.want = handler[h].want /\ now.todo = handler[h].todo /\ now.tag = handler[h].tag
    BY <1>0, <1>1 DEF HandlerTypes, PatchPCs, DeletePCs, TagPCs
  <1> HIDE DEF now
  <1>4. handler'[h] = now /\ \A g \in Handlers \ {h} : handler'[g] = handler[g]
    BY <1>2 DEF NodeDataInv, NodeDataTypes
  <1>5. RightRequest(now)
    BY <1>0, <1>1, <1>3 DEF NodeDataTypes, RightRequest, PatchPCs, DeletePCs, TagPCs
  <1>6. now.pc \in TagPCs => handler[h].pc \in TagPCs
    BY <1>1, <1>3 DEF TagPCs
  <1>7. ASSUME ~overtaken
        PROVE  /\ RowsWhole'
               /\ \A g \in Handlers : handler'[g].pc \in TagPCs => handler'[g].key \in KeysOf(tags')
               /\ \A g \in Handlers : PatchKnows(g)' /\ DeletionKnows(g)'
    <2>0. UntilOvertaken
      BY <1>7 DEF NodeDataInv
    <2>1. RowsWhole'
      BY <1>1, <2>0 DEF UntilOvertaken, RowsWhole
    <2>2. \A g \in Handlers : handler'[g].pc \in TagPCs => handler'[g].key \in KeysOf(tags')
      BY <1>1, <1>3, <1>4, <1>6, <2>0 DEF UntilOvertaken, RequestsApart
    <2>3. ASSUME NEW g \in Handlers \ {h} PROVE PatchKnows(g)'
      <3>1. ASSUME handler[g].pc \in PatchPCs \ {"find_node", "clear"}, NEW r, r[1] = handler[g].key
            PROVE  r \in nodeTags <=> r \in nodeTags'
        <4>1. CASE handler[h].pc \in {"clear", "node_tags"}
          <5>1. handler[g].key # nodes[handler[h].node]
            BY <1>0, <2>0, <3>1, <4>1, KeysApart DEF UntilOvertaken, PatchPCs, DeletePCs
          <5>2. handler[h].pc = "clear" => handler[h].key = nodes[handler[h].node]
            BY <2>0 DEF UntilOvertaken, PatchKnows, PatchPCs
          <5> QED BY <1>1, <3>1, <4>1, <5>1, <5>2
        <4>2. CASE handler[h].pc = "tag_uses"
          <5>1. \A t \in handler[g].want : tags[t] # handler[h].key
            BY <2>0, <4>2 DEF UntilOvertaken, RequestsApart, TagPCs
          <5>2. r \in nodeTags => r[2] # handler[h].key
            BY <2>0, <3>1, <5>1 DEF UntilOvertaken, PatchKnows, Given
          <5> QED BY <1>1, <4>2, <5>2
        <4> QED BY <1>1, <4>1, <4>2
      <3>2. PatchKnows(g) /\ handler'[g] = handler[g]
        BY <1>4, <2>0 DEF UntilOvertaken
      <3> HIDE DEF UntilOvertaken
      <3> QED BY <1>0, <1>1, <3>1, <3>2, OthersKnow
    <2>4. ASSUME NEW g \in Handlers \ {h} PROVE DeletionKnows(g)'
      BY <1>1, <1>4, <2>0 DEF UntilOvertaken, DeletionKnows
    <2>5. PatchKnows(h)'
      <3>1. CASE pc = "next_tag"
        <4>1. Given(h)' = {} /\ handler'[h].pc = "next_tag"
          BY <1>0, <1>1, <1>3, <1>4, <3>1 DEF Given, NodeDataTypes
        <4>2. handler[h].pc = "clear" /\ \A r \in nodeTags' : r[1] # handler[h].key
          BY <1>1, <3>1
        <4> QED BY <1>1, <1>3, <1>4, <2>0, <4>1, <4>2 DEF UntilOvertaken, PatchKnows, PatchPCs
      <3>2. CASE pc # "next_tag"
        BY <1>1, <1>3, <1>4, <3>2 DEF PatchKnows, PatchPCs
      <3> QED BY <3>1, <3>2
    <2>6. DeletionKnows(h)'
      BY <1>1, <1>3, <1>4 DEF DeletionKnows
    <2> QED BY <2>1, <2>2, <2>3, <2>4, <2>5, <2>6
  <1>8. Proper(nodes', NodeNames) /\ Proper(tags', TagNames) /\ metrics' \subseteq NodeNames /\ alerts' \subseteq NodeNames
    BY <1>0, <1>1 DEF NodeDataTypes
  <1> QED BY <1>1, <1>2, <1>3, <1>5, <1>6, <1>7, <1>8, StatementKeeps

\* The tag in hand is there now, under the key it had or under a new one.
LEMMA InsertTagKeeps == ASSUME NodeDataInv, NEW h \in Handlers, InsertTag(h) PROVE NodeDataInv'
  <1>0. handler[h] \in HandlerTypes /\ NodeDataTypes
    BY DEF NodeDataInv, NodeDataTypes
  <1>1. PICK t \in handler[h].todo :
            /\ tags' = Upsert(tags, t)
            /\ handler' = [handler EXCEPT ![h].tag = t, ![h].todo = @ \ {t}, ![h].pc = "find_tag"]
    BY DEF InsertTag
  <1> DEFINE now == [handler[h] EXCEPT !.tag = t, !.todo = @ \ {t}, !.pc = "find_tag"]
  <1>2. /\ handler[h].pc = "next_tag" /\ UNCHANGED <<nodes, nodeTags, metrics, alerts, overtaken>>
        /\ handler' = [handler EXCEPT ![h] = now]
    BY <1>0, <1>1 DEF InsertTag, Reached, NodeDataTypes, HandlerTypes
  <1>3. t \in TagNames /\ t \in handler[h].want
    BY <1>0 DEF NodeDataTypes, HandlerTypes
  <1>4. /\ now \in HandlerTypes /\ now.pc = "find_tag" /\ now.node = handler[h].node
        /\ now.key = handler[h].key /\ now.want = handler[h].want
        /\ now.todo = handler[h].todo \ {t} /\ now.tag = t
    BY <1>0, <1>3 DEF HandlerTypes, PatchPCs
  <1> HIDE DEF now
  <1>5. handler'[h] = now /\ \A g \in Handlers \ {h} : handler'[g] = handler[g]
    BY <1>0, <1>2 DEF NodeDataTypes
  <1>6. RightRequest(now)
    BY <1>0, <1>2, <1>3, <1>4 DEF NodeDataTypes, RightRequest, PatchPCs, DeletePCs, TagPCs
  <1>7. /\ Proper(tags', TagNames)
        /\ \A s \in TagNames : tags[s] # 0 => tags'[s] = tags[s]
        /\ \A s \in TagNames : tags'[s] = tags[s] \/ tags'[s] \notin KeysOf(tags)
        /\ KeysOf(tags) \subseteq KeysOf(tags')
    BY <1>0, <1>1, <1>3, UpsertFacts DEF NodeDataTypes
  <1>8. ASSUME ~overtaken
        PROVE  /\ RowsWhole'
               /\ \A g \in Handlers : handler'[g].pc \in TagPCs => handler'[g].key \in KeysOf(tags')
               /\ \A g \in Handlers : PatchKnows(g)' /\ DeletionKnows(g)'
    <2>0. UntilOvertaken
      BY <1>8 DEF NodeDataInv
    <2>1. RowsWhole'
      <3>1. KeysOf(nodes') = KeysOf(nodes)
        BY <1>2
      <3> QED BY <1>2, <1>7, <2>0, <3>1 DEF UntilOvertaken, RowsWhole
    <2>2. \A g \in Handlers : handler'[g].pc \in TagPCs => handler'[g].key \in KeysOf(tags')
      BY <1>4, <1>5, <1>7, <2>0 DEF UntilOvertaken, RequestsApart, TagPCs
    <2>3. ASSUME NEW g \in Handlers \ {h} PROVE PatchKnows(g)' /\ DeletionKnows(g)'
      <3>1. handler'[g] = handler[g] /\ PatchKnows(g) /\ DeletionKnows(g) /\ handler[g].want \subseteq TagNames
        BY <1>0, <1>5, <2>0 DEF UntilOvertaken, NodeDataTypes, HandlerTypes
      <3>2. PatchKnows(g)'
        BY <1>0, <1>2, <1>7, <3>1, OthersKnow
      <3> QED BY <1>2, <3>1, <3>2 DEF DeletionKnows
    <2>4. PatchKnows(h)'
      <3>1. PatchKnows(h)
        BY <2>0 DEF UntilOvertaken
      <3>2. Given(h)' = Given(h) /\ Given(h) \subseteq TagNames
        BY <1>0, <1>2, <1>4, <1>5 DEF Given, HandlerTypes
      <3>3. \A s \in Given(h) : tags[s] # 0 /\ tags'[s] = tags[s]
        BY <1>2, <1>7, <3>1, <3>2 DEF PatchKnows, PatchPCs
      <3> QED BY <1>2, <1>4, <1>5, <3>1, <3>2, <3>3 DEF PatchKnows, PatchPCs
    <2>5. DeletionKnows(h)'
      BY <1>4, <1>5 DEF DeletionKnows
    <2> QED BY <2>1, <2>2, <2>3, <2>4, <2>5
  <1>9. Proper(nodes', NodeNames) /\ metrics' \subseteq NodeNames /\ alerts' \subseteq NodeNames
    BY <1>0, <1>2 DEF NodeDataTypes
  <1> QED BY <1>2, <1>4, <1>6, <1>7, <1>8, <1>9, StatementKeeps DEF TagPCs

\* The node has the tag in hand.
LEMMA InsertUseKeeps == ASSUME NodeDataInv, NEW h \in Handlers, InsertUse(h) PROVE NodeDataInv'
  <1> DEFINE now == [handler[h] EXCEPT !.pc = "next_tag"]
             row == <<handler[h].key, handler[h].use>>
  <1>0. handler[h] \in HandlerTypes /\ NodeDataTypes
    BY DEF NodeDataInv, NodeDataTypes
  <1>1. /\ handler[h].pc = "insert_use" /\ UNCHANGED <<nodes, tags, metrics, alerts, overtaken>>
        /\ handler' = [handler EXCEPT ![h] = now]
        /\ nodeTags' = nodeTags \cup {row}
    BY <1>0 DEF InsertUse, Reached, Goto, NodeDataTypes, HandlerTypes
  <1>2. /\ now \in HandlerTypes /\ now.pc = "next_tag" /\ now.node = handler[h].node
        /\ now.key = handler[h].key /\ now.want = handler[h].want
        /\ now.todo = handler[h].todo /\ now.tag = handler[h].tag
    BY <1>0 DEF HandlerTypes, PatchPCs
  <1>3. row[1] = handler[h].key /\ row[2] = handler[h].use
    OBVIOUS
  <1> HIDE DEF now, row
  <1>4. handler'[h] = now /\ \A g \in Handlers \ {h} : handler'[g] = handler[g]
    BY <1>0, <1>1 DEF NodeDataTypes
  <1>5. RightRequest(now)
    BY <1>0, <1>1, <1>2 DEF NodeDataTypes, RightRequest, PatchPCs, DeletePCs, TagPCs
  <1>6. /\ handler[h].node \in NodeNames /\ handler[h].tag \in handler[h].want \ handler[h].todo
        /\ handler[h].tag \in TagNames
    BY <1>0, <1>1 DEF NodeDataTypes, HandlerTypes, PatchPCs
  <1>7. ASSUME ~overtaken
        PROVE  /\ RowsWhole'
               /\ \A g \in Handlers : handler'[g].pc \in TagPCs => handler'[g].key \in KeysOf(tags')
               /\ \A g \in Handlers : PatchKnows(g)' /\ DeletionKnows(g)'
    <2>0. UntilOvertaken
      BY <1>7 DEF NodeDataInv
    <2>1. /\ handler[h].key = nodes[handler[h].node] /\ handler[h].key # 0
          /\ handler[h].use = tags[handler[h].tag] /\ handler[h].use # 0
      BY <1>1, <2>0 DEF UntilOvertaken, PatchKnows, PatchPCs
    <2>2. row[1] \in KeysOf(nodes) /\ row[2] \in KeysOf(tags)
      BY <1>0, <1>3, <1>6, <2>1 DEF NodeDataTypes, Proper, KeysOf
    <2>3. RowsWhole'
      BY <1>1, <2>0, <2>2 DEF UntilOvertaken, RowsWhole
    <2>4. \A g \in Handlers : handler'[g].pc \in TagPCs => handler'[g].key \in KeysOf(tags')
      BY <1>1, <1>2, <1>4, <2>0 DEF UntilOvertaken, RequestsApart, TagPCs
    <2>5. ASSUME NEW g \in Handlers \ {h} PROVE PatchKnows(g)' /\ DeletionKnows(g)'
      <3>1. handler'[g] = handler[g] /\ PatchKnows(g) /\ DeletionKnows(g)
        BY <1>4, <2>0 DEF UntilOvertaken
      <3>2. handler[g].pc \in PatchPCs \ {"find_node", "clear"} => row[1] # handler[g].key
        BY <1>0, <1>1, <1>3, <2>0, <2>1, <3>1, KeysApart DEF UntilOvertaken, PatchPCs
      <3>3. PatchKnows(g)'
        BY <1>0, <1>1, <3>1, <3>2, OthersKnow
      <3>4. handler[g].pc \in {"metrics", "alerts", "nodes"} => row[1] # nodes[handler[g].node]
        <4> SUFFICES ASSUME handler[g].pc \in {"metrics", "alerts", "nodes"} PROVE row[1] # nodes[handler[g].node]
          OBVIOUS
        <4>1. PatchKnows(h)
          BY <2>0 DEF UntilOvertaken
        <4> QED BY <1>0, <1>1, <1>3, <2>0, <4>1, KeysApart DEF UntilOvertaken, PatchPCs, DeletePCs
      <3>5. handler[g].pc = "tag" => row[2] # handler[g].key
        BY <1>3, <1>6, <2>0, <2>1 DEF UntilOvertaken, RequestsApart, TagPCs
      <3> QED BY <1>1, <3>1, <3>3, <3>4, <3>5 DEF DeletionKnows
    <2>6. PatchKnows(h)'
      <3>1. Given(h)' = Given(h) \cup {handler[h].tag}
        BY <1>1, <1>2, <1>4, <1>6 DEF Given
      <3>2. PatchKnows(h)
        BY <2>0 DEF UntilOvertaken
      <3>3. <<handler[h].key, tags[handler[h].tag]>> \in nodeTags'
        BY <1>1, <2>1 DEF row
      <3> QED BY <1>1, <1>2, <1>3, <1>4, <2>1, <3>1, <3>2, <3>3 DEF PatchKnows, PatchPCs
    <2>7. DeletionKnows(h)'
      BY <1>2, <1>4 DEF DeletionKnows
    <2> QED BY <2>3, <2>4, <2>5, <2>6, <2>7
  <1>8. Proper(nodes', NodeNames) /\ Proper(tags', TagNames) /\ metrics' \subseteq NodeNames /\ alerts' \subseteq NodeNames
    BY <1>0, <1>1 DEF NodeDataTypes
  <1> QED BY <1>1, <1>2, <1>5, <1>7, <1>8, StatementKeeps DEF TagPCs

\* The metrics or the alerts of a node that is being deleted go.
LEMMA OthersOfNodeGo ==
    ASSUME NodeDataInv, NEW h \in Handlers, DeleteMetrics(h) \/ DeleteAlertRows(h)
    PROVE  NodeDataInv'
  <1> DEFINE pc == IF DeleteMetrics(h) THEN "alerts" ELSE "nodes"
             now == [handler[h] EXCEPT !.pc = pc]
  <1>0. handler[h] \in HandlerTypes /\ NodeDataTypes
    BY DEF NodeDataInv, NodeDataTypes
  <1>1. /\ UNCHANGED <<nodes, tags, nodeTags, overtaken>>
        /\ metrics' \subseteq metrics /\ alerts' \subseteq alerts
        /\ \/ /\ handler[h].pc = "metrics" /\ pc = "alerts" /\ handler[h].node \notin metrics'
           \/ /\ handler[h].pc = "alerts" /\ pc = "nodes" /\ handler[h].node \notin alerts'
        /\ handler' = [handler EXCEPT ![h].pc = pc]
    BY DEF DeleteMetrics, DeleteAlertRows, Goto, Reached
  <1> HIDE DEF pc
  <1>2. handler' = [handler EXCEPT ![h] = now]
    BY <1>1 DEF NodeDataInv, NodeDataTypes, HandlerTypes
  <1>3. /\ now \in HandlerTypes /\ now.pc = pc /\ now.node = handler[h].node /\ now.key = handler[h].key
        /\ now.want = handler[h].want /\ now.todo = handler[h].todo /\ now.tag = handler[h].tag
    BY <1>0, <1>1 DEF HandlerTypes, PatchPCs, DeletePCs, TagPCs
  <1> HIDE DEF now
  <1>4. handler'[h] = now /\ \A g \in Handlers \ {h} : handler'[g] = handler[g]
    BY <1>2 DEF NodeDataInv, NodeDataTypes
  <1>5. RightRequest(now) /\ now.pc \notin TagPCs
    BY <1>0, <1>1, <1>3 DEF NodeDataTypes, RightRequest, PatchPCs, DeletePCs, TagPCs
  <1>6. ASSUME ~overtaken
        PROVE  /\ RowsWhole'
               /\ \A g \in Handlers : handler'[g].pc \in TagPCs => handler'[g].key \in KeysOf(tags')
               /\ \A g \in Handlers : PatchKnows(g)' /\ DeletionKnows(g)'
    <2>0. UntilOvertaken
      BY <1>6 DEF NodeDataInv
    <2>1. RowsWhole'
      BY <1>1, <2>0 DEF UntilOvertaken, RowsWhole
    <2>2. \A g \in Handlers : handler'[g].pc \in TagPCs => handler'[g].key \in KeysOf(tags')
      BY <1>1, <1>3, <1>4, <1>5, <2>0 DEF UntilOvertaken, RequestsApart
    <2>3. ASSUME NEW g \in Handlers \ {h} PROVE PatchKnows(g)' /\ DeletionKnows(g)'
      <3>1. handler'[g] = handler[g] /\ PatchKnows(g) /\ DeletionKnows(g)
        BY <1>4, <2>0 DEF UntilOvertaken
      <3>2. PatchKnows(g)'
        BY <1>0, <1>1, <3>1, OthersKnow
      <3> QED BY <1>1, <3>1, <3>2 DEF DeletionKnows
    <2>4. PatchKnows(h)'
      BY <1>1, <1>3, <1>4 DEF PatchKnows, PatchPCs
    <2>5. DeletionKnows(h)'
      BY <1>1, <1>3, <1>4, <2>0 DEF UntilOvertaken, DeletionKnows
    <2> QED BY <2>1, <2>2, <2>3, <2>4, <2>5
  <1>7. Proper(nodes', NodeNames) /\ Proper(tags', TagNames) /\ metrics' \subseteq NodeNames /\ alerts' \subseteq NodeNames
    BY <1>0, <1>1 DEF NodeDataTypes
  <1> QED BY <1>1, <1>2, <1>3, <1>5, <1>6, <1>7, StatementKeeps

\* The handler of a deletion answers; its row goes last.
LEMMA AtRest ==
    ASSUME NodeDataInv, NEW h \in Handlers, Returns(h)
    PROVE  /\ handler' = [handler EXCEPT ![h] = AtEase] /\ handler'[h] = AtEase
           /\ \A g \in Handlers \ {h} : handler'[g] = handler[g]
           /\ AtEase \in HandlerTypes /\ RightRequest(AtEase) /\ AtEase.pc \notin TagPCs
           /\ AtEase.node = "none" /\ AtEase.want = {}
           /\ PatchKnows(h)' /\ DeletionKnows(h)'
  <1>1. /\ AtEase.pc = "idle" /\ AtEase.node = "none" /\ AtEase.want = {} /\ AtEase.todo = {}
    BY DEF AtEase
  <1>2. /\ handler' = [handler EXCEPT ![h] = AtEase] /\ handler'[h] = AtEase
        /\ \A g \in Handlers \ {h} : handler'[g] = handler[g]
    BY DEF Returns, NodeDataInv, NodeDataTypes
  <1>3. RightRequest(AtEase) /\ AtEase.pc \notin TagPCs
    BY <1>1 DEF RightRequest, PatchPCs, DeletePCs, TagPCs
  <1>4. PatchKnows(h)' /\ DeletionKnows(h)'
    BY <1>1, <1>2 DEF PatchKnows, DeletionKnows, PatchPCs
  <1> QED BY <1>1, <1>2, <1>3, <1>4, Resting

LEMMA NodeRowGoes == ASSUME NodeDataInv, NEW h \in Handlers, DeleteNodeRow(h) PROVE NodeDataInv'
  <1> DEFINE n == handler[h].node
  <1>0. handler[h] \in HandlerTypes /\ NodeDataTypes
    BY DEF NodeDataInv, NodeDataTypes
  <1>1. /\ handler[h].pc = "nodes" /\ UNCHANGED <<tags, nodeTags, metrics, alerts, overtaken>>
        /\ nodes' = [nodes EXCEPT ![n] = 0] /\ Returns(h)
    BY DEF DeleteNodeRow, Reached
  <1>2. n \in NodeNames
    BY <1>0, <1>1 DEF NodeDataTypes, DeletePCs
  <1>3. /\ nodes' \in [NodeNames -> Nat] /\ nodes'[n] = 0
        /\ \A m \in NodeNames \ {n} : nodes'[m] = nodes[m]
    BY <1>0, <1>1, <1>2 DEF NodeDataTypes, Proper
  <1>4. Proper(nodes', NodeNames)
    <2>1. PICK b \in Nat : \A m \in NodeNames : nodes[m] <= b
      BY <1>0 DEF NodeDataTypes, Proper
    <2>2. \A m \in NodeNames : nodes'[m] <= b
      BY <1>2, <1>3, <2>1
    <2>3. \A r, s \in NodeNames : nodes'[r] = nodes'[s] /\ nodes'[r] # 0 => r = s
      BY <1>0, <1>3 DEF NodeDataTypes, Proper
    <2> QED BY <1>3, <2>2, <2>3 DEF Proper
  <1> HIDE DEF n
  <1>5. ASSUME ~overtaken
        PROVE  /\ RowsWhole'
               /\ \A g \in Handlers : handler'[g].pc \in TagPCs => handler'[g].key \in KeysOf(tags')
               /\ \A g \in Handlers : PatchKnows(g)' /\ DeletionKnows(g)'
    <2>0. UntilOvertaken
      BY <1>5 DEF NodeDataInv
    <2>1. n \notin metrics /\ n \notin alerts /\ \A r \in nodeTags : r[1] # nodes[n]
      BY <1>1, <2>0 DEF n, UntilOvertaken, DeletionKnows
    <2>2. ASSUME NEW k \in KeysOf(nodes), k # nodes[n] PROVE k \in KeysOf(nodes')
      BY <1>0, <1>3, <2>2 DEF KeysOf, NodeDataTypes, Proper
    <2>3. RowsWhole'
      <3>1. \A m \in metrics \cup alerts : m \in NodeNames \ {n} /\ nodes[m] # 0
        BY <1>0, <2>0, <2>1 DEF UntilOvertaken, RowsWhole, NodeDataTypes
      <3> QED BY <1>1, <1>3, <2>0, <2>1, <2>2, <3>1 DEF UntilOvertaken, RowsWhole
    <2>4. \A g \in Handlers : handler'[g].pc \in TagPCs => handler'[g].key \in KeysOf(tags')
      BY <1>1, <2>0, AtRest DEF UntilOvertaken, RequestsApart
    <2>5. ASSUME NEW g \in Handlers \ {h} PROVE PatchKnows(g)' /\ DeletionKnows(g)'
      <3>1. handler'[g] = handler[g] /\ PatchKnows(g) /\ DeletionKnows(g)
        BY <1>1, <2>0, AtRest DEF UntilOvertaken
      <3>2. handler[g].pc \in PatchPCs \cup DeletePCs => handler[g].node \in NodeNames \ {n}
        BY <1>0, <1>2, <2>0, NodeDataAssumption DEF n, NodeDataTypes, UntilOvertaken, RequestsApart
      <3>3. PatchKnows(g)'
        BY <1>0, <1>1, <1>3, <3>1, <3>2, OthersKnow
      <3> QED BY <1>1, <1>3, <3>1, <3>2, <3>3 DEF DeletionKnows, DeletePCs
    <2> QED BY <1>1, <2>3, <2>4, <2>5, AtRest
  <1>6. Proper(tags', TagNames) /\ metrics' \subseteq NodeNames /\ alerts' \subseteq NodeNames
    BY <1>0, <1>1 DEF NodeDataTypes
  <1> QED BY <1>1, <1>4, <1>5, <1>6, AtRest, StatementKeeps

LEMMA TagRowGoes == ASSUME NodeDataInv, NEW h \in Handlers, DeleteTagRow(h) PROVE NodeDataInv'
  <1> DEFINE k == handler[h].key
  <1>0. handler[h] \in HandlerTypes /\ NodeDataTypes
    BY DEF NodeDataInv, NodeDataTypes
  <1>1. /\ handler[h].pc = "tag" /\ UNCHANGED <<nodes, nodeTags, metrics, alerts, overtaken>>
        /\ tags' = [t \in TagNames |-> IF tags[t] = k THEN 0 ELSE tags[t]] /\ Returns(h)
    BY DEF DeleteTagRow, Reached
  <1> HIDE DEF k
  <1>2. /\ tags' \in [TagNames -> Nat]
        /\ \A t \in TagNames : tags[t] # k => tags'[t] = tags[t]
        /\ \A t \in TagNames : tags'[t] \in {tags[t], 0}
    BY <1>0, <1>1 DEF NodeDataTypes, Proper
  <1>3. Proper(tags', TagNames)
    <2>1. PICK b \in Nat : \A t \in TagNames : tags[t] <= b
      BY <1>0 DEF NodeDataTypes, Proper
    <2>2. \A t \in TagNames : tags'[t] <= b
      BY <1>2, <2>1
    <2>3. \A r, s \in TagNames : tags'[r] = tags'[s] /\ tags'[r] # 0 => r = s
      BY <1>0, <1>2 DEF NodeDataTypes, Proper
    <2> QED BY <1>2, <2>2, <2>3 DEF Proper
  <1>4. ASSUME ~overtaken
        PROVE  /\ RowsWhole'
               /\ \A g \in Handlers : handler'[g].pc \in TagPCs => handler'[g].key \in KeysOf(tags')
               /\ \A g \in Handlers : PatchKnows(g)' /\ DeletionKnows(g)'
    <2>0. UntilOvertaken
      BY <1>4 DEF NodeDataInv
    <2>1. \A r \in nodeTags : r[2] # k
      BY <1>1, <2>0 DEF k, UntilOvertaken, DeletionKnows
    <2>2. ASSUME NEW j \in KeysOf(tags), j # k PROVE j \in KeysOf(tags')
      BY <1>0, <1>2, <2>2 DEF KeysOf, NodeDataTypes, Proper
    <2>3. RowsWhole'
      <3>1. KeysOf(nodes') = KeysOf(nodes)
        BY <1>1
      <3> QED BY <1>1, <2>0, <2>1, <2>2, <3>1 DEF UntilOvertaken, RowsWhole
    <2>4. \A g \in Handlers : handler'[g].pc \in TagPCs => handler'[g].key \in KeysOf(tags')
      <3> SUFFICES ASSUME NEW g \in Handlers, handler'[g].pc \in TagPCs
                   PROVE  handler'[g].key \in KeysOf(tags')
        OBVIOUS
      <3>1. g # h /\ handler'[g] = handler[g]
        BY <1>1, AtRest
      <3>2. handler[g].key \in KeysOf(tags) /\ handler[g].key # k
        BY <1>1, <2>0, <3>1 DEF k, UntilOvertaken, RequestsApart, TagPCs
      <3> QED BY <2>2, <3>1, <3>2
    <2>5. ASSUME NEW g \in Handlers \ {h} PROVE PatchKnows(g)' /\ DeletionKnows(g)'
      <3>1. handler'[g] = handler[g] /\ PatchKnows(g) /\ DeletionKnows(g)
        BY <1>1, <2>0, AtRest DEF UntilOvertaken
      <3>2. \A t \in handler[g].want : t \in TagNames /\ tags[t] # k
        BY <1>0, <1>1, <2>0 DEF k, UntilOvertaken, RequestsApart, TagPCs, NodeDataTypes, HandlerTypes
      <3>3. PatchKnows(g)'
        BY <1>0, <1>1, <1>2, <3>1, <3>2, OthersKnow
      <3> QED BY <1>1, <3>1, <3>3 DEF DeletionKnows
    <2> QED BY <1>1, <2>3, <2>4, <2>5, AtRest
  <1>5. Proper(nodes', NodeNames) /\ metrics' \subseteq NodeNames /\ alerts' \subseteq NodeNames
    BY <1>0, <1>1 DEF NodeDataTypes
  <1> QED BY <1>1, <1>2, <1>3, <1>4, <1>5, AtRest, StatementKeeps

LEMMA NodeDataStep == NodeDataInv /\ [NodeDataNext]_nodeDataVars => NodeDataInv'
  <1> SUFFICES ASSUME NodeDataInv, [NodeDataNext]_nodeDataVars PROVE NodeDataInv'
    OBVIOUS
  <1>1. CASE UNCHANGED nodeDataVars
    BY <1>1 DEF nodeDataVars, rowVars, NodeDataInv, NodeDataTypes, Proper, UntilOvertaken, RowsWhole,
                RequestsApart, PatchKnows, DeletionKnows, Given, KeysOf
  <1>2. CASE \/ \E n \in NodeNames : HandleReport(n) \/ RaiseAlert(n)
             \/ \E t \in TagNames : CreateTag(t)
    BY <1>2, WritersKeep
  <1>3. ASSUME NEW h \in Handlers,
               \/ \E n \in NodeNames : DeleteNode(h, n) \/ \E want \in SUBSET TagNames : PatchNode(h, n, want)
               \/ \E t \in TagNames : DeleteTag(h, t)
        PROVE  NodeDataInv'
    BY <1>3, RequestKeeps
  <1>4. ASSUME NEW h \in Handlers, HandlerStep(h) PROVE NodeDataInv'
    <2>1. CASE StatementFails(h)
      BY <2>1, AnswerKeeps DEF StatementFails
    <2> QED BY <1>4, <2>1, ReadsKeep, UsesGo, InsertTagKeeps, InsertUseKeeps, OthersOfNodeGo,
               NodeRowGoes, TagRowGoes DEF HandlerStep
  <1> QED BY <1>1, <1>2, <1>3, <1>4 DEF NodeDataNext

LEMMA NodeDataIsInv == NodeDataSpec => []NodeDataInv
  BY NodeDataStart, NodeDataStep, PTL DEF NodeDataSpec

\* For every number of nodes, tags and requests: whatever deletion fails and
\* wherever, it leaves no row that a later node or tag would take for its own,
\* unless another request was about the same node or tag (handleNodeDelete,
\* handleTagDelete).
THEOREM DeletionsAreWhole == NodeDataSpec => []NothingIsOrphaned
  <1>1. NodeDataInv => NothingIsOrphaned
    BY DEF NodeDataInv, UntilOvertaken, RowsWhole, NothingIsOrphaned
  <1> QED BY <1>1, NodeDataIsInv, PTL

\* A PATCH that is answered gave its node the tags it asked for and no others,
\* unless another request was about the same node or tag (syncNodeTags).
THEOREM PatchesAreWhole == NodeDataSpec => []PatchIsWhole
  <1>1. ASSUME NodeDataInv PROVE PatchIsWhole
    <2> SUFFICES ASSUME NEW h \in Handlers, handler[h].pc = "done", ~overtaken
                 PROVE  TagsOf(handler[h].node) = handler[h].want
      BY DEF PatchIsWhole, Reached
    <2>1. PatchKnows(h) /\ RowsWhole
      BY <1>1 DEF NodeDataInv, UntilOvertaken
    <2>2. /\ handler[h].want \subseteq TagNames /\ handler[h].todo = {}
          /\ Proper(tags, TagNames)
      BY <1>1 DEF NodeDataInv, NodeDataTypes, HandlerTypes
    <2>3. Given(h) = handler[h].want
      BY <2>2 DEF Given
    <2> DEFINE k == nodes[handler[h].node]
    <2>4. /\ handler[h].key = k /\ k # 0
          /\ \A t \in handler[h].want : tags[t] # 0 /\ <<k, tags[t]>> \in nodeTags
          /\ \A r \in nodeTags : r[1] = k => \E t \in handler[h].want : r[2] = tags[t]
      BY <2>1, <2>3 DEF PatchKnows, PatchPCs
    <2> HIDE DEF k
    <2>5. \A t \in TagNames : <<k, tags[t]>> \in nodeTags /\ tags[t] # 0 => t \in handler[h].want
      <3> SUFFICES ASSUME NEW t \in TagNames, <<k, tags[t]>> \in nodeTags, tags[t] # 0
                   PROVE  t \in handler[h].want
        OBVIOUS
      <3>1. PICK s \in handler[h].want : tags[t] = tags[s]
        BY <2>4
      <3> QED BY <2>2, <3>1 DEF Proper
    <2>6. TagsOf(handler[h].node) = {t \in TagNames : <<k, tags[t]>> \in nodeTags /\ k # 0 /\ tags[t] # 0}
      BY DEF TagsOf, k
    <2> QED BY <2>2, <2>4, <2>5, <2>6
  <1> QED BY <1>1, NodeDataIsInv, PTL

-----------------------------------------------------------------------------
(* The types of NodeData.  What is new in them is how large a key can get:  *)
(* beyond the number of names only by deletions, one for each.              *)

\* The rows of a table, and a bound on their keys that leaves room for n more.
KeyedRows(table, S) == {r \in S : table[r] # 0}
Room(table, S, n) == \A r \in KeyedRows(table, S) : table[r] <= Cardinality(KeyedRows(table, S)) + n

\* A new row's key is at most one more than the bound, and there is one row more.
LEMMA UpsertKeepsRoom ==
    ASSUME NEW S, IsFiniteSet(S), NEW table, Proper(table, S), NEW r \in S, NEW n \in Nat,
           Room(table, S, n)
    PROVE  Room(Upsert(table, r), S, n)
  <1> DEFINE R == KeyedRows(table, S)
             next == NextKey(table)
             new == [table EXCEPT ![r] = next]
  <1>1. table \in [S -> Nat] /\ IsFiniteSet(R) /\ Cardinality(R) \in Nat
    BY FS_Subset, FS_CardinalityType DEF Proper, KeyedRows
  <1>2. CASE table[r] # 0
    BY <1>2 DEF Upsert
  <1>3. CASE table[r] = 0
    <2>1. next \in Nat \ {0} /\ next <= Cardinality(R) + n + 1
      <3>1. CASE KeysOf(table) = {}
        BY <1>1, <3>1 DEF NextKey
      <3>2. CASE KeysOf(table) # {}
        <4>1. PICK b \in Nat : \A s \in S : table[s] <= b
          BY DEF Proper
        <4>2. KeysOf(table) \subseteq Nat /\ \A k \in KeysOf(table) : k <= b
          BY <1>1, <4>1 DEF KeysOf
        <4>3. Max(KeysOf(table)) \in KeysOf(table)
          BY <3>2, <4>2, GreatestIsThere
        <4>4. PICK s \in R : table[s] = Max(KeysOf(table))
          BY <1>1, <4>3 DEF KeysOf, KeyedRows
        <4>5. next = table[s] + 1 /\ table[s] \in Nat /\ table[s] <= Cardinality(R) + n
          BY <1>1, <3>2, <4>4 DEF NextKey, Room, KeyedRows
        <4> HIDE DEF next, R
        <4> QED BY <1>1, <4>5
      <3> QED BY <3>1, <3>2
    <2>2. KeyedRows(new, S) = R \cup {r} /\ r \notin R /\ new[r] = next /\ \A s \in R : new[s] = table[s]
      BY <1>1, <1>3, <2>1 DEF KeyedRows
    <2>3. Cardinality(R \cup {r}) = Cardinality(R) + 1
      BY <1>1, <2>2, FS_AddElement
    <2>4. \A s \in R : table[s] \in Nat /\ table[s] <= Cardinality(R) + n
      BY <1>1 DEF Room, KeyedRows
    <2>5. Upsert(table, r) = new
      BY <1>3 DEF Upsert
    <2> HIDE DEF new, next, R
    <2>6. \A s \in R \cup {r} : new[s] <= Cardinality(R) + 1 + n
      BY <1>1, <2>1, <2>2, <2>4
    <2> QED BY <2>2, <2>3, <2>5, <2>6 DEF Room
  <1> QED BY <1>2, <1>3

\* A row that goes takes one from the number of rows.
LEMMA DeletionTakesRoom ==
    ASSUME NEW S, IsFiniteSet(S), NEW table \in [S -> Nat], NEW new, NEW q \in S, NEW n \in Nat,
           \A r \in S : new[r] = IF r = q THEN 0 ELSE table[r], Room(table, S, n)
    PROVE  Room(new, S, n + 1)
  <1> DEFINE R == KeyedRows(table, S)
  <1>1. IsFiniteSet(R) /\ Cardinality(R) \in Nat
    BY FS_Subset, FS_CardinalityType DEF KeyedRows
  <1>2. KeyedRows(new, S) = R \ {q} /\ \A r \in R \ {q} : new[r] = table[r]
    BY DEF KeyedRows
  <1>3. \A r \in R : table[r] \in Nat /\ table[r] <= Cardinality(R) + n
    BY DEF Room, KeyedRows
  <1> HIDE DEF R
  <1>4. Cardinality(R \ {q}) \in {Cardinality(R), Cardinality(R) - 1}
    BY <1>1, FS_RemoveElement
  <1>5. \A r \in R \ {q} : new[r] <= Cardinality(R \ {q}) + (n + 1)
    BY <1>1, <1>2, <1>3, <1>4
  <1> QED BY <1>2, <1>5 DEF Room

\* More requests, more room.
LEMMA RoomGrows ==
    ASSUME NEW S, IsFiniteSet(S), NEW table \in [S -> Nat], NEW n \in Nat, NEW m \in Nat, n <= m,
           Room(table, S, n)
    PROVE  Room(table, S, m)
  <1>1. Cardinality(KeyedRows(table, S)) \in Nat
    BY FS_Subset, FS_CardinalityType DEF KeyedRows
  <1>2. \A r \in KeyedRows(table, S) : table[r] \in Nat
    BY DEF KeyedRows
  <1> QED BY <1>1, <1>2 DEF Room

\* The requests that have not yet deleted their row, and how many others there were.
Deleting(pcs) == {h \in Handlers : handler[h].pc \in pcs}
Spent(pcs) == requests - Cardinality(Deleting(pcs))
SpentTypes(pcs) == IsFiniteSet(Deleting(pcs)) /\ Spent(pcs) \in Nat

\* A request begins to delete at most when it is counted.
LEMMA SpentGrows ==
    ASSUME NEW pcs, SpentTypes(pcs), requests \in Nat, NEW h \in Handlers,
           \/ requests' = requests + 1 /\ Deleting(pcs)' \subseteq Deleting(pcs) \cup {h}
           \/ requests' = requests /\ Deleting(pcs)' \subseteq Deleting(pcs)
    PROVE  SpentTypes(pcs)' /\ Spent(pcs)' >= Spent(pcs)
  <1> DEFINE D == Deleting(pcs)
             E == Deleting(pcs)'
  <1>1. IsFiniteSet(D) /\ Cardinality(D) \in Nat /\ requests - Cardinality(D) \in Nat
    BY FS_CardinalityType DEF SpentTypes, Spent
  <1>2. SpentTypes(pcs)' <=> IsFiniteSet(E) /\ requests' - Cardinality(E) \in Nat
    BY DEF SpentTypes, Spent
  <1>3. Spent(pcs) = requests - Cardinality(D) /\ Spent(pcs)' = requests' - Cardinality(E)
    BY DEF Spent
  <1>4. CASE requests' = requests + 1 /\ E \subseteq D \cup {h}
    <2> HIDE DEF D, E
    <2>1. IsFiniteSet(D \cup {h}) /\ Cardinality(D \cup {h}) \in {Cardinality(D), Cardinality(D) + 1}
      BY <1>1, FS_AddElement
    <2>2. IsFiniteSet(E) /\ Cardinality(E) <= Cardinality(D \cup {h}) /\ Cardinality(E) \in Nat
      BY <1>4, <2>1, FS_Subset, FS_CardinalityType
    <2> QED BY <1>1, <1>2, <1>3, <1>4, <2>1, <2>2
  <1>5. CASE requests' = requests /\ E \subseteq D
    <2> HIDE DEF D, E
    <2>1. IsFiniteSet(E) /\ Cardinality(E) <= Cardinality(D) /\ Cardinality(E) \in Nat
      BY <1>1, <1>5, FS_Subset, FS_CardinalityType
    <2> QED BY <1>1, <1>2, <1>3, <1>5, <2>1
  <1> QED BY <1>4, <1>5

\* A request that has deleted its row is one of the others.
LEMMA DeletionIsSpent ==
    ASSUME NEW pcs, SpentTypes(pcs), requests \in Nat, requests' = requests, NEW h \in Deleting(pcs),
           Deleting(pcs)' = Deleting(pcs) \ {h}
    PROVE  SpentTypes(pcs)' /\ Spent(pcs)' = Spent(pcs) + 1
  <1> DEFINE D == Deleting(pcs)
             E == Deleting(pcs)'
  <1>1. IsFiniteSet(D) /\ Cardinality(D) \in Nat /\ requests - Cardinality(D) \in Nat
    BY FS_CardinalityType DEF SpentTypes, Spent
  <1>2. SpentTypes(pcs)' <=> IsFiniteSet(E) /\ requests' - Cardinality(E) \in Nat
    BY DEF SpentTypes, Spent
  <1>3. Spent(pcs) = requests - Cardinality(D) /\ Spent(pcs)' = requests' - Cardinality(E)
    BY DEF Spent
  <1>4. E = D \ {h} /\ h \in D
    OBVIOUS
  <1> HIDE DEF D, E
  <1>5. IsFiniteSet(E) /\ Cardinality(E) = Cardinality(D) - 1
    BY <1>1, <1>4, FS_RemoveElement
  <1> QED BY <1>1, <1>2, <1>3, <1>5

-----------------------------------------------------------------------------
\* The keys a request has read are keys.
KeysKnown ==
    /\ requests \in 0 .. MaxRequests
    /\ \A r \in nodeTags : r[1] > 0 /\ r[2] > 0
    /\ \A h \in Handlers :
          /\ handler[h].pc \in {"clear", "next_tag", "find_tag", "insert_use"} => handler[h].key > 0
          /\ handler[h].pc = "insert_use" => handler[h].use > 0

KeysInRoom ==
    /\ SpentTypes(DeletePCs) /\ Room(nodes, NodeNames, Spent(DeletePCs))
    /\ SpentTypes(TagPCs) /\ Room(tags, TagNames, Spent(TagPCs))

LEMMA KeysKnownStep ==
    ASSUME NodeDataTypes, KeysKnown, [NodeDataNext]_nodeDataVars PROVE KeysKnown'
  <1>0. /\ handler \in [Handlers -> HandlerTypes] /\ requests \in Nat /\ MaxRequests \in Nat
        /\ nodes \in [NodeNames -> Nat] /\ tags \in [TagNames -> Nat]
        /\ \A h \in Handlers : handler[h].pc \in PatchPCs => handler[h].node \in NodeNames
    BY NodeDataAssumption DEF NodeDataTypes, KeysKnown, Proper
  <1>1. CASE UNCHANGED nodeDataVars \/ \E n \in NodeNames : HandleReport(n) \/ RaiseAlert(n)
    BY <1>1 DEF nodeDataVars, rowVars, HandleReport, RaiseAlert, KeysKnown
  <1>2. CASE \E t \in TagNames : CreateTag(t)
    BY <1>2 DEF CreateTag, KeysKnown
  <1>3. ASSUME NEW h \in Handlers, NEW start,
               start.pc \notin {"clear", "next_tag", "find_tag", "insert_use"}, Receive(h, start)
        PROVE  KeysKnown'
    BY <1>0, <1>3 DEF Receive, rowVars, KeysKnown
  <1>4. ASSUME NEW h \in Handlers,
               \/ \E n \in NodeNames : DeleteNode(h, n) \/ \E want \in SUBSET TagNames : PatchNode(h, n, want)
               \/ \E t \in TagNames : DeleteTag(h, t)
        PROVE  KeysKnown'
    BY <1>3, <1>4 DEF DeleteNode, PatchNode, DeleteTag, AtEase
  <1>5. ASSUME NEW h \in Handlers, HandlerStep(h) PROVE KeysKnown'
    <2>1. requests' = requests
      BY <1>5 DEF HandlerStep, FindNode, ClearTags, InsertTag, FindTag, InsertUse, Patched, DeleteNodeTags,
                  DeleteMetrics, DeleteAlertRows, DeleteNodeRow, DeleteTagUses, DeleteTagRow, StatementFails
    <2>2. CASE FindNode(h)
      <3>1. handler[h].node \in NodeNames /\ nodes[handler[h].node] \in Nat
        BY <1>0, <2>2 DEF FindNode, Reached, PatchPCs
      <3> DEFINE k == nodes[handler[h].node]
      <3>2. /\ nodeTags' = nodeTags
            /\ \/ handler' = [handler EXCEPT ![h] = AtEase]
               \/ k # 0 /\ handler' = [handler EXCEPT ![h].key = k, ![h].pc = "clear"]
        BY <2>2 DEF FindNode, Returns, rowVars
      <3> HIDE DEF k
      <3>3. k \in Nat
        BY <3>1 DEF k
      <3> QED BY <1>0, <2>1, <3>2, <3>3 DEF KeysKnown, AtEase, HandlerTypes
    <2>3. CASE FindTag(h)
      <3> DEFINE k == tags[handler[h].tag]
      <3>1. handler[h].pc = "find_tag" /\ handler[h].tag \in TagNames
        BY <2>3 DEF FindTag, Reached, NodeDataTypes, HandlerTypes
      <3>2. /\ nodeTags' = nodeTags
            /\ \/ handler' = [handler EXCEPT ![h] = AtEase]
               \/ k # 0 /\ handler' = [handler EXCEPT ![h].use = k, ![h].pc = "insert_use"]
        BY <2>3 DEF FindTag, Returns, rowVars
      <3>3. k \in Nat
        BY <1>0, <3>1
      <3> HIDE DEF k
      <3> QED BY <1>0, <2>1, <3>1, <3>2, <3>3 DEF KeysKnown, AtEase, HandlerTypes
    <2>4. CASE InsertUse(h)
      <3>1. nodeTags' = nodeTags \cup {<<handler[h].key, handler[h].use>>} /\ handler[h].pc = "insert_use"
            /\ handler' = [handler EXCEPT ![h].pc = "next_tag"]
        BY <2>4 DEF InsertUse, Reached, Goto
      <3> QED BY <1>0, <2>1, <3>1 DEF KeysKnown, HandlerTypes
    <2>5. CASE ClearTags(h) \/ DeleteNodeTags(h) \/ DeleteTagUses(h)
      <3>1. nodeTags' \subseteq nodeTags
        BY <2>5 DEF ClearTags, Without, DeleteNodeTags, DeleteTagUses
      <3>2. \E pc \in {"next_tag", "metrics", "tag"} : /\ handler' = [handler EXCEPT ![h].pc = pc]
                                                       /\ pc = "next_tag" => handler[h].pc = "clear"
        BY <2>5 DEF ClearTags, DeleteNodeTags, DeleteTagUses, Reached, Goto
      <3> QED BY <1>0, <2>1, <3>1, <3>2 DEF KeysKnown, HandlerTypes
    <2>6. CASE InsertTag(h)
      <3>1. /\ nodeTags' = nodeTags /\ handler[h].pc = "next_tag"
            /\ handler'[h].pc = "find_tag" /\ handler'[h].key = handler[h].key
            /\ \A g \in Handlers \ {h} : handler'[g] = handler[g]
        BY <1>0, <2>6 DEF InsertTag, Reached, HandlerTypes
      <3> QED BY <2>1, <3>1 DEF KeysKnown
    <2>7. CASE DeleteMetrics(h) \/ DeleteAlertRows(h) \/ DeleteNodeRow(h) \/ DeleteTagRow(h) \/ Patched(h)
               \/ StatementFails(h)
      <3>1. /\ nodeTags' = nodeTags
            /\ \/ handler' = [handler EXCEPT ![h] = AtEase]
               \/ \E pc \in {"alerts", "nodes", "done"} : handler' = [handler EXCEPT ![h].pc = pc]
        BY <2>7 DEF DeleteMetrics, DeleteAlertRows, DeleteNodeRow, DeleteTagRow, Patched, StatementFails,
                    Returns, Goto, rowVars
      <3> QED BY <1>0, <2>1, <3>1 DEF KeysKnown, AtEase, HandlerTypes
    <2> QED BY <1>5, <2>2, <2>3, <2>4, <2>5, <2>6, <2>7 DEF HandlerStep
  <1> QED BY <1>1, <1>2, <1>4, <1>5 DEF NodeDataNext

\* No request begins to delete while it is served.
LEMMA NoneBegins ==
    ASSUME NodeDataTypes, NEW h \in Handlers, HandlerStep(h), NEW pcs \in {DeletePCs, TagPCs}
    PROVE  Deleting(pcs)' \subseteq Deleting(pcs) /\ requests' = requests
  <1>0. handler \in [Handlers -> HandlerTypes]
    BY DEF NodeDataTypes
  <1>1. /\ \A g \in Handlers \ {h} : handler'[g] = handler[g]
        /\ handler'[h].pc \in pcs => handler[h].pc \in pcs
    <2>1. CASE FindNode(h) \/ FindTag(h) \/ Patched(h)
      BY <1>0, <2>1 DEF FindNode, FindTag, Patched, Goto, Returns, AtEase, HandlerTypes, DeletePCs, TagPCs
    <2>4. CASE InsertTag(h)
      BY <1>0, <2>4 DEF InsertTag, HandlerTypes, DeletePCs, TagPCs
    <2>5. CASE ClearTags(h) \/ InsertUse(h)
      BY <1>0, <2>5 DEF ClearTags, InsertUse, Goto, HandlerTypes, DeletePCs, TagPCs
    <2>2. CASE DeleteNodeTags(h) \/ DeleteMetrics(h) \/ DeleteAlertRows(h) \/ DeleteTagUses(h)
      BY <1>0, <2>2 DEF DeleteNodeTags, DeleteMetrics, DeleteAlertRows, DeleteTagUses, Reached, Goto,
                        HandlerTypes, DeletePCs, TagPCs
    <2>3. CASE DeleteNodeRow(h) \/ DeleteTagRow(h) \/ StatementFails(h)
      BY <1>0, <2>3 DEF DeleteNodeRow, DeleteTagRow, StatementFails, Returns, AtEase, DeletePCs, TagPCs
    <2> QED BY <2>1, <2>2, <2>3, <2>4, <2>5 DEF HandlerStep
  <1>2. requests' = requests
    BY DEF HandlerStep, FindNode, ClearTags, InsertTag, FindTag, InsertUse, Patched, DeleteNodeTags,
           DeleteMetrics, DeleteAlertRows, DeleteNodeRow, DeleteTagUses, DeleteTagRow, StatementFails
  <1> QED BY <1>1, <1>2 DEF Deleting

LEMMA KeysInRoomStep ==
    ASSUME IsFiniteSet(NodeNames), IsFiniteSet(TagNames), NodeDataTypes, NodeDataTypes', requests \in Nat,
           KeysInRoom, [NodeDataNext]_nodeDataVars
    PROVE  KeysInRoom'
  <1> DEFINE D == Spent(DeletePCs)
             T == Spent(TagPCs)
  <1>0. /\ Proper(nodes, NodeNames) /\ Proper(tags, TagNames)
        /\ nodes \in [NodeNames -> Nat] /\ tags \in [TagNames -> Nat]
        /\ nodes' \in [NodeNames -> Nat] /\ tags' \in [TagNames -> Nat]
        /\ D \in Nat /\ T \in Nat /\ SpentTypes(DeletePCs) /\ SpentTypes(TagPCs)
        /\ Room(nodes, NodeNames, D) /\ Room(tags, TagNames, T)
    BY DEF NodeDataTypes, Proper, KeysInRoom, SpentTypes
  <1>1. ASSUME SpentTypes(DeletePCs)', Room(nodes', NodeNames, D'), SpentTypes(TagPCs)', Room(tags', TagNames, T')
        PROVE  KeysInRoom'
    BY <1>1 DEF KeysInRoom
  <1>2. ASSUME SpentTypes(DeletePCs)', D' >= D, SpentTypes(TagPCs)', T' >= T,
               Room(nodes', NodeNames, D), Room(tags', TagNames, T)
        PROVE  KeysInRoom'
    <2>1. D' \in Nat /\ T' \in Nat
      BY <1>2 DEF SpentTypes
    <2> HIDE DEF D, T
    <2>2. Room(nodes', NodeNames, D') /\ Room(tags', TagNames, T')
      BY <1>0, <1>2, <2>1, RoomGrows
    <2> QED BY <1>1, <1>2, <2>2 DEF D, T
  <1>3. ASSUME UNCHANGED <<handler, requests>>
        PROVE  SpentTypes(DeletePCs)' /\ D' >= D /\ SpentTypes(TagPCs)' /\ T' >= T
    <2>1. /\ SpentTypes(DeletePCs)' = SpentTypes(DeletePCs) /\ D' = D
          /\ SpentTypes(TagPCs)' = SpentTypes(TagPCs) /\ T' = T
      BY <1>3 DEF SpentTypes, Spent, Deleting
    <2> HIDE DEF D, T
    <2> QED BY <1>0, <2>1
  <1>4. CASE UNCHANGED nodeDataVars \/ \E n \in NodeNames : RaiseAlert(n)
    <2>1. UNCHANGED <<handler, requests, nodes, tags>>
      BY <1>4 DEF nodeDataVars, rowVars, RaiseAlert
    <2> QED BY <1>0, <1>2, <1>3, <2>1
  <1>5. ASSUME NEW n \in NodeNames, HandleReport(n) PROVE KeysInRoom'
    <2>1. nodes' = Upsert(nodes, n) /\ UNCHANGED <<handler, requests, tags>>
      BY <1>5 DEF HandleReport, NodeRow
    <2>2. Room(Upsert(nodes, n), NodeNames, D)
      <3> HIDE DEF D
      <3> QED BY <1>0, UpsertKeepsRoom
    <2> QED BY <1>0, <1>2, <1>3, <2>1, <2>2
  <1>6. ASSUME NEW t \in TagNames PROVE Room(Upsert(tags, t), TagNames, T)
    <2> HIDE DEF T
    <2> QED BY <1>0, UpsertKeepsRoom
  <1>7. ASSUME NEW t \in TagNames, CreateTag(t) PROVE KeysInRoom'
    <2>1. tags' = Upsert(tags, t) /\ UNCHANGED <<handler, requests, nodes>>
      BY <1>7 DEF CreateTag
    <2> QED BY <1>0, <1>2, <1>3, <1>6, <2>1
  <1>8. ASSUME NEW h \in Handlers, NEW start, Receive(h, start) PROVE KeysInRoom'
    <2>1. /\ requests' = requests + 1 /\ handler' = [handler EXCEPT ![h] = start]
          /\ UNCHANGED <<nodes, tags>>
      BY <1>8 DEF Receive, rowVars
    <2>2. \A pcs : Deleting(pcs)' \subseteq Deleting(pcs) \cup {h}
      BY <2>1 DEF NodeDataTypes, Deleting
    <2>3. SpentTypes(DeletePCs)' /\ D' >= D /\ SpentTypes(TagPCs)' /\ T' >= T
      BY <1>0, <2>1, <2>2, SpentGrows
    <2> QED BY <1>0, <1>2, <2>1, <2>3
  <1>9. ASSUME NEW h \in Handlers, HandlerStep(h) PROVE KeysInRoom'
    <2>0. /\ Deleting(DeletePCs)' \subseteq Deleting(DeletePCs) /\ Deleting(TagPCs)' \subseteq Deleting(TagPCs)
          /\ requests' = requests
      BY <1>9, NoneBegins
    <2>1. SpentTypes(DeletePCs)' /\ D' >= D /\ SpentTypes(TagPCs)' /\ T' >= T
      BY <1>0, <2>0, SpentGrows
    <2>2. CASE \/ FindNode(h) \/ ClearTags(h) \/ FindTag(h) \/ InsertUse(h) \/ Patched(h) \/ DeleteNodeTags(h)
               \/ DeleteMetrics(h) \/ DeleteAlertRows(h) \/ DeleteTagUses(h) \/ StatementFails(h)
      <3>1. UNCHANGED <<nodes, tags>>
        BY <2>2 DEF FindNode, ClearTags, FindTag, InsertUse, Patched, DeleteNodeTags, DeleteMetrics,
                    DeleteAlertRows, DeleteTagUses, StatementFails, rowVars
      <3> QED BY <1>0, <1>2, <2>1, <3>1
    <2>3. CASE InsertTag(h)
      <3>1. PICK t \in handler[h].todo : tags' = Upsert(tags, t) /\ nodes' = nodes
        BY <2>3 DEF InsertTag
      <3>2. t \in TagNames
        BY <3>1 DEF NodeDataTypes, HandlerTypes
      <3> QED BY <1>0, <1>2, <1>6, <2>1, <3>1, <3>2
    <2>4. CASE DeleteNodeRow(h)
      <3> DEFINE n == handler[h].node
      <3>1. /\ nodes' = [nodes EXCEPT ![n] = 0] /\ tags' = tags /\ handler[h].pc = "nodes"
            /\ handler' = [handler EXCEPT ![h] = AtEase]
        BY <2>4 DEF DeleteNodeRow, Reached, Returns
      <3>2. n \in NodeNames
        BY <3>1 DEF NodeDataTypes, DeletePCs
      <3>3. h \in Deleting(DeletePCs) /\ Deleting(DeletePCs)' = Deleting(DeletePCs) \ {h}
        BY <3>1 DEF NodeDataTypes, Deleting, DeletePCs, AtEase
      <3>4. D' = D + 1
        BY <1>0, <2>0, <3>3, DeletionIsSpent
      <3> HIDE DEF n, D, T
      <3>5. \A r \in NodeNames : nodes'[r] = IF r = n THEN 0 ELSE nodes[r]
        BY <1>0, <3>1
      <3>6. Room(nodes', NodeNames, D + 1)
        BY <1>0, <3>2, <3>5, DeletionTakesRoom
      <3>7. T' \in Nat
        BY <2>1 DEF SpentTypes, T
      <3>8. Room(tags', TagNames, T')
        BY <1>0, <2>1, <3>1, <3>7, RoomGrows
      <3> QED BY <1>1, <2>1, <3>4, <3>6, <3>8
    <2>5. CASE DeleteTagRow(h)
      <3> DEFINE k == handler[h].key
      <3>1. /\ tags' = [t \in TagNames |-> IF tags[t] = k THEN 0 ELSE tags[t]] /\ nodes' = nodes
            /\ handler[h].pc = "tag" /\ handler' = [handler EXCEPT ![h] = AtEase]
        BY <2>5 DEF DeleteTagRow, Reached, Returns
      <3>2. h \in Deleting(TagPCs) /\ Deleting(TagPCs)' = Deleting(TagPCs) \ {h}
        BY <3>1 DEF NodeDataTypes, Deleting, TagPCs, AtEase
      <3>3. T' = T + 1
        BY <1>0, <2>0, <3>2, DeletionIsSpent
      <3> HIDE DEF k, D, T
      <3>4. Room(tags', TagNames, T + 1)
        <4>1. CASE \E t \in TagNames : tags[t] = k /\ k # 0
          <5>1. PICK q \in TagNames : tags[q] = k /\ k # 0
            BY <4>1
          <5>2. \A r \in TagNames : tags'[r] = IF r = q THEN 0 ELSE tags[r]
            BY <1>0, <3>1, <5>1 DEF Proper
          <5> QED BY <1>0, <5>2, DeletionTakesRoom
        <4>2. CASE ~ \E t \in TagNames : tags[t] = k /\ k # 0
          <5>1. tags' = tags
            BY <1>0, <3>1, <4>2
          <5>2. T + 1 \in Nat /\ T <= T + 1
            BY <1>0
          <5> QED BY <1>0, <5>1, <5>2, RoomGrows
        <4> QED BY <4>1, <4>2
      <3>5. D' \in Nat
        BY <2>1 DEF SpentTypes, D
      <3>6. Room(nodes', NodeNames, D')
        BY <1>0, <2>1, <3>1, <3>5, RoomGrows
      <3> QED BY <1>1, <2>1, <3>3, <3>4, <3>6
    <2> QED BY <1>9, <2>2, <2>3, <2>4, <2>5 DEF HandlerStep
  <1> QED BY <1>4, <1>5, <1>7, <1>8, <1>9 DEF NodeDataNext, DeleteNode, PatchNode, DeleteTag

\* Rows, node_tags and requests keep their types for every finite number of nodes and
\* tags: node_tags names no key 0, whatever a PATCH read of rows that went since, and a
\* key never exceeds the number of names by more than the requests there were.
THEOREM NodeDataTypeCorrect ==
    ASSUME IsFiniteSet(NodeNames), IsFiniteSet(TagNames) PROVE NodeDataSpec => []NodeDataTypeOK
  <1>1. NodeDataInit => KeysKnown /\ KeysInRoom
    <2> SUFFICES ASSUME NodeDataInit PROVE KeysKnown /\ KeysInRoom
      OBVIOUS
    <2>1. KeysKnown
      BY NodeDataAssumption DEF NodeDataInit, KeysKnown, AtEase
    <2>2. Deleting(DeletePCs) = {} /\ Deleting(TagPCs) = {}
      BY DEF NodeDataInit, Deleting, AtEase, DeletePCs, TagPCs
    <2>3. SpentTypes(DeletePCs) /\ SpentTypes(TagPCs)
      BY <2>2, FS_EmptySet DEF NodeDataInit, SpentTypes, Spent
    <2>4. KeyedRows(nodes, NodeNames) = {} /\ KeyedRows(tags, TagNames) = {}
      BY DEF NodeDataInit, KeyedRows
    <2> QED BY <2>1, <2>3, <2>4 DEF KeysInRoom, Room
  <1>2. NodeDataInv /\ KeysKnown /\ KeysInRoom /\ [NodeDataNext]_nodeDataVars => KeysKnown' /\ KeysInRoom'
    <2> SUFFICES ASSUME NodeDataInv, KeysKnown, KeysInRoom, [NodeDataNext]_nodeDataVars
                 PROVE  KeysKnown' /\ KeysInRoom'
      OBVIOUS
    <2>1. NodeDataTypes /\ NodeDataTypes'
      BY NodeDataStep DEF NodeDataInv
    <2>2. requests \in Nat
      BY NodeDataAssumption DEF KeysKnown
    <2> QED BY <2>1, <2>2, KeysKnownStep, KeysInRoomStep
  <1>3. NodeDataInv /\ KeysKnown /\ KeysInRoom => NodeDataTypeOK
    <2> SUFFICES ASSUME NodeDataInv, KeysKnown, KeysInRoom PROVE NodeDataTypeOK
      OBVIOUS
    <2>1. NodeDataTypes /\ requests \in Nat
      BY NodeDataAssumption DEF NodeDataInv, KeysKnown
    <2>2. ASSUME NEW S, IsFiniteSet(S), NEW table \in [S -> Nat], NEW pcs, SpentTypes(pcs), Room(table, S, Spent(pcs))
          PROVE  table \in [S -> 0 .. Cardinality(S) + requests]
      <3>1. /\ Cardinality(KeyedRows(table, S)) \in Nat /\ Cardinality(S) \in Nat
            /\ Cardinality(KeyedRows(table, S)) <= Cardinality(S)
        BY <2>2, FS_Subset, FS_CardinalityType DEF KeyedRows
      <3>2. Spent(pcs) \in Nat /\ Spent(pcs) <= requests
        BY <2>1, <2>2, FS_CardinalityType DEF SpentTypes, Spent
      <3>3. \A r \in S : table[r] # 0 => table[r] <= Cardinality(S) + requests
        <4>1. \A r \in S : table[r] # 0 => table[r] <= Cardinality(KeyedRows(table, S)) + Spent(pcs)
          BY <2>2 DEF Room, KeyedRows
        <4> QED BY <2>1, <2>2, <3>1, <3>2, <4>1
      <3> QED BY <2>1, <2>2, <3>1, <3>3
    <2>3. /\ nodes \in [NodeNames -> 0 .. Cardinality(NodeNames) + requests]
          /\ tags \in [TagNames -> 0 .. Cardinality(TagNames) + requests]
      BY <2>1, <2>2 DEF NodeDataTypes, Proper, KeysInRoom
    <2> QED BY <2>1, <2>3 DEF NodeDataTypes, HandlerTypes, KeysKnown, NodeDataTypeOK
  <1> QED BY <1>1, <1>2, <1>3, NodeDataStart, NodeDataStep, PTL DEF NodeDataSpec
=============================================================================

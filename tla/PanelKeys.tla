----------------------------- MODULE PanelKeys -----------------------------
(***************************************************************************)
(* The trust set of the Panel: Ensure of internal/panel/pki/manager.go,    *)
(* called by every Panel process that starts on a data directory           *)
(* (cmd/net-probe-panel/main.go), and the six files it keeps there.        *)
(*                                                                         *)
(* A set of keys is a number, drawn by generate; a file holds its part of  *)
(* one set.  A rename is seen at once, but it outlives a power failure     *)
(* only after the directory was synced, by syncDir or by the kernel.       *)
(***************************************************************************)
EXTENDS Naturals, Sequences, FiniteSets

CONSTANTS
    Panels,     \* the Panel processes that may run on the directory
    MaxSet,     \* bound on the sets generated
    KeyFaults   \* what may happen, of the list below

\* kill: a process ends at any point.  write: writing, syncing or renaming a
\* file fails.  sync: syncDir fails.  power: the machine loses its power.
AllKeyFaults == {"kill", "write", "sync", "power"}

ASSUME KeysAssumption == MaxSet \in Nat /\ KeyFaults \subseteq AllKeyFaults

\* The files in the order generate writes them.
Names == <<"ca.key", "ca.crt", "server.key", "server.crt",
           "command-signing.key", "command-signing.pub">>
Parts == 1 .. Len(Names)

VARIABLES
    keyFile,   \* of each file, the set its content is of, 0 without the file
    onDisk,    \* the same, as far as it would outlive a power failure
    drawn,     \* the last set drawn
    panel,     \* the processes
    initLock,  \* who holds .init.lock, {} or a singleton
    served,    \* history: the sets some process has served, as Ensure returned them
    kept       \* history: the sets that were on the disk as a whole

keysVars == <<keyFile, onDisk, drawn, panel, initLock, served, kept>>

-----------------------------------------------------------------------------
\* next: the file generate writes next; seen: whether its target was found
\* missing, and is renamed next.
AtStart == [pc |-> "off", set |-> 0, next |-> 1, seen |-> FALSE]

KeysInit ==
    /\ keyFile = [i \in Parts |-> 0]
    /\ onDisk = keyFile
    /\ drawn = 0
    /\ panel = [p \in Panels |-> AtStart]
    /\ initLock = {}
    /\ served = {}
    /\ kept = {}

At(p, pc) == panel[p].pc = pc

\* The set whose six files f holds, as a set.
WholeSet(f) == {s \in 1 .. MaxSet : \A i \in Parts : f[i] = s}

Present == {i \in Parts : keyFile[i] # 0}

\* The deferred unlock of Ensure; a process that ends gives the flock back too.
Unlock(p) == initLock' = initLock \ {p}

\* log.Fatalf: the process ends; systemd starts another one.
Fatal(p) == panel' = [panel EXCEPT ![p] = AtStart] /\ Unlock(p)

\* main calls Ensure; lockInitialization waits behind.
StartPanel(p) ==
    /\ At(p, "off")
    /\ panel' = [panel EXCEPT ![p].pc = "lock"]
    /\ UNCHANGED <<keyFile, onDisk, drawn, initLock, served, kept>>

\* Mutant: nobody waits for the lock.
LockFreeAlways == TRUE

LockFree == initLock = {}

\* lockInitialization.
Lock(p) ==
    /\ At(p, "lock")
    /\ LockFree
    /\ initLock' = {p}
    /\ panel' = [panel EXCEPT ![p].pc = "count"]
    /\ UNCHANGED <<keyFile, onDisk, drawn, served, kept>>

\* Whether the files are counted as none.
MayGenerate == Present = {}

\* The files are counted: none, and a new set is drawn; all, and they are
\* loaded; some, and Ensure refuses to replace them.
Count(p) ==
    /\ At(p, "count")
    /\ \/ /\ MayGenerate
          /\ drawn < MaxSet
          /\ drawn' = drawn + 1
          /\ panel' = [panel EXCEPT ![p].pc = "generate", ![p].set = drawn']
          /\ UNCHANGED initLock
       \/ /\ Present = Parts
          /\ panel' = [panel EXCEPT ![p].pc = "load"]
          /\ UNCHANGED <<drawn, initLock>>
       \/ /\ ~MayGenerate /\ Present # Parts
          /\ Fatal(p)
          /\ UNCHANGED drawn
    /\ UNCHANGED <<keyFile, onDisk, served, kept>>

\* writeExclusive up to its Lstat: a file that is there is not replaced.
FindMissing(p) ==
    LET i == panel[p].next
    IN  /\ At(p, "generate")
        /\ i \in Parts /\ ~panel[p].seen
        /\ \/ keyFile[i] = 0 /\ panel' = [panel EXCEPT ![p].seen = TRUE] /\ UNCHANGED initLock
           \/ keyFile[i] # 0 /\ Fatal(p)
        /\ UNCHANGED <<keyFile, onDisk, drawn, served, kept>>

\* The rename of writeExclusive; its content was synced before.
Install(p) ==
    LET i == panel[p].next
    IN  /\ At(p, "generate")
        /\ panel[p].seen
        /\ keyFile' = [keyFile EXCEPT ![i] = panel[p].set]
        /\ panel' = [panel EXCEPT ![p].next = i + 1, ![p].seen = FALSE]
        /\ UNCHANGED <<onDisk, drawn, initLock, served, kept>>

WriteFails(p) ==
    /\ "write" \in KeyFaults
    /\ At(p, "generate")
    /\ panel[p].next \in Parts
    /\ Fatal(p)
    /\ UNCHANGED <<keyFile, onDisk, drawn, served, kept>>

SyncDir == onDisk' = keyFile /\ kept' = kept \cup WholeSet(keyFile)

GenerateEnds(p) ==
    /\ At(p, "generate")
    /\ panel[p].next \notin Parts
    /\ \/ SyncDir /\ panel' = [panel EXCEPT ![p].pc = "load"] /\ UNCHANGED initLock
       \/ "sync" \in KeyFaults /\ Fatal(p) /\ UNCHANGED <<onDisk, kept>>
    /\ UNCHANGED <<keyFile, drawn, served>>

\* load: certificate and key of each pair match, and the CA signed the server's
\* certificate; the command key pair is one of its own.
Coherent ==
    /\ keyFile[1] = keyFile[2] /\ keyFile[3] = keyFile[4] /\ keyFile[2] = keyFile[4]
    /\ keyFile[5] = keyFile[6]

\* load and the end of Ensure: the Panel serves, or the process ends.
Load(p) ==
    /\ At(p, "load")
    /\ \/ /\ Present = Parts /\ Coherent
          /\ panel' = [panel EXCEPT ![p] = [AtStart EXCEPT !.pc = "serve", !.set = keyFile[1]]]
          /\ Unlock(p)
          /\ served' = served \cup {keyFile[1]}
       \/ /\ ~(Present = Parts /\ Coherent)
          /\ Fatal(p)
          /\ UNCHANGED served
    /\ UNCHANGED <<keyFile, onDisk, drawn, kept>>

-----------------------------------------------------------------------------
(* Faults *)

KillPanel(p) ==
    /\ "kill" \in KeyFaults
    /\ ~At(p, "off")
    /\ Fatal(p)
    /\ UNCHANGED <<keyFile, onDisk, drawn, served, kept>>

\* The kernel writes the directory back in its own time.
WriteBack ==
    /\ onDisk # keyFile
    /\ SyncDir
    /\ UNCHANGED <<keyFile, drawn, panel, initLock, served>>

\* Of the renames since the last sync any may be lost.
PowerLoss ==
    /\ "power" \in KeyFaults
    /\ keyFile' \in {f \in [Parts -> {0} \cup {keyFile[i] : i \in Parts}] :
                    \A i \in Parts : f[i] \in {keyFile[i], onDisk[i]}}
    /\ onDisk' = keyFile'
    /\ kept' = kept \cup WholeSet(keyFile')
    /\ panel' = [p \in Panels |-> AtStart]
    /\ initLock' = {}
    /\ UNCHANGED <<drawn, served>>

-----------------------------------------------------------------------------
KeysNext ==
    \/ \E p \in Panels :
          \/ StartPanel(p)
          \/ Lock(p)
          \/ Count(p)
          \/ FindMissing(p)
          \/ Install(p)
          \/ WriteFails(p)
          \/ GenerateEnds(p)
          \/ Load(p)
          \/ KillPanel(p)
    \/ WriteBack
    \/ PowerLoss

KeysSpec == KeysInit /\ [][KeysNext]_keysVars

-----------------------------------------------------------------------------
\* Type correctness.
KeysTypeOK ==
    /\ keyFile \in [Parts -> 0 .. MaxSet]
    /\ onDisk \in [Parts -> 0 .. MaxSet]
    /\ drawn \in 0 .. MaxSet
    /\ panel \in [Panels -> [pc : {"off", "lock", "count", "generate", "load", "serve"},
                             set : 0 .. MaxSet, next : 1 .. Len(Names) + 1, seen : BOOLEAN]]
    /\ initLock \subseteq Panels
    /\ served \subseteq 1 .. MaxSet
    /\ kept \subseteq 1 .. MaxSet

\* Ensure "creates the Panel's private PKI once", and the Agents' certificates are
\* good for one CA only: processes that start together serve one set, and a set
\* that was served, and reached the disk, stays whole in the directory, whoever
\* fails or starts again.  (A process that dies after the last rename leaves six
\* files that were never synced, and the next one serves them as they are: those
\* a power failure can still take.)
TrustIsKept ==
    /\ \A p, q \in Panels : At(p, "serve") /\ At(q, "serve") => panel[p].set = panel[q].set
    /\ \A s \in served \cap kept : s \in WholeSet(keyFile)
=============================================================================

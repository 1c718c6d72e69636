-------------------------------- MODULE Backups --------------------------------
(***************************************************************************)
(* The backups of the database (backup.service): every process keeps in    *)
(* memory which backups it believes Cloudinary has, a new one is exported, *)
(* zipped, uploaded and remembered, and then all but the newest that the   *)
(* process remembers are deleted.  Listing the backups replaces what is    *)
(* remembered by what Cloudinary answered some time ago.                   *)
(* Backups are numbered in the order they were uploaded.                   *)
(***************************************************************************)
EXTENDS Naturals, Sequences, FiniteSets

CONSTANTS Processes,   \* the web process and the worker
          Calls,       \* calls of createBackup
          Keep,        \* backups the clean-up keeps (10)
          MaxBackups,  \* backups made
          MaxLists,    \* listings
          MaxFaults    \* deletions by hand and restarts

BackupsAssumption ==
    /\ IsFiniteSet(Processes) /\ Processes # {} /\ IsFiniteSet(Calls)
    /\ {Keep, MaxBackups} \subseteq Nat \ {0}
    /\ {MaxLists, MaxFaults} \subseteq Nat

VARIABLES cloud,     \* what Cloudinary has
          made,      \* how many were uploaded
          byHand,    \* backups that were deleted by hand
          memory,    \* backupsMetadata of each process
          listing,   \* the answer a process is about to take over; {0}: none
          call,
          tangled,   \* an upload was remembered after itself or a later one
          lists, faults

vars == <<cloud, made, byHand, memory, listing, call, tangled, lists, faults>>
-----------------------------------------------------------------------------
Numbers == 1..MaxBackups
NoAnswer == {0}
Idle == [stage |-> "idle", process |-> CHOOSE p \in Processes : TRUE, number |-> 0, old |-> <<>>]

TypeOK ==
    /\ cloud \in SUBSET Numbers /\ byHand \in SUBSET Numbers
    /\ made \in 0..MaxBackups
    /\ memory \in [Processes -> Seq(Numbers)]
    /\ listing \in [Processes -> (SUBSET Numbers) \cup {NoAnswer}]
    /\ call \in [Calls -> [stage : {"idle", "exporting", "uploaded", "cleaning"},
                           process : Processes, number : 0..MaxBackups, old : Seq(Numbers)]]
    /\ tangled \in BOOLEAN
    /\ lists \in 0..MaxLists /\ faults \in 0..MaxFaults

Init ==
    /\ cloud = {} /\ made = 0 /\ byHand = {}
    /\ memory = [p \in Processes |-> <<>>]
    /\ listing = [p \in Processes |-> NoAnswer]
    /\ call = [c \in Calls |-> Idle]
    /\ tangled = FALSE
    /\ lists = 0 /\ faults = 0

\* The order of Cloudinary's answer, and of what a process sorts: newest first.
NewestFirst(S) ==
    CHOOSE s \in [1..Cardinality(S) -> S] : \A i, j \in DOMAIN s : i < j => s[i] > s[j]

Remembered(p) == {memory[p][i] : i \in DOMAIN memory[p]}

\* The elements of q at the places S.
Kept(q, S) ==
    [i \in 1..Cardinality(S) |-> q[CHOOSE j \in S : Cardinality({k \in S : k <= j}) = i]]

Forget(p, n) ==
    [memory EXCEPT ![p] = Kept(memory[p], {i \in DOMAIN memory[p] : memory[p][i] # n})]

Exporting == {c \in Calls : call[c].stage = "exporting"}
-----------------------------------------------------------------------------
CreateBackup(c, p) ==
    /\ call[c].stage = "idle"
    /\ made + Cardinality(Exporting) < MaxBackups
    /\ call' = [call EXCEPT ![c] = [Idle EXCEPT !.stage = "exporting", !.process = p]]
    /\ UNCHANGED <<cloud, made, byHand, memory, listing, tangled, lists, faults>>

\* The collections are exported and zipped; the files are deleted either way.
BackupFails(c) ==
    /\ call[c].stage = "exporting" /\ faults < MaxFaults
    /\ call' = [call EXCEPT ![c] = Idle]
    /\ faults' = faults + 1
    /\ UNCHANGED <<cloud, made, byHand, memory, listing, tangled, lists>>

Upload(c) ==
    /\ call[c].stage = "exporting"
    /\ made' = made + 1
    /\ cloud' = cloud \cup {made + 1}
    /\ call' = [call EXCEPT ![c].stage = "uploaded", ![c].number = made + 1]
    /\ UNCHANGED <<byHand, memory, listing, tangled, lists, faults>>

\* Mutant of Old: one backup too few is kept.
OldButOne(remembered) == SubSeq(remembered, Keep, Len(remembered))

\* slice(10) of what is remembered, by the dates that are remembered: those
\* of the uploads as listed, and for its own the time the upload returned.
Old(remembered) == SubSeq(remembered, Keep + 1, Len(remembered))

Remember(c) ==
    /\ call[c].stage = "uploaded"
    /\ LET p == call[c].process IN
       /\ memory' = [memory EXCEPT ![p] = <<call[c].number>> \o @]
       /\ tangled' = (tangled \/ \E m \in Remembered(p) : m >= call[c].number)
       /\ call' = [call EXCEPT ![c].stage = "cleaning", ![c].old = Old(memory'[p])]
    /\ UNCHANGED <<cloud, made, byHand, listing, lists, faults>>

\* The next one of the old backups, if it is still remembered.
CleanUp(c) ==
    /\ call[c].stage = "cleaning" /\ call[c].old # <<>>
    /\ LET p == call[c].process
           n == Head(call[c].old)
       IN IF n \in Remembered(p)
          THEN cloud' = cloud \ {n} /\ memory' = Forget(p, n)
          ELSE UNCHANGED <<cloud, memory>>
    /\ call' = [call EXCEPT ![c].old = Tail(@)]
    /\ UNCHANGED <<made, byHand, listing, tangled, lists, faults>>

\* Cloudinary refuses: logged, and the backup was a success all the same.
CleanUpFails(c) ==
    /\ call[c].stage = "cleaning" /\ call[c].old # <<>> /\ faults < MaxFaults
    /\ call' = [call EXCEPT ![c] = Idle]
    /\ faults' = faults + 1
    /\ UNCHANGED <<cloud, made, byHand, memory, listing, tangled, lists>>

CleanedUp(c) ==
    /\ call[c].stage = "cleaning" /\ call[c].old = <<>>
    /\ call' = [call EXCEPT ![c] = Idle]
    /\ UNCHANGED <<cloud, made, byHand, memory, listing, tangled, lists, faults>>
-----------------------------------------------------------------------------
AskCloudinary(p) ==
    /\ listing[p] = NoAnswer /\ lists < MaxLists
    /\ listing' = [listing EXCEPT ![p] = cloud]
    /\ lists' = lists + 1
    /\ UNCHANGED <<cloud, made, byHand, memory, call, tangled, faults>>

LoadBackups(p) ==
    /\ listing[p] # NoAnswer
    /\ memory' = [memory EXCEPT ![p] = NewestFirst(listing[p])]
    /\ listing' = [listing EXCEPT ![p] = NoAnswer]
    /\ UNCHANGED <<cloud, made, byHand, call, tangled, lists, faults>>

\* The listing failed: nothing is remembered any more.
LoadFails(p) ==
    /\ listing[p] # NoAnswer /\ faults < MaxFaults
    /\ memory' = [memory EXCEPT ![p] = <<>>]
    /\ listing' = [listing EXCEPT ![p] = NoAnswer]
    /\ faults' = faults + 1
    /\ UNCHANGED <<cloud, made, byHand, call, tangled, lists>>

DeleteBackup(p, n) ==
    /\ faults < MaxFaults /\ n \in Remembered(p)
    /\ cloud' = cloud \ {n}
    /\ byHand' = byHand \cup {n}
    /\ memory' = Forget(p, n)
    /\ faults' = faults + 1
    /\ UNCHANGED <<made, listing, call, tangled, lists>>

\* The process starts again and asks Cloudinary, without waiting for it.
Restart(p) ==
    /\ faults < MaxFaults
    /\ memory' = [memory EXCEPT ![p] = <<>>]
    /\ listing' = [listing EXCEPT ![p] = cloud]
    /\ call' = [c \in Calls |-> IF call[c].process = p THEN Idle ELSE call[c]]
    /\ faults' = faults + 1
    /\ UNCHANGED <<cloud, made, byHand, tangled, lists>>

Next ==
    \/ \E c \in Calls :
         \/ \E p \in Processes : CreateBackup(c, p)
         \/ BackupFails(c) \/ Upload(c) \/ Remember(c)
         \/ CleanUp(c) \/ CleanUpFails(c) \/ CleanedUp(c)
    \/ \E p \in Processes :
         \/ AskCloudinary(p) \/ LoadBackups(p) \/ LoadFails(p) \/ Restart(p)
         \/ \E n \in Numbers : DeleteBackup(p, n)

Spec == Init /\ [][Next]_vars
-----------------------------------------------------------------------------
(* Whatever a process remembers, the clean-up leaves the newest backups    *)
(* that were made, unless somebody deleted one of them by hand, or an      *)
(* upload was remembered when a listing had brought it already (what is    *)
(* remembered twice counts twice) or after one that began later.           *)
NewestAreKept ==
    ~tangled => \A n \in 1..made : n > made - Keep => n \in cloud \cup byHand
-----------------------------------------------------------------------------
(* Nothing is remembered or listed that was not made; every process        *)
(* remembers the newest first; and what a call is about to delete was old  *)
(* when the call found it, and is older now.                               *)
OnlyMade ==
    /\ cloud \subseteq 1..made
    /\ \A p \in Processes :
         /\ Remembered(p) \subseteq 1..made
         /\ listing[p] # NoAnswer => listing[p] \subseteq 1..made
    /\ \A c \in Calls : call[c].stage = "uploaded" => call[c].number \in 1..made

ExportsFit == made + Cardinality(Exporting) <= MaxBackups

NewestComeFirst ==
    ~tangled => \A p \in Processes :
                  \A i, j \in DOMAIN memory[p] : i < j => memory[p][i] > memory[p][j]

OldAreOld ==
    ~tangled => \A c \in Calls : call[c].stage = "cleaning" =>
                  \A i \in DOMAIN call[c].old : call[c].old[i] + Keep <= made

BackupsInv ==
    TypeOK /\ NewestAreKept /\ OnlyMade /\ ExportsFit /\ NewestComeFirst /\ OldAreOld
================================================================================

--------------------------- MODULE CheckpointFile ---------------------------
(***************************************************************************)
(* The checkpoint accumulator (checkpoint.go) and the file writeCheckpoint *)
(* appends to: stage, write, fsync, commit, with the rollback of what did  *)
(* not work out, the poisoning when the rollback fails as well, and the    *)
(* restart from whatever the file then holds.                              *)
(*                                                                         *)
(* The cap on pending tips is CheckpointRetry's.  Reading the file back    *)
(* and inspecting it for a torn tail succeed.                              *)
(***************************************************************************)
EXTENDS JsonlFile

CONSTANTS
  Tips,        (* what AddTip may be given                                 *)
  MaxFaults,   (* bound: failures in a behaviour                           *)
  MaxStops     (* bound: crashes and power losses                          *)

VARIABLES
  cp, cpDisk,    (* the checkpoint file, and what fsync made durable of it *)
  cpStep,        (* how far writeCheckpoint is, "down" when no process runs*)
  before,        (* the file up to preWritePos                             *)
  seq, prevHash, pending,   (* the accumulator                             *)
  staged,        (* the checkpoint being written                           *)
  cpPoisoned,    (* checkpointPoisoned                                     *)
  committed,     (* history: the file's checkpoints at the last Commit     *)
  faults, stops

accVars == <<seq, prevHash, pending>>
cpVars == <<cp, cpDisk, cpStep, before, accVars, staged, cpPoisoned, committed>>
checkpointFileVars == <<cpVars, faults, stops>>

NoCheckpoint == [seq |-> 0, prev |-> ZeroPrev, tips |-> <<>>]

FaultHappens == faults < MaxFaults /\ faults' = faults + 1

-----------------------------------------------------------------------------
CpInit ==
  /\ cp = EmptyFile /\ cpDisk = EmptyFile
  /\ cpStep = "ready"
  /\ before = EmptyFile
  /\ seq = 0 /\ prevHash = ZeroPrev /\ pending = <<>>
  /\ staged = NoCheckpoint
  /\ cpPoisoned = FALSE
  /\ committed = <<>>

(* sealTrace adds no tip once checkpointing is disabled.                   *)
AddedAnyway(tip) == Append(pending, tip)
Added(tip) == IF cpPoisoned THEN pending ELSE Append(pending, tip)

AddTip(tip) ==
  /\ cpStep = "ready"
  /\ pending' = Added(tip)
  /\ UNCHANGED <<cp, cpDisk, cpStep, before, seq, prevHash, staged, cpPoisoned,
                 committed, faults, stops>>

(* Stage leaves the accumulator as it is until Commit.                     *)
Stage ==
  /\ cpStep = "ready"
  /\ ~cpPoisoned
  /\ pending # <<>>
  /\ staged' = [seq |-> seq + 1, prev |-> prevHash, tips |-> pending]
  /\ before' = cp
  /\ cpStep' = "staged"
  /\ UNCHANGED <<cp, cpDisk, accVars, cpPoisoned, committed, faults, stops>>

WriteLine ==
  /\ cpStep = "staged"
  /\ cp' = Written(cp, staged)
  /\ cpStep' = "written"
  /\ UNCHANGED <<cpDisk, before, accVars, staged, cpPoisoned, committed, faults, stops>>

NotPoisoned == UNCHANGED <<cpPoisoned, pending>>
PoisonCheckpoint == cpPoisoned' = TRUE /\ pending' = <<>>

(* rollbackCheckpoint: truncate to preWritePos and fsync that, or else     *)
(* poison.  A failed truncate leaves the file as it is, a failed fsync     *)
(* leaves either state on the disk.                                        *)
RollBack(file, disk) ==
  \/ cp' = before /\ cpDisk' = before /\ UNCHANGED <<cpPoisoned, pending>>
  \/ cp' = before /\ cpDisk' \in {disk, before} /\ PoisonCheckpoint
  \/ cp' = file /\ cpDisk' = disk /\ PoisonCheckpoint

(* The write fails: a write that left nothing is not rolled back.          *)
WriteFails ==
  /\ cpStep = "staged"
  /\ FaultHappens
  /\ \/ UNCHANGED <<cp, cpDisk, cpPoisoned, pending>>
     \/ \E file \in CutShort(cp, staged) : RollBack(file, cpDisk)
  /\ cpStep' = "ready"
  /\ UNCHANGED <<before, seq, prevHash, staged, committed, stops>>

SyncFails ==
  /\ cpStep = "written"
  /\ FaultHappens
  /\ \E disk \in {cpDisk, cp} : RollBack(cp, disk)
  /\ cpStep' = "ready"
  /\ UNCHANGED <<before, seq, prevHash, staged, committed, stops>>

(* The fsync succeeds and Commit follows: e.mu admits nothing in between,  *)
(* and a crash there leaves what a crash after it leaves.                  *)
Advance == seq' = staged.seq /\ prevHash' = Digest(staged)

NotSynced == cpDisk
Synced == cp

Commit ==
  /\ cpStep = "written"
  /\ cpDisk' = Synced
  /\ Advance
  /\ pending' = SubSeq(pending, Len(staged.tips) + 1, Len(pending))
  /\ committed' = Parsed(cp)
  /\ cpStep' = "ready"
  /\ UNCHANGED <<cp, before, staged, cpPoisoned, faults, stops>>

-----------------------------------------------------------------------------
CpStopped ==
  /\ cpStep' = "down"
  /\ stops < MaxStops /\ stops' = stops + 1
  /\ UNCHANGED <<before, seq, prevHash, staged, cpPoisoned, pending, committed, faults>>

(* The process dies, perhaps inside the write; the page cache survives.    *)
CpCrash ==
  /\ cpStep # "down"
  /\ cp' \in {cp} \cup (IF cpStep = "staged" THEN CutShort(cp, staged) ELSE {})
  /\ CpStopped
  /\ UNCHANGED cpDisk

(* The machine dies: what is left is what a disk can be left with.         *)
CpPowerLoss ==
  /\ cpStep # "down"
  /\ \E cache \in {cp} \cup (IF cpStep = "staged" THEN {Written(cp, staged)} ELSE {}) :
       cp' \in Survivors(cpDisk, cache)
  /\ cpDisk' = cp'
  /\ CpStopped

(* Start repairs the tail, which is fsynced when there is something to     *)
(* repair, and resumes from the last line that parses.  The tips the WAL   *)
(* owes are pending again.                                                 *)
LastChecked(f) ==
  LET good == {i \in DOMAIN Content(f) : Content(f)[i] # Junk}
  IN  {Content(f)[i] : i \in {k \in good : \A j \in good : j <= k}}

ResumeFrom(f) ==
  IF LastChecked(f) = {} THEN seq' = 0 /\ prevHash' = ZeroPrev
  ELSE \E line \in LastChecked(f) : seq' = line.seq /\ prevHash' = Digest(line)

CpStart(owed) ==
  /\ cpStep = "down"
  /\ cp' = Repaired(cp)
  /\ cpDisk' = IF cp.tail = <<>> THEN cpDisk ELSE cp'
  /\ ResumeFrom(cp')
  /\ pending' = owed
  /\ cpStep' = "ready"
  /\ cpPoisoned' = FALSE
  /\ before' = EmptyFile /\ staged' = NoCheckpoint
  /\ UNCHANGED <<committed, faults, stops>>

-----------------------------------------------------------------------------
DigestValue == Seq([seq : Nat, tips : Seq(Tips)])
Checkpoint == [seq : Nat, prev : DigestValue, tips : Seq(Tips)]

ASSUME CheckpointAssumption == Junk \notin Checkpoint /\ MaxFaults \in Nat /\ MaxStops \in Nat

(* What every variable holds; and once checkpointing is disabled no tip    *)
(* waits for a checkpoint that cannot come (sealTrace step 5).             *)
CpTypeOK ==
  /\ cp \in File(Checkpoint) /\ cpDisk \in File(Checkpoint) /\ before \in File(Checkpoint)
  /\ cpStep \in {"down", "ready", "staged", "written"}
  /\ seq \in Nat /\ prevHash \in DigestValue /\ pending \in Seq(Tips)
  /\ staged \in Checkpoint
  /\ cpPoisoned \in BOOLEAN
  /\ cpPoisoned => pending = <<>>
  /\ committed \in Seq(Checkpoint)
  /\ faults \in 0 .. MaxFaults /\ stops \in 0 .. MaxStops

(* Numbered from 1 and each linked to the one before it.                   *)
Contiguous(lines) ==
  \A i \in DOMAIN lines :
    /\ lines[i].seq = i
    /\ lines[i].prev = IF i = 1 THEN ZeroPrev ELSE Digest(lines[i - 1])

(* At every moment, whatever failed, crashed or lost power before, the     *)
(* verifier can read the checkpoint file and finds an unbroken chain in    *)
(* it: "the persisted chain stays contiguous" (writeCheckpoint).           *)
CheckpointChainUnbroken == Readable(cp) /\ Contiguous(Parsed(cp))

(* A committed checkpoint stays in the file, in its place: neither a       *)
(* rollback nor a repair nor a power loss takes it out again (#20, #24).   *)
CommittedOnDisk ==
  /\ Len(committed) <= Len(Parsed(cp))
  /\ \A i \in DOMAIN committed : Parsed(cp)[i] = committed[i]
=============================================================================

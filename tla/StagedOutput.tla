---------------------------- MODULE StagedOutput ----------------------------
(***************************************************************************)
(* build_streaming_to_writer and build_streaming_volumes: the archive is   *)
(* staged in an AutoSpool, which starts in memory or in a temporary file   *)
(* and may move from the first to the second, and is then copied to a      *)
(* writer or cut into volume files.                                        *)
(*                                                                         *)
(* Data is counted in units; a unit is as long as a signature header.  The *)
(* value of a unit is the number of the write_all call it came from, or 0  *)
(* for zeros.  Volume files are written one after the other, so `out'      *)
(* holds what was written to all of them and `volumes' their lengths.      *)
(***************************************************************************)
EXTENDS Integers, Sequences

CONSTANTS
  MaxUnits,     \* bound on the length of an archive
  MaxRun,       \* bound on the units of one write_all call
  Options       \* options tried, see Option

(* An absent limit. *)
None == -1

(* SpoolMode (Memory is threshold None, TempFile is 0), the limits on      *)
(* retained output, temporary storage, volumes and open volumes, and where *)
(* the archive goes; sizes is VolumeOptions.                               *)
Option == [target : {"writer", "volumes"}, threshold : Nat \cup {None},
           retained : Nat \cup {None}, temporary : Nat \cup {None},
           maxVolumes : (Nat \ {0}) \cup {None}, maxOpen : Nat \ {0},
           sizes : Seq(Nat \ {0})]

ASSUME OptionAssumption ==
  /\ MaxUnits \in Nat /\ MaxRun \in Nat
  /\ Options \subseteq Option
  /\ \A o \in Options : o.target = "volumes" => o.sizes # <<>>

VARIABLES
  opt,
  cancelled,        \* OperationControl
  (* AutoSpool *)
  inner,            \* "none", "memory" or "file"
  mem, file,        \* contents and position of the Cursor and of the file
  retained,         \* RetainedOutputBudget
  written,          \* TemporaryStorageBudget
  over,             \* limits noticed to be exceeded
  (* the archive writer that fills it *)
  stage,            \* what was written last
  buf,              \* rest of the running write_all call
  stamp,            \* write_all calls so far
  failed,           \* a write failed
  (* the output *)
  pc, out, volumes,
  left,             \* units the open volume still takes
  created, open,    \* VolumeCountBudget and OpenVolumeBudget
  outcome, res,     \* result of the build and copy, and of the call
  (* observation of temporary files *)
  stray, stuck      \* files no one will remove; whether a removal failed

spoolVars == <<inner, mem, file, retained, written, over, stray, stuck>>
fillVars  == <<stage, buf, stamp, failed>>
copyVars  == <<out, volumes, left, created, open>>
vars == <<opt, cancelled, spoolVars, fillVars, copyVars, pc, outcome, res>>

SO == INSTANCE SeekableOutput WITH
        data <- IF inner = "memory" THEN mem.data ELSE file.data,
        pos <- IF inner = "memory" THEN mem.pos ELSE file.pos,
        writing <- pc \in {"check", "roll", "put"}

NoBytes == [data |-> <<>>, pos |-> 0]

(* The contents the spool shows to its reader and writer. *)
Spool == IF inner = "memory" THEN mem ELSE file

Init ==
  /\ opt \in Options
  /\ cancelled = FALSE
  /\ inner = "none" /\ mem = NoBytes /\ file = NoBytes
  /\ retained = 0 /\ written = 0 /\ over = {} /\ stray = 0 /\ stuck = FALSE
  /\ stage = "start" /\ buf = [value |-> 0, left |-> 0] /\ stamp = 0 /\ failed = FALSE
  /\ pc = "new" /\ out = <<>> /\ volumes = <<>> /\ left = 0 /\ created = 0 /\ open = 0
  /\ outcome = "none" /\ res = "none"

(* OperationControl::cancel, or a progress callback that breaks. *)
Cancel ==
  /\ ~cancelled /\ pc # "returned"
  /\ cancelled' = TRUE
  /\ UNCHANGED <<opt, spoolVars, fillVars, copyVars, pc, outcome, res>>

(* AutoSpool::new. *)
NewSpool ==
  /\ pc = "new"
  /\ inner' = IF opt.threshold = 0 THEN "file" ELSE "memory"
  /\ pc' = "build"
  /\ UNCHANGED <<opt, cancelled, mem, file, retained, written, over, stray, stuck,
                 fillVars, copyVars, outcome, res>>

(* create_temp_spool fails before there is a spool to clean up. *)
NewSpoolFails ==
  /\ pc = "new" /\ opt.threshold = 0
  /\ pc' = "returned" /\ res' = "err"
  /\ UNCHANGED <<opt, cancelled, spoolVars, fillVars, copyVars, outcome>>

-----------------------------------------------------------------------------
(***************************************************************************)
(* The archive writer: a blank signature header and packed data, the       *)
(* header (perhaps an encoded one and its descriptor), the signature       *)
(* header.  An archive without data starts behind the gap left for it.     *)
(***************************************************************************)
SeekTo(p) ==
  IF inner = "memory" THEN mem' = [mem EXCEPT !.pos = p] /\ UNCHANGED file
                      ELSE file' = [file EXCEPT !.pos = p] /\ UNCHANGED mem

WriteAll(next, value, n) ==
  /\ stage' = next
  /\ stamp' = stamp + 1
  /\ buf' = [value |-> value, left |-> n]
  /\ pc' = "check"
  /\ UNCHANGED <<opt, cancelled, inner, retained, written, over, stray, stuck, failed,
                 copyVars, outcome, res>>

BeginBlank ==
  /\ pc = "build" /\ stage = "start" /\ ~failed
  /\ SeekTo(0)
  /\ WriteAll("blank", 0, 1)

(* A BufWriter that is dropped after a failure tries to write once more. *)
BeginBody(n) ==
  /\ pc = "build"
  /\ stage = "body" \/ (stage = "blank" /\ ~failed)
  /\ Len(Spool.data) + n <= MaxUnits
  /\ SeekTo(Spool.pos)
  /\ WriteAll(IF failed THEN "dropped" ELSE "body", stamp + 1, n)

BeginHeader(n) ==
  /\ pc = "build" /\ stage \in {"start", "body", "encoded"} /\ ~failed
  /\ Len(Spool.data) + n <= MaxUnits
  /\ SeekTo(IF stage = "start" THEN 1 ELSE Len(Spool.data))
  /\ \E next \in (IF stage = "encoded" THEN {"header"} ELSE {"encoded", "header"}) :
       WriteAll(next, stamp + 1, n)

BeginSignature ==
  /\ pc = "build" /\ stage = "header" /\ ~failed
  /\ SeekTo(0)
  /\ WriteAll("signature", stamp + 1, 1)

(* The last cancellation check of the archive writer; the copy starts from *)
(* the beginning of the spool.                                             *)
Built ==
  /\ pc = "build" /\ stage = "signature" /\ ~failed /\ ~cancelled
  /\ pc' = IF opt.target = "writer" THEN "copy" ELSE "plan"
  /\ SeekTo(0)
  /\ UNCHANGED <<opt, cancelled, inner, retained, written, over, stray, stuck,
                 fillVars, copyVars, outcome, res>>

(* An input, the encoder, a seek or a cancellation check fails, or the     *)
(* error of a write is passed on.                                          *)
BuildFails ==
  /\ pc = "build"
  /\ pc' = "cleanup" /\ outcome' = "err"
  /\ UNCHANGED <<opt, cancelled, spoolVars, fillVars, copyVars, res>>

-----------------------------------------------------------------------------
(***************************************************************************)
(* AutoSpool::write, called with the rest of a write_all.                  *)
(***************************************************************************)
Over(limit, n) == limit # None /\ n > limit

(* The write fails and write_all passes the error on. *)
WriteError ==
  /\ failed' = TRUE
  /\ buf' = [buf EXCEPT !.left = 0]
  /\ pc' = "build"
  /\ UNCHANGED <<opt, cancelled, stage, stamp, copyVars, outcome, res>>

GoOn(next) ==
  /\ pc' = next
  /\ UNCHANGED <<opt, cancelled, fillVars, copyVars, outcome, res>>

(* check_temporary_file_write. *)
CheckTemporary ==
  /\ pc = "check"
  /\ UNCHANGED <<inner, mem, file, retained, written, stray, stuck>>
  /\ IF inner = "file" /\ Over(opt.temporary, written + buf.left)
       THEN over' = over \cup {"temporary"} /\ WriteError
       ELSE UNCHANGED over /\ GoOn("roll")

Projected(n) == SO!Larger(mem.pos + n, Len(mem.data))

(* Faulty variant: the data already in memory is compared. *)
MustRollLate ==
  /\ inner = "memory" /\ opt.threshold # None
  /\ Over(opt.threshold, Len(mem.data)) \/ Over(opt.retained, Len(mem.data))

(* maybe_roll_to_file. *)
MustRoll ==
  /\ inner = "memory" /\ opt.threshold # None
  /\ Over(opt.threshold, Projected(buf.left)) \/ Over(opt.retained, Projected(buf.left))

RollAllowed == ~Over(opt.temporary, written + Len(mem.data) + buf.left)

NoRoll ==
  /\ pc = "roll" /\ ~MustRoll
  /\ GoOn("put")
  /\ UNCHANGED spoolVars

RollRefused ==
  /\ pc = "roll" /\ MustRoll /\ ~RollAllowed
  /\ over' = over \cup {"temporary"}
  /\ WriteError
  /\ UNCHANGED <<inner, mem, file, retained, written, stray, stuck>>

(* The file cannot be created, or not be filled; then it is removed, and   *)
(* an error of the removal ignored.                                        *)
RollFails ==
  /\ pc = "roll" /\ MustRoll /\ RollAllowed
  /\ \/ UNCHANGED <<stray, stuck>>
     \/ stray' = stray + 1 /\ stuck' = TRUE
  /\ WriteError
  /\ UNCHANGED <<inner, mem, file, retained, written, over>>

(* Faulty variant: the position is lost. *)
MigratedToStart == [data |-> mem.data, pos |-> 0]

(* The file a rollover makes of the memory. *)
Migrated == [data |-> mem.data, pos |-> mem.pos]

(* The bytes moved are charged and released; if they could not be charged  *)
(* the new file would be left behind.                                      *)
Roll ==
  /\ pc = "roll" /\ MustRoll /\ RollAllowed
  /\ UNCHANGED stuck
  /\ IF Over(opt.temporary, written + Len(mem.data))
       THEN /\ over' = over \cup {"temporary"} /\ stray' = stray + 1
            /\ WriteError
            /\ UNCHANGED <<inner, mem, file, retained, written>>
       ELSE /\ inner' = "file" /\ mem' = NoBytes /\ file' = Migrated
            /\ written' = written + Len(mem.data)
            /\ retained' = SO!Larger(retained - Len(mem.data), 0)
            /\ GoOn("put")
            /\ UNCHANGED <<over, stray>>

(* write_all goes on until nothing is left. *)
Stored(n) ==
  /\ buf' = [buf EXCEPT !.left = @ - n]
  /\ pc' = IF n < buf.left THEN "check" ELSE "build"
  /\ UNCHANGED <<opt, cancelled, stage, stamp, failed, copyVars, outcome, res>>

StoredAt(spool, n) ==
  [data |-> SO!WriteAt(spool.data, spool.pos, buf.value, n), pos |-> spool.pos + n]

(* check_retained_memory_write and charge_retained_memory_write. *)
Resized == SO!Larger(retained - Len(mem.data), 0) + Projected(buf.left)

PutMemory ==
  /\ pc = "put" /\ inner = "memory"
  /\ UNCHANGED <<inner, file, written, stray, stuck>>
  /\ IF Over(opt.retained, Resized)
       THEN /\ over' = over \cup {"retained"}
            /\ WriteError
            /\ UNCHANGED <<mem, retained>>
       ELSE /\ mem' = StoredAt(mem, buf.left)
            /\ retained' = Resized
            /\ Stored(buf.left)
            /\ UNCHANGED over

(* A file may take less than it is given; what it took is charged. *)
PutFile(n) ==
  /\ pc = "put" /\ inner = "file" /\ n <= buf.left
  /\ file' = StoredAt(file, n)
  /\ IF Over(opt.temporary, written + n)
       THEN over' = over \cup {"temporary"} /\ WriteError /\ UNCHANGED written
       ELSE written' = written + n /\ Stored(n) /\ UNCHANGED over
  /\ UNCHANGED <<inner, mem, retained, stray, stuck>>

(* Faulty variant: every error is taken for an interruption. *)
PutFailsRetries ==
  /\ pc = "put" /\ inner = "file"
  /\ GoOn("check")
  /\ UNCHANGED spoolVars

PutFails ==
  /\ pc = "put" /\ inner = "file"
  /\ WriteError
  /\ UNCHANGED spoolVars

-----------------------------------------------------------------------------
(***************************************************************************)
(* Copying out.                                                            *)
(***************************************************************************)
EndOfSpool == Spool.pos = Len(Spool.data)

(* A monitored read of one unit, written to the output. *)
EmitUnit ==
  /\ ~cancelled /\ ~EndOfSpool
  /\ out' = Append(out, Spool.data[Spool.pos + 1])
  /\ SeekTo(Spool.pos + 1)
  /\ UNCHANGED <<opt, cancelled, inner, retained, written, over, stray, stuck, fillVars,
                 created, outcome, res>>

Succeed ==
  /\ pc' = "cleanup" /\ outcome' = "ok"
  /\ UNCHANGED <<opt, cancelled, spoolVars, fillVars, out, volumes, left, created, res>>

CopyUnit ==
  /\ pc = "copy"
  /\ EmitUnit
  /\ UNCHANGED <<pc, volumes, left, open>>

(* Faulty variant: cancellation is not looked at after the copy. *)
CopyEndsUnchecked ==
  /\ pc = "copy" /\ EndOfSpool
  /\ Succeed
  /\ UNCHANGED open

(* The end of the spool, flush and a last check. *)
CopyEnds ==
  /\ pc = "copy" /\ EndOfSpool /\ ~cancelled
  /\ Succeed
  /\ UNCHANGED open

(* Volume i; the last size is that of all further volumes. *)
VolumeSize(i) == opt.sizes[IF i <= Len(opt.sizes) THEN i ELSE Len(opt.sizes)]

(* `remaining' of required_volume_count when its loop comes to each of the *)
(* given sizes, 0 after one that takes all the rest.                       *)
Remaining(n, rest) ==
  /\ rest[1] = n
  /\ \A i \in 1 .. Len(opt.sizes) - 1 : rest[i + 1] = SO!Larger(rest[i] - opt.sizes[i], 0)

DivCeil(a, b) == (a + b - 1) \div b

(* Faulty variant: a volume filled exactly counts as too small. *)
RequiredVolumeCountStrict(n, rest, count) ==
  LET k == Len(opt.sizes)
      fits(i) == rest[i] < opt.sizes[i]
  IN \/ n = 0 /\ count = 1
     \/ n > 0 /\ count \in 1 .. k /\ fits(count) /\ \A i \in 1 .. count - 1 : ~fits(i)
     \/ /\ n > 0 /\ \A i \in 1 .. k : ~fits(i)
        /\ count = k + DivCeil(rest[k] - opt.sizes[k], opt.sizes[k])

(* The first of the given sizes that takes what is left of n units, or as  *)
(* many further volumes as the rest needs.                                 *)
RequiredVolumeCount(n, rest, count) ==
  LET k == Len(opt.sizes)
      fits(i) == rest[i] <= opt.sizes[i]
  IN \/ n = 0 /\ count = 1
     \/ n > 0 /\ count \in 1 .. k /\ fits(count) /\ \A i \in 1 .. count - 1 : ~fits(i)
     \/ /\ n > 0 /\ \A i \in 1 .. k : ~fits(i)
        /\ count = k + DivCeil(rest[k] - opt.sizes[k], opt.sizes[k])

(* The number of volumes is charged before the first one is written. *)
PlanVolumes ==
  /\ pc = "plan" /\ ~cancelled
  /\ LET n == Len(Spool.data)
     IN \E rest \in [DOMAIN opt.sizes -> 0 .. n] :
          /\ Remaining(n, rest)
          /\ created' \in 1 .. n + 1
          /\ RequiredVolumeCount(n, rest, created')
  /\ ~Over(opt.maxVolumes, created')
  /\ SeekTo(0)
  /\ pc' = "next"
  /\ UNCHANGED <<opt, cancelled, inner, retained, written, over, stray, stuck, fillVars,
                 out, volumes, left, open, outcome, res>>

(* One unit is read ahead to see whether another volume is needed. *)
NextVolume ==
  /\ pc = "next" /\ open < opt.maxOpen
  /\ EmitUnit
  /\ volumes' = Append(volumes, 1)
  /\ left' = VolumeSize(Len(volumes')) - 1
  /\ open' = open + 1
  /\ pc' = "fill"

NoMoreVolumes ==
  /\ pc = "next" /\ EndOfSpool /\ ~cancelled
  /\ Succeed
  /\ UNCHANGED open

FillUnit ==
  /\ pc = "fill" /\ left > 0
  /\ EmitUnit
  /\ volumes' = [volumes EXCEPT ![Len(volumes)] = @ + 1]
  /\ left' = left - 1
  /\ UNCHANGED <<pc, open>>

(* A volume that is full is followed by a look at the rest, one that is    *)
(* not is the last.                                                        *)
CloseVolume ==
  /\ pc = "fill" /\ (left = 0 \/ EndOfSpool) /\ ~cancelled
  /\ open' = open - 1
  /\ IF left > 0
       THEN Succeed
       ELSE /\ pc' = "next"
            /\ UNCHANGED <<opt, cancelled, spoolVars, fillVars, out, volumes, left,
                           created, outcome, res>>

(* A read, a write, a flush, the creation of a volume, a limit on volumes  *)
(* or a cancellation check fails.  A volume may just have been created.    *)
OutputFails ==
  /\ pc \in {"copy", "plan", "next", "fill"}
  /\ pc' = "cleanup" /\ outcome' = "err"
  /\ volumes' \in {volumes} \cup
       (IF pc = "next" /\ ~EndOfSpool THEN {Append(volumes, 0)} ELSE {})
  /\ open' = IF pc = "fill" THEN open - 1 ELSE open
  /\ UNCHANGED <<opt, cancelled, spoolVars, fillVars, out, left, created, res>>

-----------------------------------------------------------------------------
(* Faulty variant: a limit error returns before the file is removed. *)
CleanupAfterLimit ==
  /\ pc = "cleanup"
  /\ IF over # {}
       THEN stray' = stray + (IF inner = "file" THEN 1 ELSE 0) /\ res' = "limit"
       ELSE UNCHANGED stray /\ res' = outcome
  /\ pc' = "returned"
  /\ UNCHANGED <<opt, cancelled, inner, mem, file, retained, written, over, stuck,
                 fillVars, copyVars, outcome>>

(* limit_error and cleanup: a limit comes before the result of the         *)
(* operation, and that before an error of the removal.                     *)
Cleanup ==
  /\ pc = "cleanup"
  /\ \E removed \in (IF inner = "file" THEN BOOLEAN ELSE {TRUE}) :
       /\ stray' = stray + (IF removed THEN 0 ELSE 1)
       /\ stuck' = (stuck \/ ~removed)
       /\ res' = IF over # {} THEN "limit"
                 ELSE IF outcome = "ok" /\ ~removed THEN "err" ELSE outcome
  /\ pc' = "returned"
  /\ UNCHANGED <<opt, cancelled, inner, mem, file, retained, written, over, fillVars,
                 copyVars, outcome>>

Step ==
  \/ NewSpool \/ NewSpoolFails
  \/ BeginBlank \/ (\E n \in 1 .. MaxRun : BeginBody(n) \/ BeginHeader(n))
  \/ BeginSignature \/ Built \/ BuildFails
  \/ CheckTemporary \/ NoRoll \/ RollRefused \/ RollFails \/ Roll
  \/ PutMemory \/ (\E n \in 1 .. MaxRun : PutFile(n)) \/ PutFails
  \/ CopyUnit \/ CopyEnds
  \/ PlanVolumes \/ NextVolume \/ NoMoreVolumes \/ FillUnit \/ CloseVolume
  \/ OutputFails \/ Cleanup

Next == Cancel \/ Step

(* The calling thread keeps running; its inputs are finite. *)
Spec == Init /\ [][Next]_vars /\ WF_vars(Step)
-----------------------------------------------------------------------------
(***************************************************************************)
(* Properties.                                                             *)
(***************************************************************************)
Bytes == [data : Seq(Nat), pos : Nat]

(* Every variable of a staged build keeps the type the code gives it.      *)
TypeOK ==
  /\ opt \in Options /\ cancelled \in BOOLEAN
  /\ inner \in {"none", "memory", "file"}
  /\ mem \in Bytes /\ file \in Bytes
  /\ retained \in Nat /\ written \in Nat
  /\ over \in SUBSET {"retained", "temporary"}
  /\ stage \in {"start", "blank", "body", "dropped", "encoded", "header", "signature"}
  /\ buf \in [value : Nat, left : Nat] /\ stamp \in Nat /\ failed \in BOOLEAN
  /\ pc \in {"new", "build", "check", "roll", "put", "copy", "plan", "next", "fill",
             "cleanup", "returned"}
  /\ out \in Seq(Nat) /\ volumes \in Seq(Nat)
  /\ left \in Nat /\ created \in Nat /\ open \in Nat
  /\ outcome \in {"none", "ok", "err"} /\ res \in {"none", "ok", "err", "limit"}
  /\ stray \in Nat /\ stuck \in BOOLEAN

(* Staging behaves like one seekable file that is copied out from its      *)
(* start: a rollover loses neither data nor position, short writes go on   *)
(* where they stopped, and Ok means that all of it was copied.             *)
ImplementsSeekableOutput == SO!Spec

(* The spool never holds more in memory than its threshold and the limit   *)
(* on retained output allow and accounts for exactly what it holds, never  *)
(* charges more temporary storage than allowed, and a spool that may roll  *)
(* to a file never fails on retained output.                               *)
SpoolLimitsHold ==
  /\ retained = Len(mem.data)
  /\ ~Over(opt.threshold, Len(mem.data)) /\ ~Over(opt.retained, Len(mem.data))
  /\ ~Over(opt.temporary, written)
  /\ "retained" \in over => opt.threshold = None

(* When the call returns no temporary file is left, unless removing one    *)
(* failed; and then the call does not report success.                      *)
NoStrayFiles ==
  pc = "returned" => (stray > 0 => stuck) /\ (res = "ok" => stray = 0)

(* Volumes hold what VolumeOptions says: all but the last are full, none   *)
(* is empty, and there are as many as were charged before the first one    *)
(* was written.  Also when the output fails half way no volume is longer   *)
(* than its size and there are no more than were charged.                  *)
VolumesMatchPlan ==
  opt.target = "volumes" =>
    /\ Len(volumes) <= created /\ ~Over(opt.maxVolumes, created)
    /\ \A i \in DOMAIN volumes :
         /\ volumes[i] <= VolumeSize(i)
         /\ i < Len(volumes) => volumes[i] = VolumeSize(i)
    /\ res = "ok" => Len(volumes) = created /\ volumes[Len(volumes)] > 0

Copying == pc \in {"copy", "plan", "next", "fill"}

(* A copy that cancellation meets does not succeed any more.               *)
CancelledCopyFails == [](Copying /\ cancelled => [](res # "ok"))

(* The call returns.                                                       *)
Returns == <>(pc = "returned")
-----------------------------------------------------------------------------
(***************************************************************************)
(* The inductive invariant behind the limits, the temporary files and the  *)
(* refinement of SeekableOutput.                                           *)
(***************************************************************************)

(* Memory is given up when the spool becomes a file; what check and roll   *)
(* found out still holds when the data is put; a failed write is never     *)
(* forgotten, and only one can leave a file behind.                        *)
SpoolInv ==
  /\ inner # "memory" => mem = NoBytes
  /\ pc = "new" => inner = "none" /\ file = NoBytes
  /\ pc \notin {"new", "returned"} => inner # "none"
  /\ pc \in {"check", "roll", "put"} => buf.left > 0
  /\ pc \in {"roll", "put"} /\ inner = "file" => ~Over(opt.temporary, written + buf.left)
  /\ pc = "put" => ~MustRoll
  /\ stray > 0 => stuck /\ (failed \/ pc = "returned")
  /\ Copying \/ outcome = "ok" => ~failed

(* The output is what the spool holds up to its position.                  *)
CopyInv ==
  /\ pc # "returned" => res = "none"
  /\ pc \in {"new", "build", "check", "roll", "put"} => out = <<>> /\ outcome = "none"
  /\ Copying => /\ outcome = "none"
                /\ Len(out) = Spool.pos /\ Len(out) <= Len(Spool.data)
                /\ \A i \in 1 .. Len(out) : out[i] = Spool.data[i]
  /\ pc = "plan" => out = <<>>
  /\ pc \in {"plan", "next", "fill"} => opt.target = "volumes"
  /\ pc = "fill" => open > 0 /\ volumes # <<>>
  /\ pc = "cleanup" => outcome # "none" /\ (outcome = "ok" => out = Spool.data)

StagedInv == TypeOK /\ SpoolInv /\ CopyInv /\ SpoolLimitsHold /\ NoStrayFiles

(* An archive that is copied out is not empty. *)
DataInv ==
  /\ pc = "new" => stage = "start"
  /\ pc = "build" /\ stage # "start" /\ ~failed => Len(Spool.data) > 0
  /\ Copying => Len(Spool.data) > 0

(* x units are left for volume i and the later ones: as many as the plan   *)
(* had left for it.                                                        *)
Ahead(rest, i, x) ==
  LET k == Len(opt.sizes)
  IN /\ i <= created + 1 /\ (x = 0 <=> i = created + 1)
     /\ i <= created /\ i <= k => x = rest[i]
     /\ i <= created /\ i > k => /\ (created - i) * opt.sizes[k] < x
                                /\ x <= (created - i + 1) * opt.sizes[k]

(* The plan made for n units leaves x of them for volume i. *)
OnPlan(n, i, x) ==
  \E rest \in [DOMAIN opt.sizes -> 0 .. n] :
    Remaining(n, rest) /\ RequiredVolumeCount(n, rest, created) /\ Ahead(rest, i, x)

(* The volume being filled or the next one, and what is left for it. *)
CurrentVolume == IF pc = "fill" THEN Len(volumes) ELSE Len(volumes) + 1
UnitsAhead == Len(Spool.data) - Len(out) + (IF pc = "fill" THEN volumes[Len(volumes)] ELSE 0)

(* What the volumes written so far leave is what the plan has left.        *)
VolumeInv ==
  opt.target = "volumes" =>
    /\ pc # "copy"
    /\ pc \in {"new", "build", "check", "roll", "put", "plan"} => volumes = <<>> /\ created = 0
    /\ pc \in {"next", "fill"} =>
         /\ created > 0
         /\ OnPlan(Len(Spool.data), CurrentVolume, UnitsAhead)
    /\ pc = "fill" => /\ volumes[Len(volumes)] > 0
                      /\ left = VolumeSize(Len(volumes)) - volumes[Len(volumes)]
    /\ pc = "next" => \A i \in DOMAIN volumes : volumes[i] = VolumeSize(i)
    /\ outcome = "ok" => /\ volumes # <<>> /\ Len(volumes) = created
                         /\ volumes[Len(volumes)] > 0
    /\ res = "ok" => outcome = "ok"
=============================================================================

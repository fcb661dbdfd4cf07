------------------------- MODULE StagedOutputProofs -------------------------
(***************************************************************************)
(* Proofs about StagedOutput, for archives and writes of every length and  *)
(* every set of options: the limits hold, temporary files are removed,     *)
(* volumes follow their plan, a cancelled copy fails, and the spool with   *)
(* its copy implements SeekableOutput.                                     *)
(***************************************************************************)
EXTENDS StagedOutput, TLAPS

(* A write stores its run and leaves a sequence. *)
LEMMA WriteAtSeq ==
  ASSUME NEW d \in Seq(Nat), NEW p \in Nat, NEW u \in Nat, NEW n \in Nat
  PROVE  /\ SO!WriteAt(d, p, u, n) \in Seq(Nat)
         /\ Len(SO!WriteAt(d, p, u, n)) = SO!Larger(Len(d), p + n)
         /\ n > 0 => SO!WriteAt(d, p, u, n)[p + 1] = u
<1> DEFINE m == SO!Larger(Len(d), p + n)
           e(i) == IF p < i /\ i <= p + n THEN u ELSE IF i <= Len(d) THEN d[i] ELSE 0
<1>1. m \in Nat /\ m >= p + n
  BY DEF SO!Larger
<1>2. \A i \in 1 .. m : e(i) \in Nat
  OBVIOUS
<1>3. SO!WriteAt(d, p, u, n) = [i \in 1 .. m |-> e(i)]
  BY DEF SO!WriteAt
<1> HIDE DEF m, e
<1>4. SO!WriteAt(d, p, u, n) \in Seq(Nat) /\ Len(SO!WriteAt(d, p, u, n)) = m
  BY <1>1, <1>2, <1>3
<1>5. n > 0 => SO!WriteAt(d, p, u, n)[p + 1] = u
  BY <1>1, <1>3 DEF e
<1> QED
  BY <1>4, <1>5 DEF m

(* What SeekTo leaves of the two buffers. *)
LEMMA SeekType ==
  ASSUME NEW p \in Nat, mem \in Bytes, file \in Bytes, SeekTo(p)
  PROVE  /\ mem' \in Bytes /\ file' \in Bytes
         /\ mem'.data = mem.data /\ file'.data = file.data
         /\ inner # "memory" => mem' = mem
         /\ inner = "memory" => file' = file /\ mem'.pos = p
         /\ inner # "memory" => file'.pos = p
BY DEF SeekTo, Bytes

(* A volume has room for a unit. *)
LEMMA VolumeSizeType ==
  ASSUME NEW i \in Nat \ {0}, opt \in Options, opt.target = "volumes"
  PROVE  VolumeSize(i) \in Nat \ {0}
<1>1. opt.sizes \in Seq(Nat \ {0}) /\ opt.sizes # <<>>
  BY OptionAssumption DEF Option
<1>2. Len(opt.sizes) \in Nat \ {0}
  BY <1>1
<1>3. \A j \in 1 .. Len(opt.sizes) : opt.sizes[j] \in Nat \ {0}
  BY <1>1
<1> QED
  BY <1>2, <1>3 DEF VolumeSize, SO!Larger

(* The limits of the options are numbers. *)
LEMMA OptionTypes ==
  ASSUME opt \in Options
  PROVE  /\ opt.threshold \in Int /\ opt.retained \in Int /\ opt.temporary \in Int
         /\ opt.maxVolumes \in Int
BY OptionAssumption DEF Option, None

(* The initial states satisfy the invariant. *)
LEMMA InitStaged == Init => StagedInv
<1> SUFFICES ASSUME Init PROVE StagedInv
  OBVIOUS
<1>1. TypeOK
  <2>1. <<>> \in Seq(Nat) /\ NoBytes \in Bytes
    BY DEF NoBytes, Bytes
  <2>2. buf \in [value : Nat, left : Nat]
    BY DEF Init
  <2>3. over \in SUBSET {"retained", "temporary"}
    BY DEF Init
  <2> QED
    BY <2>1, <2>2, <2>3 DEF Init, TypeOK
<1>2. SpoolInv /\ CopyInv /\ NoStrayFiles
  BY DEF Init, SpoolInv, CopyInv, NoStrayFiles, Copying, NoBytes
<1>3. SpoolLimitsHold
  BY OptionAssumption DEF Init, SpoolLimitsHold, Over, NoBytes, Option, None
<1> QED
  BY <1>1, <1>2, <1>3 DEF StagedInv

(* Sequences with the same elements are equal. *)
LEMMA SameSeq ==
  ASSUME NEW a \in Seq(Nat), NEW b \in Seq(Nat), Len(a) = Len(b),
         \A i \in 1 .. Len(a) : a[i] = b[i]
  PROVE  a = b
OBVIOUS

-----------------------------------------------------------------------------
(***************************************************************************)
(* The calls of the archive writer.                                        *)
(***************************************************************************)

(* Cancellation changes nothing the invariant is about. *)
LEMMA CancelStaged == StagedInv /\ Cancel => StagedInv'
BY DEF StagedInv, TypeOK, SpoolInv, CopyInv, SpoolLimitsHold, NoStrayFiles, Copying, Spool,
       Over, MustRoll, Projected, NoBytes, Cancel, fillVars, copyVars, spoolVars

(* A new spool is empty. *)
LEMMA NewSpoolStaged ==
  ASSUME StagedInv, NewSpool
  PROVE  StagedInv'
<1> USE DEF StagedInv, fillVars, copyVars, spoolVars
<1>1. TypeOK'
  BY OptionTypes DEF TypeOK, Bytes, NoBytes, Spool, NewSpool
<1>2. SpoolInv'
  BY OptionTypes, <1>1 DEF TypeOK, Bytes, NoBytes, SpoolInv, Copying, Spool, NewSpool
<1>3. CopyInv'
  BY OptionTypes, <1>1 DEF TypeOK, NoBytes, SpoolInv, CopyInv, Copying, Spool, NewSpool
<1>4. SpoolLimitsHold'
  BY OptionTypes, <1>1 DEF TypeOK, NoBytes, SpoolInv, SpoolLimitsHold, Over, NewSpool
<1>5. NoStrayFiles'
  BY OptionTypes, <1>1 DEF TypeOK, SpoolInv, CopyInv, NoStrayFiles, Copying, NewSpool
<1> QED
  BY <1>1, <1>2, <1>3, <1>4, <1>5

(* Without a spool there is nothing to remove. *)
LEMMA NewSpoolFailsStaged ==
  ASSUME StagedInv, NewSpoolFails
  PROVE  StagedInv'
<1> USE DEF StagedInv, fillVars, copyVars, spoolVars
<1>1. TypeOK'
  BY OptionTypes DEF TypeOK, Bytes, NoBytes, Spool, NewSpoolFails
<1>2. SpoolInv'
  BY OptionTypes, <1>1 DEF TypeOK, Bytes, NoBytes, SpoolInv, Copying, Spool, NewSpoolFails
<1>3. CopyInv'
  BY OptionTypes, <1>1 DEF TypeOK, NoBytes, SpoolInv, CopyInv, Copying, Spool, NewSpoolFails
<1>4. SpoolLimitsHold'
  BY OptionTypes, <1>1 DEF TypeOK, NoBytes, SpoolInv, SpoolLimitsHold, Over, NewSpoolFails
<1>5. NoStrayFiles'
  BY OptionTypes, <1>1 DEF TypeOK, SpoolInv, CopyInv, NoStrayFiles, Copying, NewSpoolFails
<1> QED
  BY <1>1, <1>2, <1>3, <1>4, <1>5

(* Seeking and starting a write keep what the spool holds. *)
LEMMA BeginBlankStaged ==
  ASSUME StagedInv, BeginBlank
  PROVE  StagedInv'
<1> USE DEF StagedInv, fillVars, copyVars, spoolVars
<1>0. 0 \in Nat /\ SeekTo(0)
  BY DEF BeginBlank, TypeOK, Bytes, Spool
<1>s. /\ mem' \in Bytes /\ file' \in Bytes
      /\ mem'.data = mem.data /\ file'.data = file.data
      /\ inner # "memory" => mem' = mem
      /\ inner = "memory" => file' = file /\ mem'.pos = 0
      /\ inner # "memory" => file'.pos = 0
  BY <1>0, SeekType DEF TypeOK
<1>b. buf' \in [value : Nat, left : Nat]
  BY DEF TypeOK, WriteAll, BeginBlank
<1>1. TypeOK'
  BY OptionTypes, <1>s, <1>b DEF TypeOK, Bytes, NoBytes, Spool, BeginBlank, WriteAll
<1>2. SpoolInv'
  BY OptionTypes, <1>s, <1>b, <1>1 DEF TypeOK, Bytes, NoBytes, SpoolInv, Copying, Spool, BeginBlank, WriteAll
<1>3. CopyInv'
  BY OptionTypes, <1>s, <1>b, <1>1 DEF TypeOK, NoBytes, SpoolInv, CopyInv, Copying, Spool, BeginBlank, WriteAll
<1>4. SpoolLimitsHold'
  BY OptionTypes, <1>s, <1>b, <1>1 DEF TypeOK, NoBytes, SpoolInv, SpoolLimitsHold, Over, BeginBlank, WriteAll
<1>5. NoStrayFiles'
  BY OptionTypes, <1>s, <1>b, <1>1 DEF TypeOK, SpoolInv, CopyInv, NoStrayFiles, Copying, BeginBlank, WriteAll
<1> QED
  BY <1>1, <1>2, <1>3, <1>4, <1>5

(* The next write of packed data goes to the position. *)
LEMMA BeginBodyStaged ==
  ASSUME NEW n \in 1 .. MaxRun, StagedInv, BeginBody(n)
  PROVE  StagedInv'
<1> USE DEF StagedInv, fillVars, copyVars, spoolVars
<1>0. Spool.pos \in Nat /\ SeekTo(Spool.pos)
  BY DEF BeginBody, TypeOK, Bytes, Spool
<1>s. /\ mem' \in Bytes /\ file' \in Bytes
      /\ mem'.data = mem.data /\ file'.data = file.data
      /\ inner # "memory" => mem' = mem
      /\ inner = "memory" => file' = file /\ mem'.pos = Spool.pos
      /\ inner # "memory" => file'.pos = Spool.pos
  BY <1>0, SeekType DEF TypeOK
<1>b. buf' \in [value : Nat, left : Nat]
  BY DEF TypeOK, WriteAll, BeginBody
<1>1. TypeOK'
  BY OptionTypes, <1>s, <1>b DEF TypeOK, Bytes, NoBytes, Spool, BeginBody, WriteAll
<1>2. SpoolInv'
  BY OptionTypes, <1>s, <1>b, <1>1 DEF TypeOK, Bytes, NoBytes, SpoolInv, Copying, Spool, BeginBody, WriteAll
<1>3. CopyInv'
  BY OptionTypes, <1>s, <1>b, <1>1 DEF TypeOK, NoBytes, SpoolInv, CopyInv, Copying, Spool, BeginBody, WriteAll
<1>4. SpoolLimitsHold'
  BY OptionTypes, <1>s, <1>b, <1>1 DEF TypeOK, NoBytes, SpoolInv, SpoolLimitsHold, Over, BeginBody, WriteAll
<1>5. NoStrayFiles'
  BY OptionTypes, <1>s, <1>b, <1>1 DEF TypeOK, SpoolInv, CopyInv, NoStrayFiles, Copying, BeginBody, WriteAll
<1> QED
  BY <1>1, <1>2, <1>3, <1>4, <1>5

(* The header goes behind the data. *)
LEMMA BeginHeaderStaged ==
  ASSUME NEW n \in 1 .. MaxRun, StagedInv, BeginHeader(n)
  PROVE  StagedInv'
<1> USE DEF StagedInv, fillVars, copyVars, spoolVars
<1>0. (IF stage = "start" THEN 1 ELSE Len(Spool.data)) \in Nat /\ SeekTo((IF stage = "start" THEN 1 ELSE Len(Spool.data)))
  BY DEF BeginHeader, TypeOK, Bytes, Spool
<1>s. /\ mem' \in Bytes /\ file' \in Bytes
      /\ mem'.data = mem.data /\ file'.data = file.data
      /\ inner # "memory" => mem' = mem
      /\ inner = "memory" => file' = file /\ mem'.pos = (IF stage = "start" THEN 1 ELSE Len(Spool.data))
      /\ inner # "memory" => file'.pos = (IF stage = "start" THEN 1 ELSE Len(Spool.data))
  BY <1>0, SeekType DEF TypeOK
<1>b. buf' \in [value : Nat, left : Nat]
  BY DEF TypeOK, WriteAll, BeginHeader
<1>1. TypeOK'
  BY OptionTypes, <1>s, <1>b DEF TypeOK, Bytes, NoBytes, Spool, BeginHeader, WriteAll
<1>2. SpoolInv'
  BY OptionTypes, <1>s, <1>b, <1>1 DEF TypeOK, Bytes, NoBytes, SpoolInv, Copying, Spool, BeginHeader, WriteAll
<1>3. CopyInv'
  BY OptionTypes, <1>s, <1>b, <1>1 DEF TypeOK, NoBytes, SpoolInv, CopyInv, Copying, Spool, BeginHeader, WriteAll
<1>4. SpoolLimitsHold'
  BY OptionTypes, <1>s, <1>b, <1>1 DEF TypeOK, NoBytes, SpoolInv, SpoolLimitsHold, Over, BeginHeader, WriteAll
<1>5. NoStrayFiles'
  BY OptionTypes, <1>s, <1>b, <1>1 DEF TypeOK, SpoolInv, CopyInv, NoStrayFiles, Copying, BeginHeader, WriteAll
<1> QED
  BY <1>1, <1>2, <1>3, <1>4, <1>5

(* The signature header goes to the start. *)
LEMMA BeginSignatureStaged ==
  ASSUME StagedInv, BeginSignature
  PROVE  StagedInv'
<1> USE DEF StagedInv, fillVars, copyVars, spoolVars
<1>0. 0 \in Nat /\ SeekTo(0)
  BY DEF BeginSignature, TypeOK, Bytes, Spool
<1>s. /\ mem' \in Bytes /\ file' \in Bytes
      /\ mem'.data = mem.data /\ file'.data = file.data
      /\ inner # "memory" => mem' = mem
      /\ inner = "memory" => file' = file /\ mem'.pos = 0
      /\ inner # "memory" => file'.pos = 0
  BY <1>0, SeekType DEF TypeOK
<1>b. buf' \in [value : Nat, left : Nat]
  BY DEF TypeOK, WriteAll, BeginSignature
<1>1. TypeOK'
  BY OptionTypes, <1>s, <1>b DEF TypeOK, Bytes, NoBytes, Spool, BeginSignature, WriteAll
<1>2. SpoolInv'
  BY OptionTypes, <1>s, <1>b, <1>1 DEF TypeOK, Bytes, NoBytes, SpoolInv, Copying, Spool, BeginSignature, WriteAll
<1>3. CopyInv'
  BY OptionTypes, <1>s, <1>b, <1>1 DEF TypeOK, NoBytes, SpoolInv, CopyInv, Copying, Spool, BeginSignature, WriteAll
<1>4. SpoolLimitsHold'
  BY OptionTypes, <1>s, <1>b, <1>1 DEF TypeOK, NoBytes, SpoolInv, SpoolLimitsHold, Over, BeginSignature, WriteAll
<1>5. NoStrayFiles'
  BY OptionTypes, <1>s, <1>b, <1>1 DEF TypeOK, SpoolInv, CopyInv, NoStrayFiles, Copying, BeginSignature, WriteAll
<1> QED
  BY <1>1, <1>2, <1>3, <1>4, <1>5

(* A failed build goes on to the cleanup. *)
LEMMA BuildFailsStaged ==
  ASSUME StagedInv, BuildFails
  PROVE  StagedInv'
<1> USE DEF StagedInv, fillVars, copyVars, spoolVars
<1>1. TypeOK'
  BY OptionTypes DEF TypeOK, Bytes, NoBytes, Spool, BuildFails
<1>2. SpoolInv'
  BY OptionTypes, <1>1 DEF TypeOK, Bytes, NoBytes, SpoolInv, Copying, Spool, BuildFails
<1>3. CopyInv'
  BY OptionTypes, <1>1 DEF TypeOK, NoBytes, SpoolInv, CopyInv, Copying, Spool, BuildFails
<1>4. SpoolLimitsHold'
  BY OptionTypes, <1>1 DEF TypeOK, NoBytes, SpoolInv, SpoolLimitsHold, Over, BuildFails
<1>5. NoStrayFiles'
  BY OptionTypes, <1>1 DEF TypeOK, SpoolInv, CopyInv, NoStrayFiles, Copying, BuildFails
<1> QED
  BY <1>1, <1>2, <1>3, <1>4, <1>5

(* The copy starts at the beginning of the spool with nothing copied. *)
LEMMA BuiltStaged ==
  ASSUME StagedInv, Built
  PROVE  StagedInv'
<1> USE DEF StagedInv, fillVars, copyVars, spoolVars
<1>0. 0 \in Nat /\ SeekTo(0)
  BY DEF Built, TypeOK, Bytes, Spool
<1>s. /\ mem' \in Bytes /\ file' \in Bytes
      /\ mem'.data = mem.data /\ file'.data = file.data
      /\ inner # "memory" => mem' = mem
      /\ inner = "memory" => file' = file /\ mem'.pos = 0
      /\ inner # "memory" => file'.pos = 0
  BY <1>0, SeekType DEF TypeOK
<1>1. TypeOK'
  BY <1>s DEF TypeOK, Built
<1>2. SpoolInv'
  BY <1>s, <1>1 DEF TypeOK, NoBytes, SpoolInv, Copying, Built
<1>3. CopyInv'
  <2>1. out' = <<>> /\ outcome' = "none" /\ res' = "none" /\ pc' \in {"copy", "plan"}
    BY DEF Built, CopyInv
  <2>2. Spool'.pos = 0 /\ Spool'.data \in Seq(Nat)
    BY DEF Built, TypeOK, Spool, SeekTo, Bytes
  <2>3. pc' = "plan" => opt'.target = "volumes"
    BY OptionAssumption DEF Built, TypeOK, Option
  <2> QED
    BY <2>1, <2>2, <2>3 DEF CopyInv, Copying
<1>4. SpoolLimitsHold'
  BY <1>s DEF SpoolLimitsHold, Over, Built
<1>5. NoStrayFiles'
  BY DEF NoStrayFiles, Built
<1> QED
  BY <1>1, <1>2, <1>3, <1>4, <1>5

-----------------------------------------------------------------------------
(***************************************************************************)
(* AutoSpool::write.                                                       *)
(***************************************************************************)

(* A failed write leaves the accounts as they were and is remembered. *)
LEMMA WriteErrorStaged ==
  ASSUME StagedInv, WriteError, pc \in {"check", "roll", "put"},
         UNCHANGED <<inner, mem, retained, written>>, file' \in Bytes,
         over' \in SUBSET {"retained", "temporary"},
         "retained" \in over' => opt.threshold = None,
         stray' \in Nat, stuck' \in BOOLEAN, stray' > 0 => stuck'
  PROVE  StagedInv'
<1> USE DEF StagedInv, copyVars
<1>1. pc' = "build" /\ outcome' = "none" /\ failed' \in BOOLEAN
  BY DEF WriteError, CopyInv
<1>2. failed'
  BY DEF WriteError
<1>3. TypeOK'
  <2>1. buf' \in [value : Nat, left : Nat]
    BY DEF TypeOK, WriteError
  <2>2. UNCHANGED <<opt, cancelled, stage, stamp, copyVars, res>>
    BY DEF WriteError
  <2> QED
    BY <1>1, <2>1, <2>2 DEF TypeOK
<1>4. SpoolInv'
  <2>1. inner' # "memory" => mem' = NoBytes'
    BY DEF SpoolInv, NoBytes
  <2>2. inner' # "none"
    BY DEF SpoolInv
  <2>3. ~Copying'
    BY <1>1 DEF Copying
  <2> QED
    BY <1>1, <1>2, <2>1, <2>2, <2>3 DEF SpoolInv
<1>5. CopyInv'
  BY <1>1 DEF WriteError, CopyInv, Copying
<1>6. SpoolLimitsHold'
  BY DEF WriteError, SpoolLimitsHold, Over
<1>7. NoStrayFiles'
  BY <1>1 DEF NoStrayFiles
<1> QED
  BY <1>3, <1>4, <1>5, <1>6, <1>7

(* What the invariant says of the limits while a write is running. *)
LEMMA StrayInv == StagedInv => (stray > 0 => stuck) /\ ("retained" \in over => opt.threshold = None)
BY DEF StagedInv, SpoolInv, SpoolLimitsHold

(* check_temporary_file_write refuses, or its finding is kept. *)
LEMMA CheckTemporaryStaged ==
  ASSUME StagedInv, CheckTemporary
  PROVE  StagedInv'
<1>0. pc = "check" /\ UNCHANGED <<inner, mem, file, retained, written, stray, stuck>>
  BY DEF CheckTemporary
<1>1. CASE over' = over \cup {"temporary"} /\ WriteError
  BY <1>0, <1>1, StrayInv, WriteErrorStaged DEF StagedInv, TypeOK
<1>2. CASE /\ ~(inner = "file" /\ Over(opt.temporary, written + buf.left))
           /\ UNCHANGED over /\ GoOn("roll")
  <2> USE DEF StagedInv, fillVars, copyVars
  <2>1. TypeOK'
    BY <1>0, <1>2 DEF TypeOK, GoOn
  <2>2. SpoolInv'
    BY <1>0, <1>2 DEF SpoolInv, GoOn, Over, Copying, NoBytes
  <2>3. CopyInv'
    BY <1>0, <1>2 DEF GoOn, CopyInv, Copying
  <2>4. SpoolLimitsHold'
    BY <1>0, <1>2 DEF SpoolLimitsHold, GoOn, Over
  <2>5. NoStrayFiles'
    BY <1>2 DEF GoOn, NoStrayFiles
  <2> QED
    BY <2>1, <2>2, <2>3, <2>4, <2>5
<1> QED
  BY <1>1, <1>2 DEF CheckTemporary

(* Without a rollover the data still fits where it is. *)
LEMMA NoRollStaged ==
  ASSUME StagedInv, NoRoll
  PROVE  StagedInv'
<1> USE DEF StagedInv, fillVars, copyVars, spoolVars
<1>1. TypeOK'
  BY DEF TypeOK, NoRoll, GoOn
<1>2. SpoolInv'
  BY DEF SpoolInv, NoRoll, GoOn, MustRoll, Projected, Over, Copying, NoBytes
<1>3. CopyInv'
  BY DEF CopyInv, NoRoll, GoOn, Copying
<1>4. SpoolLimitsHold'
  BY DEF SpoolLimitsHold, NoRoll, GoOn, Over
<1>5. NoStrayFiles'
  BY DEF NoStrayFiles, NoRoll, GoOn
<1> QED
  BY <1>1, <1>2, <1>3, <1>4, <1>5

(* A rollover that the limit refuses. *)
LEMMA RollRefusedStaged ==
  ASSUME StagedInv, RollRefused
  PROVE  StagedInv'
BY StrayInv, WriteErrorStaged DEF RollRefused, StagedInv, TypeOK

(* A rollover that fails leaves a file behind only if it cannot remove it. *)
LEMMA RollFailsStaged ==
  ASSUME StagedInv, RollFails
  PROVE  StagedInv'
<1>1. stray \in Nat /\ stuck \in BOOLEAN /\ (stray > 0 => stuck)
  BY StrayInv DEF StagedInv, TypeOK
<1>2. stray' \in Nat /\ stuck' \in BOOLEAN /\ (stray' > 0 => stuck')
  <2>1. CASE UNCHANGED <<stray, stuck>>
    BY <1>1, <2>1
  <2>2. CASE stray' = stray + 1 /\ stuck' = TRUE
    <3>1. stray' \in Nat
      BY <1>1, <2>2
    <3>2. stuck' \in BOOLEAN /\ stuck'
      BY <2>2
    <3> QED
      BY <3>1, <3>2
  <2> QED
    BY <2>1, <2>2 DEF RollFails
<1> QED
  BY <1>2, StrayInv, WriteErrorStaged DEF RollFails, StagedInv, TypeOK

(* Moving to a file: the space was checked together with the write that    *)
(* follows, so the charge succeeds and no file is left behind.             *)
LEMMA RollStaged ==
  ASSUME StagedInv, Roll
  PROVE  StagedInv'
<1> USE DEF StagedInv
<1>0. /\ mem.data \in Seq(Nat) /\ mem.pos \in Nat /\ Len(mem.data) \in Nat
      /\ written \in Nat /\ retained = Len(mem.data) /\ buf.left \in Nat /\ buf.left > 0
      /\ opt.temporary \in Int
  BY OptionTypes DEF TypeOK, Bytes, SpoolInv, SpoolLimitsHold, Roll
<1>1. ~Over(opt.temporary, written + Len(mem.data))
  BY <1>0 DEF Roll, RollAllowed, Over
<1>2. ~Over(opt.temporary, written + Len(mem.data) + buf.left)
  BY DEF Roll, RollAllowed
<1>3. /\ inner' = "file" /\ mem' = NoBytes /\ file' = Migrated /\ pc' = "put"
      /\ written' = written + Len(mem.data)
      /\ retained' = SO!Larger(retained - Len(mem.data), 0)
      /\ UNCHANGED <<over, stray, stuck, opt, cancelled, stage, buf, stamp, failed, out,
                     volumes, left, created, open, outcome, res>>
  BY <1>1 DEF Roll, GoOn, fillVars, copyVars
<1>4. retained' = 0
  BY <1>0, <1>3 DEF SO!Larger
<1>5. NoBytes \in Bytes /\ Len(NoBytes.data) = 0 /\ file' \in Bytes
  BY <1>0, <1>3 DEF NoBytes, Bytes, Migrated
<1>6. TypeOK'
  BY <1>0, <1>3, <1>4, <1>5 DEF TypeOK
<1>7. SpoolInv'
  BY <1>0, <1>2, <1>3 DEF SpoolInv, Roll, MustRoll, Over, Copying, NoBytes
<1>8. CopyInv'
  BY <1>3 DEF CopyInv, Roll, Copying
<1>9. SpoolLimitsHold'
  <2>1. retained' = Len(mem'.data) /\ Len(mem'.data) = 0
    BY <1>3, <1>4, <1>5
  <2>2. ~Over(opt'.threshold, 0) /\ ~Over(opt'.retained, 0)
    BY <1>3, OptionAssumption DEF TypeOK, Option, Over, None
  <2> QED
    BY <1>1, <1>3, <2>1, <2>2 DEF SpoolLimitsHold, Over
<1>10. NoStrayFiles'
  BY <1>3 DEF NoStrayFiles
<1> QED
  BY <1>6, <1>7, <1>8, <1>9, <1>10

(* A write to memory keeps to the threshold, because it did not roll, and  *)
(* to the limit on retained output.                                        *)
LEMMA PutMemoryStaged ==
  ASSUME StagedInv, PutMemory
  PROVE  StagedInv'
<1> USE DEF StagedInv
<1>r. retained = Len(mem.data)
  BY DEF SpoolLimitsHold
<1>0. /\ mem.data \in Seq(Nat) /\ mem.pos \in Nat
      /\ buf.left \in Nat /\ buf.value \in Nat
  BY DEF TypeOK, Bytes
<1>1. Projected(buf.left) \in Nat
  BY <1>0 DEF Projected, SO!Larger
<1>2. Resized = Projected(buf.left)
  BY <1>0, <1>1, <1>r DEF Resized, SO!Larger
<1>3. opt.threshold # None
        => ~Over(opt.threshold, Projected(buf.left)) /\ ~Over(opt.retained, Projected(buf.left))
  BY DEF SpoolInv, MustRoll, PutMemory
<1>4. CASE Over(opt.retained, Resized)
  <2>1. opt.threshold = None
    BY <1>2, <1>3, <1>4
  <2>2. /\ over' = over \cup {"retained"} /\ WriteError
        /\ UNCHANGED <<inner, mem, file, retained, written, stray, stuck>>
    BY <1>4 DEF PutMemory
  <2> QED
    BY <2>1, <2>2, StrayInv, WriteErrorStaged DEF PutMemory, TypeOK
<1>5. CASE ~Over(opt.retained, Resized)
  <2>0. /\ mem' = StoredAt(mem, buf.left) /\ retained' = Resized /\ inner = "memory"
        /\ buf' = [buf EXCEPT !.left = @ - buf.left] /\ pc' = "build"
        /\ UNCHANGED <<inner, file, written, stray, stuck, over, opt, cancelled, stage, stamp,
                       failed, out, volumes, left, created, open, outcome, res>>
    BY <1>0, <1>5 DEF PutMemory, Stored, copyVars
  <2>1. mem' \in Bytes /\ Len(mem'.data) = Projected(buf.left)
    <3>1. /\ SO!WriteAt(mem.data, mem.pos, buf.value, buf.left) \in Seq(Nat)
          /\ Len(SO!WriteAt(mem.data, mem.pos, buf.value, buf.left))
               = SO!Larger(Len(mem.data), mem.pos + buf.left)
      BY <1>0, WriteAtSeq
    <3>2. SO!Larger(Len(mem.data), mem.pos + buf.left) = Projected(buf.left)
      BY <1>0 DEF Projected, SO!Larger
    <3>3. mem' = [data |-> SO!WriteAt(mem.data, mem.pos, buf.value, buf.left),
                  pos |-> mem.pos + buf.left]
      BY <2>0 DEF StoredAt
    <3>4. mem.pos + buf.left \in Nat
      BY <1>0
    <3> QED
      BY <3>1, <3>2, <3>3, <3>4 DEF Bytes
  <2>2. buf' \in [value : Nat, left : Nat]
    <3>1. buf.left - buf.left \in Nat
      BY <1>0
    <3> QED
      BY <2>0, <3>1 DEF TypeOK
  <2>3. TypeOK'
    BY <1>1, <1>2, <2>0, <2>1, <2>2 DEF TypeOK
  <2>4. SpoolInv'
    BY <2>0 DEF SpoolInv, PutMemory, Copying
  <2>5. CopyInv'
    BY <2>0 DEF CopyInv, PutMemory, Copying
  <2>6. SpoolLimitsHold'
    <3>1. ~Over(opt.threshold, Projected(buf.left))
      BY <1>3 DEF Over
    <3> QED
      BY <1>2, <1>5, <2>0, <2>1, <3>1 DEF SpoolLimitsHold, Over
  <2>7. NoStrayFiles'
    BY <2>0 DEF NoStrayFiles
  <2> QED
    BY <2>3, <2>4, <2>5, <2>6, <2>7
<1> QED
  BY <1>4, <1>5

(* A write to the file was checked with everything still to be written, so *)
(* the charge for a part of it succeeds.                                   *)
LEMMA PutFileStaged ==
  ASSUME NEW n \in 1 .. MaxRun, StagedInv, PutFile(n)
  PROVE  StagedInv'
<1> USE DEF StagedInv
<1>0. /\ file.data \in Seq(Nat) /\ file.pos \in Nat /\ written \in Nat /\ n \in Nat /\ n > 0
      /\ buf.left \in Nat /\ n <= buf.left /\ buf.value \in Nat /\ opt.temporary \in Int
  BY OptionTypes DEF TypeOK, Bytes, PutFile
<1>1. ~Over(opt.temporary, written + buf.left)
  BY DEF SpoolInv, PutFile
<1>2. ~Over(opt.temporary, written + n)
  BY <1>0, <1>1 DEF Over
<1>3. /\ file' = StoredAt(file, n) /\ written' = written + n /\ inner = "file"
      /\ buf' = [buf EXCEPT !.left = @ - n]
      /\ pc' = IF n < buf.left THEN "check" ELSE "build"
      /\ UNCHANGED <<inner, mem, retained, stray, stuck, over, opt, cancelled, stage, stamp,
                     failed, out, volumes, left, created, open, outcome, res>>
  BY <1>2 DEF PutFile, Stored, copyVars
<1>4. file' \in Bytes
  <2>1. SO!WriteAt(file.data, file.pos, buf.value, n) \in Seq(Nat)
    BY <1>0, WriteAtSeq
  <2>2. file' = [data |-> SO!WriteAt(file.data, file.pos, buf.value, n), pos |-> file.pos + n]
    BY <1>3 DEF StoredAt
  <2>3. file.pos + n \in Nat
    BY <1>0
  <2> QED
    BY <2>1, <2>2, <2>3 DEF Bytes
<1>5. buf' \in [value : Nat, left : Nat] /\ (pc' = "check" => buf'.left > 0)
  <2>1. buf.left - n \in Nat /\ (n < buf.left => buf.left - n > 0)
    BY <1>0
  <2>2. buf' = [value |-> buf.value, left |-> buf.left - n]
    BY <1>3 DEF TypeOK
  <2> QED
    BY <1>0, <1>3, <2>1, <2>2
<1>6. TypeOK'
  <2>1. written' \in Nat /\ pc' \in {"check", "build"}
    BY <1>0, <1>3
  <2> QED
    BY <1>3, <1>4, <1>5, <2>1 DEF TypeOK
<1>7. SpoolInv'
  BY <1>3, <1>5 DEF SpoolInv, PutFile, Copying, NoBytes
<1>8. CopyInv'
  BY <1>3 DEF CopyInv, PutFile, Copying
<1>9. SpoolLimitsHold'
  BY <1>2, <1>3 DEF SpoolLimitsHold, Over
<1>10. NoStrayFiles'
  BY <1>3 DEF NoStrayFiles
<1> QED
  BY <1>6, <1>7, <1>8, <1>9, <1>10

(* A write the file system refuses. *)
LEMMA PutFailsStaged ==
  ASSUME StagedInv, PutFails
  PROVE  StagedInv'
BY StrayInv, WriteErrorStaged DEF PutFails, spoolVars, StagedInv, TypeOK

-----------------------------------------------------------------------------
(***************************************************************************)
(* Copying out.                                                            *)
(***************************************************************************)

(* Copying a unit extends the output by what the spool holds at its        *)
(* position.                                                               *)
LEMMA EmitFacts ==
  ASSUME StagedInv, EmitUnit, pc \in {"copy", "next", "fill"}
  PROVE  /\ mem' \in Bytes /\ file' \in Bytes
         /\ mem'.data = mem.data /\ (inner # "memory" => mem' = mem)
         /\ out' \in Seq(Nat) /\ Len(out') = Spool'.pos /\ Len(out') <= Len(Spool'.data)
         /\ \A i \in 1 .. Len(out') : out'[i] = Spool'.data[i]
         /\ Spool'.data = Spool.data
         /\ UNCHANGED <<opt, cancelled, inner, retained, written, over, stray, stuck, stage,
                        buf, stamp, failed, created, outcome, res>>
<1> USE DEF StagedInv
<1>0. UNCHANGED <<opt, cancelled, inner, retained, written, over, stray, stuck, stage,
                  buf, stamp, failed, created, outcome, res>>
  BY DEF EmitUnit, fillVars
<1>1. /\ Spool.data \in Seq(Nat) /\ Spool.pos \in Nat /\ out \in Seq(Nat)
  BY DEF TypeOK, Bytes, Spool
<1>2. /\ Len(out) = Spool.pos /\ Len(out) <= Len(Spool.data)
      /\ \A i \in 1 .. Len(out) : out[i] = Spool.data[i]
  BY DEF CopyInv, Copying
<1>3. Spool.pos + 1 \in Nat /\ Spool.pos + 1 <= Len(Spool.data)
  BY <1>1, <1>2 DEF EmitUnit, EndOfSpool
<1>4. /\ mem' \in Bytes /\ file' \in Bytes
      /\ mem'.data = mem.data /\ file'.data = file.data
      /\ inner # "memory" => mem' = mem
      /\ inner = "memory" => file' = file /\ mem'.pos = Spool.pos + 1
      /\ inner # "memory" => file'.pos = Spool.pos + 1
  BY <1>3, SeekType DEF TypeOK, EmitUnit
<1>5. Spool'.data = Spool.data /\ Spool'.pos = Spool.pos + 1
  BY <1>0, <1>4 DEF Spool
<1>6. out' = Append(out, Spool.data[Spool.pos + 1])
  BY DEF EmitUnit
<1>7. Spool.data[Spool.pos + 1] \in Nat
  BY <1>1, <1>3
<1>8. /\ out' \in Seq(Nat) /\ Len(out') = Spool.pos + 1
      /\ \A i \in 1 .. Len(out') : out'[i] = Spool.data[i]
  BY <1>1, <1>2, <1>6, <1>7
<1> QED
  BY <1>0, <1>3, <1>4, <1>5, <1>8

(* A copied unit, given what else the action does to volumes. *)
LEMMA EmitStaged ==
  ASSUME StagedInv, EmitUnit, pc \in {"copy", "next", "fill"}, pc' \in {"copy", "fill"},
         pc' = "fill" => pc \in {"next", "fill"} /\ open' > 0 /\ volumes' # <<>>,
         volumes' \in Seq(Nat), left' \in Nat, open' \in Nat
  PROVE  StagedInv'
<1> USE EmitFacts DEF StagedInv
<1>1. TypeOK'
  <2>1. /\ mem' \in Bytes /\ file' \in Bytes /\ out' \in Seq(Nat)
        /\ UNCHANGED <<opt, cancelled, inner, retained, written, over, stray, stuck, stage,
                       buf, stamp, failed, created, outcome, res>>
    OBVIOUS
  <2> HIDE EmitFacts
  <2> QED
    BY <2>1 DEF TypeOK
<1>2. SpoolInv'
  BY DEF SpoolInv, Copying, NoBytes
<1>3. CopyInv'
  BY DEF CopyInv, Copying
<1>4. SpoolLimitsHold'
  BY DEF SpoolLimitsHold, Over
<1>5. NoStrayFiles'
  BY DEF NoStrayFiles
<1> QED
  BY <1>1, <1>2, <1>3, <1>4, <1>5

(* Copying to a writer. *)
LEMMA CopyUnitStaged ==
  ASSUME StagedInv, CopyUnit
  PROVE  StagedInv'
<1>1. volumes' \in Seq(Nat) /\ left' \in Nat /\ open' \in Nat
  BY DEF CopyUnit, StagedInv, TypeOK
<1> QED
  BY <1>1, EmitStaged DEF CopyUnit

(* Opening a volume. *)
LEMMA NextVolumeStaged ==
  ASSUME StagedInv, NextVolume
  PROVE  StagedInv'
<1> USE DEF StagedInv
<1>1. volumes' \in Seq(Nat) /\ Len(volumes') \in Nat \ {0} /\ volumes' # <<>>
  BY DEF NextVolume, TypeOK
<1>2. left' \in Nat
  <2>1. opt.target = "volumes" /\ opt' = opt /\ opt \in Options
    BY DEF NextVolume, EmitUnit, CopyInv, TypeOK
  <2>2. VolumeSize(Len(volumes')) \in Nat \ {0}
    BY <1>1, <2>1, VolumeSizeType
  <2> QED
    BY <2>2 DEF NextVolume
<1>3. open' \in Nat /\ open' > 0
  BY DEF NextVolume, TypeOK
<1> QED
  BY <1>1, <1>2, <1>3, EmitStaged DEF NextVolume

(* Filling a volume. *)
LEMMA FillUnitStaged ==
  ASSUME StagedInv, FillUnit
  PROVE  StagedInv'
<1> USE DEF StagedInv
<1>1. volumes' \in Seq(Nat) /\ volumes' # <<>>
  <2>1. volumes \in Seq(Nat) /\ volumes # <<>>
    BY DEF FillUnit, CopyInv, TypeOK
  <2>2. Len(volumes) \in 1 .. Len(volumes) /\ volumes[Len(volumes)] + 1 \in Nat
    BY <2>1
  <2>3. volumes' = [volumes EXCEPT ![Len(volumes)] = @ + 1]
    BY DEF FillUnit
  <2> QED
    BY <2>1, <2>2, <2>3
<1>2. left' \in Nat /\ open' \in Nat /\ open' > 0
  BY DEF FillUnit, TypeOK, CopyInv
<1> QED
  BY <1>1, <1>2, EmitStaged DEF FillUnit

(* At the end of the spool all of it was copied. *)
LEMMA EndIsWhole ==
  ASSUME StagedInv, Copying, EndOfSpool
  PROVE  out = Spool.data
<1>1. Spool.data \in Seq(Nat) /\ out \in Seq(Nat)
  BY DEF StagedInv, TypeOK, Bytes, Spool
<1>2. Len(out) = Len(Spool.data) /\ \A i \in 1 .. Len(out) : out[i] = Spool.data[i]
  BY DEF StagedInv, CopyInv, EndOfSpool
<1> QED
  BY <1>1, <1>2, SameSeq

(* Success is noted when all was copied. *)
LEMMA SucceedStaged ==
  ASSUME StagedInv, Succeed, Copying, EndOfSpool, open' \in Nat
  PROVE  StagedInv'
<1> USE DEF StagedInv, fillVars, spoolVars
<1>1. TypeOK'
  BY DEF TypeOK, Succeed
<1>2. SpoolInv'
  BY DEF SpoolInv, Copying, NoBytes, Succeed
<1>3. CopyInv'
  BY EndIsWhole DEF CopyInv, Copying, Spool, Succeed
<1>4. SpoolLimitsHold'
  BY DEF SpoolLimitsHold, Over, Succeed
<1>5. NoStrayFiles'
  BY DEF NoStrayFiles, Succeed
<1> QED
  BY <1>1, <1>2, <1>3, <1>4, <1>5

(* The end of a copy to a writer. *)
LEMMA CopyEndsStaged == ASSUME StagedInv, CopyEnds PROVE StagedInv'
BY SucceedStaged DEF CopyEnds, Copying, StagedInv, TypeOK

(* No unit is left for another volume. *)
LEMMA NoMoreVolumesStaged == ASSUME StagedInv, NoMoreVolumes PROVE StagedInv'
BY SucceedStaged DEF NoMoreVolumes, Copying, StagedInv, TypeOK

(* A full volume is followed by another look, one that is not full ends    *)
(* the output because the spool is at its end.                             *)
LEMMA CloseVolumeStaged ==
  ASSUME StagedInv, CloseVolume
  PROVE  StagedInv'
<1>0. open' \in Nat /\ Copying /\ pc = "fill" /\ left \in Nat
  BY DEF CloseVolume, StagedInv, CopyInv, TypeOK, Copying
<1>1. CASE left > 0 /\ Succeed
  BY <1>0, <1>1, SucceedStaged DEF CloseVolume
<1>2. CASE /\ pc' = "next"
           /\ UNCHANGED <<opt, cancelled, spoolVars, fillVars, out, volumes, left,
                          created, outcome, res>>
  <2> USE DEF StagedInv, fillVars, spoolVars
  <2>1. TypeOK'
    BY <1>0, <1>2 DEF TypeOK
  <2>2. SpoolInv'
    BY <1>0, <1>2 DEF SpoolInv, Copying, NoBytes
  <2>3. CopyInv'
    BY <1>0, <1>2 DEF CopyInv, Copying, Spool
  <2>4. SpoolLimitsHold'
    BY <1>2 DEF SpoolLimitsHold, Over
  <2>5. NoStrayFiles'
    BY <1>2 DEF NoStrayFiles
  <2> QED
    BY <2>1, <2>2, <2>3, <2>4, <2>5
<1> QED
  BY <1>0, <1>1, <1>2 DEF CloseVolume

(* Counting the volumes writes nothing. *)
LEMMA PlanVolumesStaged ==
  ASSUME StagedInv, PlanVolumes
  PROVE  StagedInv'
<1> USE DEF StagedInv, fillVars
<1>0. 0 \in Nat /\ SeekTo(0)
  BY DEF PlanVolumes, TypeOK, Bytes, Spool
<1>s. /\ mem' \in Bytes /\ file' \in Bytes
      /\ mem'.data = mem.data /\ file'.data = file.data
      /\ inner # "memory" => mem' = mem
      /\ inner = "memory" => file' = file /\ mem'.pos = 0
      /\ inner # "memory" => file'.pos = 0
  BY <1>0, SeekType DEF TypeOK
<1>1. TypeOK'
  BY <1>s DEF TypeOK, PlanVolumes
<1>2. SpoolInv'
  BY <1>s DEF SpoolInv, Copying, NoBytes, PlanVolumes
<1>3. CopyInv'
  <2>1. out' = <<>> /\ outcome' = "none" /\ res' = "none" /\ pc' = "next"
    BY DEF PlanVolumes, CopyInv, Copying
  <2>2. Spool'.pos = 0 /\ Spool'.data \in Seq(Nat)
    BY DEF PlanVolumes, TypeOK, Spool, SeekTo, Bytes
  <2>3. opt'.target = "volumes"
    BY DEF PlanVolumes, CopyInv
  <2> QED
    BY <2>1, <2>2, <2>3 DEF CopyInv, Copying
<1>4. SpoolLimitsHold'
  BY <1>s DEF SpoolLimitsHold, Over, PlanVolumes
<1>5. NoStrayFiles'
  BY DEF NoStrayFiles, PlanVolumes
<1> QED
  BY <1>1, <1>2, <1>3, <1>4, <1>5

(* A failed output goes on to the cleanup. *)
LEMMA OutputFailsStaged ==
  ASSUME StagedInv, OutputFails
  PROVE  StagedInv'
<1> USE DEF StagedInv, fillVars, spoolVars
<1>0. /\ pc' = "cleanup" /\ outcome' = "err"
      /\ UNCHANGED <<opt, cancelled, spoolVars, fillVars, out, left, created, res>>
  BY DEF OutputFails
<1>1. TypeOK'
  <2>1. volumes' \in Seq(Nat)
    <3>1. volumes \in Seq(Nat) /\ Append(volumes, 0) \in Seq(Nat)
      BY DEF TypeOK
    <3>2. volumes' = volumes \/ volumes' = Append(volumes, 0)
      BY DEF OutputFails
    <3> QED
      BY <3>1, <3>2
  <2>2. open' \in Nat
    BY DEF OutputFails, TypeOK, CopyInv
  <2> QED
    BY <1>0, <2>1, <2>2 DEF TypeOK
<1>2. SpoolInv'
  BY <1>0 DEF SpoolInv, Copying, NoBytes, OutputFails
<1>3. CopyInv'
  BY <1>0 DEF CopyInv, Copying, OutputFails
<1>4. SpoolLimitsHold'
  BY <1>0 DEF SpoolLimitsHold, Over
<1>5. NoStrayFiles'
  BY <1>0 DEF NoStrayFiles
<1> QED
  BY <1>1, <1>2, <1>3, <1>4, <1>5

(* The cleanup removes the file or reports that it could not. *)
LEMMA CleanupStaged ==
  ASSUME StagedInv, Cleanup
  PROVE  StagedInv'
<1> USE DEF StagedInv, fillVars, copyVars
<1>0. PICK removed \in BOOLEAN :
        /\ stray' = stray + (IF removed THEN 0 ELSE 1)
        /\ stuck' = (stuck \/ ~removed)
        /\ res' = IF over # {} THEN "limit"
                  ELSE IF outcome = "ok" /\ ~removed THEN "err" ELSE outcome
  BY DEF Cleanup
<1>1. /\ pc = "cleanup" /\ pc' = "returned"
      /\ UNCHANGED <<opt, cancelled, inner, mem, file, retained, written, over, stage, buf,
                     stamp, failed, out, volumes, left, created, open, outcome>>
  BY DEF Cleanup
<1>2. /\ stray \in Nat /\ stuck \in BOOLEAN /\ failed \in BOOLEAN
      /\ outcome \in {"ok", "err"} /\ (stray > 0 => stuck /\ failed)
      /\ (outcome = "ok" => ~failed)
  BY <1>1 DEF TypeOK, CopyInv, SpoolInv
<1>3. stray' \in Nat /\ stuck' \in BOOLEAN /\ (stray' > 0 => stuck')
  <2>1. CASE removed
    <3>1. stray' = stray /\ (stuck' <=> stuck)
      BY <1>0, <1>2, <2>1
    <3>2. stuck' \in BOOLEAN
      BY <1>0
    <3> QED
      BY <1>2, <3>1, <3>2
  <2>2. CASE ~removed
    <3>1. stray' = stray + 1
      BY <1>0, <2>2
    <3>2. stuck' \in BOOLEAN /\ stuck'
      BY <1>0, <2>2
    <3> QED
      BY <1>2, <3>1, <3>2
  <2> QED
    BY <2>1, <2>2
<1>4. res' \in {"ok", "err", "limit"} /\ (res' = "ok" => stray' = 0)
  <2>1. CASE removed
    BY <1>0, <1>2, <2>1
  <2>2. CASE ~removed
    BY <1>0, <1>2, <2>2
  <2> QED
    BY <2>1, <2>2
<1>5. TypeOK'
  BY <1>1, <1>3, <1>4 DEF TypeOK
<1>6. SpoolInv'
  BY <1>1, <1>2, <1>3 DEF SpoolInv, Copying, NoBytes
<1>7. CopyInv'
  BY <1>1 DEF CopyInv, Copying
<1>8. SpoolLimitsHold'
  BY <1>1 DEF SpoolLimitsHold, Over
<1>9. NoStrayFiles'
  BY <1>1, <1>3, <1>4 DEF NoStrayFiles
<1> QED
  BY <1>5, <1>6, <1>7, <1>8, <1>9

-----------------------------------------------------------------------------
(***************************************************************************)
(* Theorems.                                                               *)
(***************************************************************************)

(* Every step preserves the invariant. *)
LEMMA NextStaged == StagedInv /\ [Next]_vars => StagedInv'
<1> SUFFICES ASSUME StagedInv, [Next]_vars PROVE StagedInv'
  OBVIOUS
<1>1. CASE UNCHANGED vars
  BY <1>1 DEF vars, spoolVars, fillVars, copyVars, StagedInv, TypeOK, SpoolInv, CopyInv,
              SpoolLimitsHold, NoStrayFiles, Copying, Spool, Over, MustRoll, Projected, NoBytes
<1> QED
  BY <1>1, CancelStaged, NewSpoolStaged, NewSpoolFailsStaged, BeginBlankStaged,
     BeginBodyStaged, BeginHeaderStaged, BeginSignatureStaged, BuiltStaged, BuildFailsStaged,
     CheckTemporaryStaged, NoRollStaged, RollRefusedStaged, RollFailsStaged, RollStaged,
     PutMemoryStaged, PutFileStaged, PutFailsStaged, CopyUnitStaged, CopyEndsStaged,
     PlanVolumesStaged, NextVolumeStaged, NoMoreVolumesStaged, FillUnitStaged,
     CloseVolumeStaged, OutputFailsStaged, CleanupStaged
  DEF Next, Step

(* The inductive invariant of a staged build holds throughout. *)
THEOREM StagedInvariance == Spec => []StagedInv
BY InitStaged, NextStaged, PTL DEF Spec

(* AutoSpool keeps to its threshold and limits for every sequence of       *)
(* writes, however they are cut short.                                     *)
THEOREM SpoolKeepsLimits == Spec => []SpoolLimitsHold
<1>1. StagedInv => SpoolLimitsHold
  BY DEF StagedInv
<1> QED
  BY StagedInvariance, <1>1, PTL

(* Temporary files are removed on every way out of the call.               *)
THEOREM FilesAreRemoved == Spec => []NoStrayFiles
<1>1. StagedInv => NoStrayFiles
  BY DEF StagedInv
<1> QED
  BY StagedInvariance, <1>1, PTL

-----------------------------------------------------------------------------
(***************************************************************************)
(* Volumes.                                                                *)
(***************************************************************************)

(* Products with one factor less. *)
LEMMA OneLess ==
  ASSUME NEW a \in Int, NEW s \in Int
  PROVE  (a - 1) * s = a * s - s
OBVIOUS

(* A product with a positive factor. *)
LEMMA TimesPositive ==
  ASSUME NEW a \in Nat, NEW s \in Nat \ {0}
  PROVE  a * s \in Nat /\ (a > 0 => a * s >= s)
OBVIOUS

(* Taking one block of s from more than c and at most c + 1 of them. *)
LEMMA LateStep ==
  ASSUME NEW c \in Nat, NEW s \in Nat \ {0}, NEW x \in Nat, c * s < x, x <= (c + 1) * s
  PROVE  /\ c = 0 => x <= s
         /\ c > 0 => x > s /\ (c - 1) * s < x - s /\ x - s <= c * s
OBVIOUS

(* As many blocks of s as r needs: one less would not do. *)
LEMMA DivCeilBounds ==
  ASSUME NEW r \in Nat \ {0}, NEW s \in Nat \ {0}
  PROVE  /\ DivCeil(r, s) \in Nat \ {0}
         /\ (DivCeil(r, s) - 1) * s < r /\ r <= DivCeil(r, s) * s
<1> DEFINE q == (r + s - 1) \div s
           m == (r + s - 1) % s
<1>1. q \in Int /\ m \in 0 .. s - 1 /\ r + s - 1 = q * s + m
  OBVIOUS
<1> HIDE DEF q, m
<1> QED
  BY <1>1 DEF q, DivCeil

(* The sizes of the volumes are numbers, one of them for every index up to *)
(* the number of sizes, the last one for every other.                      *)
LEMMA SizesTypes ==
  ASSUME opt \in Options, opt.target = "volumes"
  PROVE  /\ opt.sizes \in Seq(Nat \ {0}) /\ Len(opt.sizes) \in Nat \ {0}
         /\ DOMAIN opt.sizes = 1 .. Len(opt.sizes)
         /\ \A j \in 1 .. Len(opt.sizes) : opt.sizes[j] \in Nat \ {0}
<1>1. opt.sizes \in Seq(Nat \ {0}) /\ opt.sizes # <<>>
  BY OptionAssumption DEF Option
<1> QED
  BY <1>1

(* The plan in figures: with k sizes, a volume before the last planned one *)
(* is too small for the rest; among the sizes given the last planned one   *)
(* is not, and behind them as many follow as the rest needs.               *)
LEMMA PlanFigures ==
  ASSUME opt \in Options, opt.target = "volumes", created \in Nat, NEW n \in Nat \ {0},
         NEW rest \in [DOMAIN opt.sizes -> 0 .. n],
         Remaining(n, rest), RequiredVolumeCount(n, rest, created),
         NEW k \in Nat, k = Len(opt.sizes)
  PROVE  /\ created > 0
         /\ \A i \in 1 .. k : rest[i] \in Nat
         /\ \A i \in 1 .. k : i < created => rest[i] > opt.sizes[i]
         /\ created <= k => rest[created] <= opt.sizes[created]
         /\ \A i \in 1 .. k - 1 : i < created => rest[i + 1] = rest[i] - opt.sizes[i]
         /\ created > k => LET r == rest[k] - opt.sizes[k]
                               s == opt.sizes[k]
                           IN (created - k - 1) * s < r /\ r <= (created - k) * s
<1>1. /\ k > 0 /\ \A i \in 1 .. k : rest[i] \in Nat /\ opt.sizes[i] \in Nat \ {0}
  BY SizesTypes
<1>2. \A i \in 1 .. k - 1 : rest[i] > opt.sizes[i] => rest[i + 1] = rest[i] - opt.sizes[i]
  <2> TAKE i \in 1 .. k - 1
  <2>1. rest[i] \in Nat /\ opt.sizes[i] \in Nat
    BY <1>1
  <2>2. rest[i + 1] = SO!Larger(rest[i] - opt.sizes[i], 0)
    BY DEF Remaining
  <2> QED
    BY <2>1, <2>2 DEF SO!Larger
<1>3. CASE created \in 1 .. k /\ rest[created] <= opt.sizes[created]
           /\ \A i \in 1 .. created - 1 : ~(rest[i] <= opt.sizes[i])
  <2>1. \A i \in 1 .. k : i < created => rest[i] > opt.sizes[i]
    <3> SUFFICES ASSUME NEW i \in 1 .. k, i < created PROVE rest[i] > opt.sizes[i]
      OBVIOUS
    <3>1. i \in 1 .. created - 1 /\ rest[i] \in Nat /\ opt.sizes[i] \in Nat
      BY <1>1
    <3> QED
      BY <1>3, <3>1
  <2>2. ~(created > k)
    BY <1>3
  <2> QED
    BY <1>1, <1>2, <1>3, <2>1, <2>2
<1>4. CASE /\ \A i \in 1 .. k : ~(rest[i] <= opt.sizes[i])
           /\ created = k + DivCeil(rest[k] - opt.sizes[k], opt.sizes[k])
  <2> DEFINE r == rest[k] - opt.sizes[k]
             s == opt.sizes[k]
  <2>1. r \in Nat \ {0} /\ s \in Nat \ {0}
    BY <1>1, <1>4
  <2>2. \A i \in 1 .. k : rest[i] > opt.sizes[i]
    BY <1>1, <1>4
  <2> HIDE DEF r, s
  <2>3. PICK c \in Nat \ {0} : c = DivCeil(r, s) /\ (c - 1) * s < r /\ r <= c * s
    BY <2>1, DivCeilBounds
  <2>4. created = k + c
    BY <1>4, <2>3 DEF r, s
  <2>5. created > k /\ created - k = c
    BY <2>4
  <2>6. (created - k - 1) * s < r /\ r <= (created - k) * s
    BY <2>3, <2>5
  <2> QED
    BY <1>1, <1>2, <2>2, <2>5, <2>6 DEF r, s
<1> QED
  BY <1>3, <1>4 DEF RequiredVolumeCount

(* Behind the sizes given all volumes are alike. *)
LEMMA AheadLate ==
  ASSUME NEW rest, NEW i \in Nat, NEW x \in Nat \ {0}, created \in Nat, i <= created,
         NEW k \in Nat, k = Len(opt.sizes), i > k, NEW s \in Nat, s = opt.sizes[k],
         NEW b \in Int, b = created - i, NEW c \in Int, c = created - i + 1,
         b * s < x, x <= c * s
  PROVE  Ahead(rest, i, x)
<1>1. (created - i) * opt.sizes[k] < x /\ x <= (created - i + 1) * opt.sizes[k]
  OBVIOUS
<1> QED
  BY <1>1 DEF Ahead

(* Behind the last planned volume nothing is left. *)
LEMMA AheadEnd ==
  ASSUME NEW rest, NEW i \in Nat, created \in Nat, i = created + 1
  PROVE  Ahead(rest, i, 0)
BY DEF Ahead

(* A volume that takes its size leaves to the next what the plan left it;  *)
(* one with less than its size ahead is the last one planned.              *)
LEMMA AheadNext ==
  ASSUME opt \in Options, opt.target = "volumes", created \in Nat, NEW n \in Nat \ {0},
         NEW rest \in [DOMAIN opt.sizes -> 0 .. n],
         Remaining(n, rest), RequiredVolumeCount(n, rest, created),
         NEW i \in Nat \ {0}, NEW x \in Nat \ {0}, Ahead(rest, i, x)
  PROVE  /\ i <= created
         /\ x >= VolumeSize(i) => Ahead(rest, i + 1, x - VolumeSize(i))
         /\ x < VolumeSize(i) => i = created
<1> PICK k \in Nat : k = Len(opt.sizes)
  BY SizesTypes
<1>1. k > 0 /\ \A j \in 1 .. k : opt.sizes[j] \in Nat \ {0}
  BY SizesTypes
<1>2. i <= created
  BY DEF Ahead
<1>3. CASE i <= k
  <2> PICK s \in Nat \ {0} : s = opt.sizes[i]
    BY <1>1, <1>3
  <2>1. VolumeSize(i) = s /\ x = rest[i]
    BY <1>2, <1>3 DEF VolumeSize, Ahead
  <2>2. CASE i = created
    <3>1. x <= s
      BY <1>3, <2>1, <2>2, PlanFigures
    <3>2. x >= s => x - s = 0
      BY <3>1
    <3>3. x >= s => Ahead(rest, i + 1, x - s)
      BY <2>2, <3>2 DEF Ahead
    <3> QED
      BY <1>2, <2>1, <2>2, <3>3
  <2>3. CASE i < created
    <3>1. x > s
      BY <1>3, <2>1, <2>3, PlanFigures
    <3>2. CASE i < k
      <4>1. rest[i + 1] = x - s
        BY <2>1, <2>3, <3>2, PlanFigures
      <4>2. Ahead(rest, i + 1, x - s)
        BY <2>3, <3>1, <3>2, <4>1, SMTT(30) DEF Ahead
      <4> QED
        BY <1>2, <2>1, <3>1, <4>2
    <3>3. CASE i = k
      <4>1. (created - k - 1) * s < x - s /\ x - s <= (created - k) * s
        BY <2>1, <2>3, <3>3, PlanFigures
      <4>2. created - (i + 1) = created - k - 1 /\ created - (i + 1) + 1 = created - k
        BY <3>3
      <4>5. x - s \in Nat /\ x - s # 0 /\ i + 1 \in Nat /\ i + 1 > k /\ i + 1 <= created
        BY <2>3, <3>1, <3>3
      <4>y. PICK y \in Nat \ {0} : y = x - s
        BY <4>5
      <4>j. PICK j \in Nat : j = i + 1
        BY <4>5
      <4>0. created - k \in Int
        OBVIOUS
      <4>c. PICK c \in Int : c = created - k
        BY <4>0, Zenon
      <4>b. PICK b \in Int : b = c - 1
        OBVIOUS
      <4>7. b = created - j /\ c = created - j + 1 /\ j <= created /\ j > k
        BY <4>2, <4>5, <4>j, <4>b, <4>c
      <4>8. b * s < y /\ y <= c * s
        BY <4>1, <4>y, <4>b, <4>c
      <4>9. s \in Nat /\ s = opt.sizes[k]
        BY <3>3
      <4>10. Ahead(rest, j, y)
        BY <4>7, <4>8, <4>9, AheadLate, Zenon
      <4>11. Ahead(rest, i + 1, x - s)
        BY <4>y, <4>j, <4>10
      <4> QED
        BY <1>2, <2>1, <3>1, <4>11
    <3> QED
      BY <1>3, <3>2, <3>3
  <2> QED
    BY <1>2, <2>2, <2>3
<1>4. CASE i > k
  <2> PICK s \in Nat \ {0} : s = opt.sizes[k]
    BY <1>1
  <2> PICK c \in Nat : c = created - i
    BY <1>2
  <2>1. VolumeSize(i) = s /\ c * s < x /\ x <= (c + 1) * s
    BY <1>2, <1>4 DEF VolumeSize, Ahead
  <2>2. /\ c = 0 => x <= s
        /\ c > 0 => x > s /\ (c - 1) * s < x - s /\ x - s <= c * s
    BY <2>1, LateStep
  <2>3. CASE c = 0
    <3>1. x >= s => x - s = 0
      BY <2>2, <2>3
    <3>2. x >= s => Ahead(rest, i + 1, x - s)
      BY <2>3, <3>1, AheadEnd
    <3> QED
      BY <1>2, <2>1, <2>3, <3>2
  <2>4. CASE c > 0
    <3>1. x > s
      BY <2>2, <2>4
    <3>2. (c - 1) * s < x - s /\ x - s <= c * s
      BY <2>2, <2>4
    <3>4. created - (i + 1) = c - 1 /\ created - (i + 1) + 1 = c
      OBVIOUS
    <3>5. x - s \in Nat /\ x - s # 0 /\ i + 1 \in Nat /\ i + 1 > k /\ i + 1 <= created
      BY <1>4, <2>4, <3>1
    <3>y. PICK y \in Nat \ {0} : y = x - s
      BY <3>5
    <3>j. PICK j \in Nat : j = i + 1
      BY <3>5
    <3>b. PICK b \in Int : b = c - 1
      OBVIOUS
    <3>7. b = created - j /\ c = created - j + 1 /\ j <= created /\ j > k
      BY <3>4, <3>5, <3>j, <3>b
    <3>8. b * s < y /\ y <= c * s
      BY <3>2, <3>y, <3>b
    <3>9. Ahead(rest, j, y)
      <4>1. c \in Int /\ s \in Nat /\ j \in Nat /\ b \in Int /\ y \in Nat \ {0}
        OBVIOUS
      <4> QED
        BY <3>7, <3>8, <4>1, AheadLate, Zenon
    <3>10. Ahead(rest, i + 1, x - s)
      BY <3>y, <3>j, <3>9
    <3> QED
      BY <1>2, <2>1, <3>1, <3>10
  <2> QED
    BY <2>3, <2>4
<1> QED
  BY <1>3, <1>4

-----------------------------------------------------------------------------
(***************************************************************************)
(* Volumes are written as planned.                                         *)
(***************************************************************************)

(* The plan is about the options and the number charged, nothing else. *)
LEMMA OnPlanStays ==
  ASSUME NEW n, NEW i, NEW x, UNCHANGED <<opt, created>>, OnPlan(n, i, x)
  PROVE  OnPlan(n, i, x)'
BY DEF OnPlan, Remaining, RequiredVolumeCount, Ahead

(* What the plan says of the volume it has come to. *)
LEMMA OnPlanNext ==
  ASSUME opt \in Options, opt.target = "volumes", created \in Nat, NEW n \in Nat \ {0},
         NEW i \in Nat \ {0}, NEW x \in Nat, OnPlan(n, i, x)
  PROVE  /\ x = 0 => i = created + 1
         /\ x > 0 => /\ i <= created
                     /\ x >= VolumeSize(i) => OnPlan(n, i + 1, x - VolumeSize(i))
                     /\ x < VolumeSize(i) => i = created
<1>1. PICK rest \in [DOMAIN opt.sizes -> 0 .. n] :
        Remaining(n, rest) /\ RequiredVolumeCount(n, rest, created) /\ Ahead(rest, i, x)
  BY DEF OnPlan
<1>2. x = 0 => i = created + 1
  BY <1>1 DEF Ahead
<1>3. ASSUME x > 0
      PROVE  /\ i <= created
             /\ x >= VolumeSize(i) => Ahead(rest, i + 1, x - VolumeSize(i))
             /\ x < VolumeSize(i) => i = created
  BY <1>1, <1>3, AheadNext
<1> QED
  BY <1>1, <1>2, <1>3 DEF OnPlan

-----------------------------------------------------------------------------
(***************************************************************************)
(* An archive is never copied out empty.                                   *)
(***************************************************************************)

(* A seek leaves what the spool holds. *)
LEMMA SeekKeepsData ==
  ASSUME NEW p, mem \in Bytes, file \in Bytes, SeekTo(p), UNCHANGED inner
  PROVE  Spool'.data = Spool.data
BY DEF SeekTo, Spool, Bytes

(* Every write that succeeds stores a unit. *)
LEMMA StoredData ==
  ASSUME NEW b \in Bytes, buf \in [value : Nat, left : Nat], NEW n \in Nat \ {0}
  PROVE  Len(StoredAt(b, n).data) > 0
<1>1. PICK d \in Seq(Nat), p \in Nat, u \in Nat : d = b.data /\ p = b.pos /\ u = buf.value
  BY DEF Bytes
<1>2. Len(SO!WriteAt(d, p, u, n)) >= p + n
  BY WriteAtSeq DEF SO!Larger
<1>3. Len(SO!WriteAt(d, p, u, n)) \in Nat
  BY WriteAtSeq DEF SO!Larger
<1>4. StoredAt(b, n).data = SO!WriteAt(d, p, u, n)
  BY <1>1 DEF StoredAt
<1> QED
  BY <1>2, <1>3, <1>4

(* Every step keeps an archive that is copied out from being empty. *)
LEMMA NextData == StagedInv /\ DataInv /\ [Next]_vars => DataInv'
<1> SUFFICES ASSUME StagedInv, DataInv, [Next]_vars PROVE DataInv'
  OBVIOUS
<1> USE DEF spoolVars, fillVars, copyVars
<1>0. mem \in Bytes /\ file \in Bytes /\ buf \in [value : Nat, left : Nat]
  BY DEF StagedInv, TypeOK
<1>2. ASSUME pc' \notin {"new", "build"}, ~Copying'
      PROVE  DataInv'
  BY <1>2 DEF DataInv
<1>3. ASSUME failed', pc' = "build" PROVE DataInv'
  BY <1>3 DEF DataInv, Copying
<1>4. ASSUME Copying, Copying', Spool'.data = Spool.data PROVE DataInv'
  BY <1>4 DEF DataInv, Copying
<1>5. CASE UNCHANGED vars
  BY <1>5 DEF vars, DataInv, Copying, Spool
<1>6. CASE Cancel
  BY <1>6 DEF Cancel, DataInv, Copying, Spool
<1>7. CASE NewSpool
  BY <1>7 DEF NewSpool, DataInv, Copying
<1>8. CASE NewSpoolFails \/ BuildFails \/ CopyEnds \/ NoMoreVolumes \/ OutputFails \/ Cleanup
  BY <1>2, <1>8 DEF NewSpoolFails, BuildFails, CopyEnds, NoMoreVolumes, Succeed, OutputFails,
                    Cleanup, Copying
<1>9. ASSUME NEW n \in 1 .. MaxRun, BeginBlank \/ BeginBody(n) \/ BeginHeader(n) \/ BeginSignature
      PROVE  DataInv'
  BY <1>2, <1>9 DEF BeginBlank, BeginBody, BeginHeader, BeginSignature, WriteAll, Copying
<1>10. CASE BeginBlank \/ BeginSignature
  BY <1>2, <1>10 DEF BeginBlank, BeginSignature, WriteAll, Copying
<1>11. CASE Built
  <2>1. Spool'.data = Spool.data
    BY <1>0, <1>11, SeekKeepsData DEF Built
  <2>2. Len(Spool.data) > 0 /\ pc' \in {"copy", "plan"}
    BY <1>11 DEF Built, DataInv
  <2> QED
    BY <2>1, <2>2 DEF DataInv
<1>12. CASE CheckTemporary \/ NoRoll \/ RollRefused \/ RollFails \/ Roll \/ PutFails
  BY <1>2, <1>3, <1>12 DEF CheckTemporary, NoRoll, RollRefused, RollFails, Roll, PutFails,
                           WriteError, GoOn, Copying
<1>13. CASE PutMemory
  <2>1. CASE Over(opt.retained, Resized)
    BY <1>3, <1>13, <2>1 DEF PutMemory, WriteError
  <2>2. CASE ~Over(opt.retained, Resized)
    <3>1. mem' = StoredAt(mem, buf.left) /\ inner' = "memory" /\ pc' \in {"check", "build"}
      BY <1>13, <2>2 DEF PutMemory, Stored
    <3>2. buf.left \in Nat \ {0}
      BY <1>0, <1>13 DEF PutMemory, StagedInv, SpoolInv
    <3>3. Len(Spool'.data) > 0
      BY <1>0, <3>1, <3>2, StoredData DEF Spool
    <3> QED
      BY <3>1, <3>3 DEF DataInv, Copying
  <2> QED
    BY <2>1, <2>2
<1>14. ASSUME NEW n \in 1 .. MaxRun, PutFile(n) PROVE DataInv'
  <2>1. file' = StoredAt(file, n) /\ inner' = "file" /\ pc' \in {"check", "build"}
    BY <1>14 DEF PutFile, Stored, WriteError
  <2>2. Len(Spool'.data) > 0
    BY <1>0, <2>1, StoredData DEF Spool
  <2> QED
    BY <2>1, <2>2 DEF DataInv, Copying
<1>15. CASE CopyUnit \/ NextVolume \/ FillUnit
  <2>1. EmitUnit /\ Copying /\ Copying'
    BY <1>15 DEF CopyUnit, NextVolume, FillUnit, Copying
  <2>2. Spool'.data = Spool.data
    BY <1>0, <2>1, SeekKeepsData DEF EmitUnit
  <2> QED
    BY <1>4, <2>1, <2>2
<1>16. CASE PlanVolumes
  <2>1. Spool'.data = Spool.data
    BY <1>0, <1>16, SeekKeepsData DEF PlanVolumes
  <2> QED
    BY <1>4, <1>16, <2>1 DEF PlanVolumes, Copying
<1>17. CASE CloseVolume
  BY <1>2, <1>4, <1>17 DEF CloseVolume, Succeed, Copying, Spool
<1> QED
  BY <1>5, <1>6, <1>7, <1>8, <1>9, <1>10, <1>11, <1>12, <1>13, <1>14, <1>15, <1>16, <1>17
  DEF Next, Step

-----------------------------------------------------------------------------
(***************************************************************************)
(* The steps of a build that writes volumes.                               *)
(***************************************************************************)

(* Before the plan is made, and once the output is over, the volumes are   *)
(* left alone.                                                             *)
LEMMA QuietVolumes ==
  ASSUME VolumeInv, VolumesMatchPlan, UNCHANGED <<opt, volumes, created>>,
         pc \notin {"next", "fill"}, pc' \notin {"next", "fill"},
         pc' = "copy" => opt.target # "volumes",
         pc' \in {"new", "build", "check", "roll", "put", "plan"} =>
           pc \in {"new", "build", "check", "roll", "put", "plan"},
         outcome' = outcome \/ outcome' = "err",
         (res' = res /\ outcome' = outcome) \/ (res' = "ok" => outcome' = "ok")
  PROVE  VolumeInv' /\ VolumesMatchPlan'
<1> SUFFICES ASSUME opt.target = "volumes" PROVE VolumeInv' /\ VolumesMatchPlan'
  BY DEF VolumeInv, VolumesMatchPlan
<1>1. outcome' = "ok" => volumes # <<>> /\ Len(volumes) = created /\ volumes[Len(volumes)] > 0
  BY DEF VolumeInv
<1>2. res' = "ok" => outcome' = "ok"
  BY DEF VolumeInv
<1>3. VolumeInv'
  BY <1>1, <1>2 DEF VolumeInv
<1>4. \A i : VolumeSize(i)' = VolumeSize(i)
  BY DEF VolumeSize
<1> QED
  BY <1>1, <1>2, <1>3, <1>4 DEF VolumesMatchPlan, Over

(* Nothing the plan is about changes. *)
LEMMA SameVolumes ==
  ASSUME VolumeInv, VolumesMatchPlan,
         UNCHANGED <<opt, inner, mem, file, pc, out, volumes, left, created, outcome, res>>
  PROVE  VolumeInv' /\ VolumesMatchPlan'
<1>1. Len(Spool.data)' = Len(Spool.data) /\ CurrentVolume' = CurrentVolume
      /\ UnitsAhead' = UnitsAhead
  BY DEF Spool, CurrentVolume, UnitsAhead
<1>2. OnPlan(Len(Spool.data), CurrentVolume, UnitsAhead) =>
        OnPlan(Len(Spool.data), CurrentVolume, UnitsAhead)'
  <2> PICK n, i, x : n = Len(Spool.data) /\ i = CurrentVolume /\ x = UnitsAhead
    OBVIOUS
  <2>1. OnPlan(n, i, x) => OnPlan(n, i, x)'
    BY OnPlanStays
  <2> QED
    BY <1>1, <2>1
<1>3. \A i : VolumeSize(i)' = VolumeSize(i)
  BY DEF VolumeSize
<1>4. VolumeInv'
  BY <1>2, <1>3 DEF VolumeInv
<1>5. VolumesMatchPlan'
  BY <1>3 DEF VolumesMatchPlan, Over
<1> QED
  BY <1>4, <1>5

(* Counting the volumes puts the whole archive ahead of the first. *)
LEMMA PlanVolumesPlanned ==
  ASSUME StagedInv, StagedInv', DataInv, VolumeInv, VolumesMatchPlan, PlanVolumes
  PROVE  VolumeInv' /\ VolumesMatchPlan'
<1>1. /\ opt \in Options /\ opt.target = "volumes" /\ opt' = opt
      /\ volumes = <<>> /\ volumes' = <<>> /\ out' = <<>> /\ pc' = "next"
      /\ outcome' = "none" /\ res' = "none"
  BY DEF PlanVolumes, StagedInv, TypeOK, CopyInv, VolumeInv, Copying
<1>2. PICK n \in Nat \ {0} : n = Len(Spool.data) /\ n = Len(Spool'.data)
  <2>1. Spool'.data = Spool.data /\ Spool.data \in Seq(Nat)
    BY SeekKeepsData DEF PlanVolumes, StagedInv, TypeOK, Spool, Bytes
  <2>2. Len(Spool.data) > 0
    BY DEF PlanVolumes, DataInv, Copying
  <2> QED
    BY <2>1, <2>2
<1>3. created' \in Nat
  BY DEF StagedInv, TypeOK
<1>4. PICK rest \in [DOMAIN opt.sizes -> 0 .. n] :
        Remaining(n, rest) /\ RequiredVolumeCount(n, rest, created')
  BY <1>2 DEF PlanVolumes
<1>6. ~Over(opt.maxVolumes, created')
  BY DEF PlanVolumes
<1>7. rest \in [DOMAIN opt'.sizes -> 0 .. n]
  BY <1>1, <1>4
<1>8. Remaining(n, rest)'
  BY <1>1, <1>4 DEF Remaining
<1>9. RequiredVolumeCount(n, rest, created)'
  BY <1>1, <1>4 DEF RequiredVolumeCount
<1>10. created' > 0 /\ OnPlan(n, 1, n)'
  <2>1. created' > 0
    BY <1>2 DEF PlanVolumes
  <2>2. rest[1] = n
    BY <1>4 DEF Remaining
  <2>3. Ahead(rest, 1, n)'
    <3>1. PICK c \in Nat \ {0} : c = created'
      BY <1>3, <2>1
    <3>2. Len(opt'.sizes) >= 1
      BY <1>1, SizesTypes
    <3>3. 1 <= c + 1 /\ (n = 0 <=> 1 = c + 1)
      <4>1. n # 0
        OBVIOUS
      <4>2. 1 <= c + 1 /\ 1 # c + 1
        OBVIOUS
      <4> QED
        BY <4>1, <4>2, Zenon
    <3>4. PICK k \in Nat : k = Len(opt'.sizes)
      BY <1>1, SizesTypes
    <3>5. ~(1 > Len(opt'.sizes))
      BY <3>2, <3>4
    <3> QED
      BY <2>2, <3>1, <3>3, <3>5 DEF Ahead
  <2> QED
    BY <1>7, <1>8, <1>9, <2>1, <2>3 DEF OnPlan
<1>11. CurrentVolume' = 1 /\ UnitsAhead' = n
  BY <1>1, <1>2 DEF CurrentVolume, UnitsAhead
<1>12. OnPlan(Len(Spool.data), CurrentVolume, UnitsAhead)'
  BY <1>2, <1>10, <1>11 DEF OnPlan
<1>13. VolumeInv'
  BY <1>1, <1>10, <1>12 DEF VolumeInv
<1> QED
  BY <1>1, <1>3, <1>6, <1>13 DEF VolumesMatchPlan, Over

(* The figures of a unit written to a volume. *)
LEMMA EmitFigures ==
  ASSUME StagedInv, StagedInv', EmitUnit, pc \in {"next", "fill"}
  PROVE  /\ opt' = opt /\ created' = created /\ outcome' = "none" /\ res' = "none"
         /\ opt.target = "volumes" /\ opt \in Options /\ created \in Nat
         /\ volumes \in Seq(Nat) /\ left \in Nat
         /\ \E n \in Nat \ {0}, m \in Nat : /\ Len(Spool.data) = n /\ Len(Spool.data)' = n
                                          /\ Len(out) = m /\ Len(out)' = m + 1 /\ m < n
<1>1. /\ opt' = opt /\ created' = created /\ outcome' = "none" /\ res' = "none"
      /\ opt.target = "volumes" /\ opt \in Options /\ created \in Nat
      /\ volumes \in Seq(Nat) /\ left \in Nat
  BY DEF EmitUnit, StagedInv, TypeOK, CopyInv, Copying
<1>2. Spool'.data = Spool.data /\ Spool.data \in Seq(Nat) /\ Spool.pos \in Nat
  BY SeekKeepsData DEF EmitUnit, StagedInv, TypeOK, Spool, Bytes
<1>3. out \in Seq(Nat) /\ out' = Append(out, Spool.data[Spool.pos + 1])
  BY DEF EmitUnit, StagedInv, TypeOK
<1>4. Len(out) \in Nat /\ Len(out') = Len(out) + 1
  BY <1>3
<1>5. Len(out) = Spool.pos /\ Len(out) <= Len(Spool.data) /\ Spool.pos # Len(Spool.data)
  BY DEF EmitUnit, EndOfSpool, StagedInv, CopyInv, Copying
<1>6. PICK n \in Nat, m \in Nat : n = Len(Spool.data) /\ m = Len(out)
  BY <1>2, <1>4
<1>7. m < n /\ n # 0
  BY <1>5, <1>6
<1>8. n \in Nat \ {0}
  BY <1>7
<1> QED
  BY <1>1, <1>2, <1>4, <1>6, <1>7, <1>8

(* Another volume is started only if the plan has one left. *)
LEMMA NextVolumePlanned ==
  ASSUME StagedInv, StagedInv', VolumeInv, VolumesMatchPlan, NextVolume
  PROVE  VolumeInv' /\ VolumesMatchPlan'
<1>0. pc = "next" /\ pc' = "fill" /\ EmitUnit /\ volumes' = Append(volumes, 1)
  BY DEF NextVolume
<1>1. /\ opt' = opt /\ created' = created /\ outcome' = "none" /\ res' = "none"
      /\ opt.target = "volumes" /\ opt \in Options /\ created \in Nat
      /\ volumes \in Seq(Nat)
  BY <1>0, EmitFigures
<1>2. PICK n \in Nat \ {0}, m \in Nat :
        /\ Len(Spool.data) = n /\ Len(Spool.data)' = n
        /\ Len(out) = m /\ Len(out)' = m + 1 /\ m < n
  BY <1>0, EmitFigures
<1>3. PICK i \in Nat \ {0} : i = Len(volumes) + 1
  BY <1>1
<1>4. PICK x \in Nat \ {0} : x = n - m
  BY <1>2
<1>5. Len(volumes)' = i /\ volumes'[i] = 1 /\ \A j \in 1 .. i - 1 : volumes'[j] = volumes[j]
  BY <1>0, <1>1, <1>3
<1>6. CurrentVolume = i /\ UnitsAhead = x
  BY <1>0, <1>2, <1>3, <1>4 DEF CurrentVolume, UnitsAhead
<1>7. CurrentVolume' = i /\ UnitsAhead' = x
  BY <1>0, <1>2, <1>4, <1>5 DEF CurrentVolume, UnitsAhead
<1>8. created > 0 /\ OnPlan(n, i, x)
  BY <1>0, <1>1, <1>2, <1>6 DEF VolumeInv
<1>9. i <= created
  BY <1>1, <1>8, OnPlanNext
<1>10. OnPlan(n, i, x)'
  BY <1>1, <1>8, OnPlanStays
<1>11. \A j : VolumeSize(j)' = VolumeSize(j)
  BY <1>1 DEF VolumeSize
<1>12. VolumeSize(i) \in Nat \ {0}
  BY <1>1, VolumeSizeType
<1>13. left' = VolumeSize(i) - 1
  BY <1>5, <1>11 DEF NextVolume
<1>14. OnPlan(Len(Spool.data), CurrentVolume, UnitsAhead)'
  BY <1>2, <1>7, <1>10 DEF OnPlan
<1>15. VolumeInv'
  BY <1>0, <1>1, <1>5, <1>8, <1>11, <1>12, <1>13, <1>14 DEF VolumeInv
<1>16. \A j \in 1 .. i - 1 : volumes[j] = VolumeSize(j)
  BY <1>0, <1>1, <1>3 DEF VolumeInv
<1>17. \A j \in 1 .. i : volumes'[j] <= VolumeSize(j) /\ (j < i => volumes'[j] = VolumeSize(j))
  <2> SUFFICES ASSUME NEW j \in 1 .. i
               PROVE  volumes'[j] <= VolumeSize(j) /\ (j < i => volumes'[j] = VolumeSize(j))
    OBVIOUS
  <2>1. VolumeSize(j) \in Nat
    BY <1>1, VolumeSizeType
  <2>2. CASE j = i
    BY <1>5, <1>12, <2>2
  <2>3. CASE j \in 1 .. i - 1
    BY <1>5, <1>16, <2>1, <2>3
  <2> QED
    BY <2>2, <2>3
<1>18. DOMAIN volumes' = 1 .. i
  BY <1>0, <1>1, <1>3
<1>19. ~Over(opt.maxVolumes, created)
  BY <1>1 DEF VolumesMatchPlan
<1>20. VolumesMatchPlan'
  BY <1>1, <1>5, <1>9, <1>11, <1>17, <1>18, <1>19 DEF VolumesMatchPlan, Over
<1> QED
  BY <1>15, <1>20

(* A unit more in the open volume leaves the plan where it is. *)
LEMMA FillUnitPlanned ==
  ASSUME StagedInv, StagedInv', VolumeInv, VolumesMatchPlan, FillUnit
  PROVE  VolumeInv' /\ VolumesMatchPlan'
<1>0. /\ pc = "fill" /\ pc' = "fill" /\ EmitUnit /\ left > 0 /\ left' = left - 1
      /\ volumes' = [volumes EXCEPT ![Len(volumes)] = @ + 1]
  BY DEF FillUnit
<1>1. /\ opt' = opt /\ created' = created /\ outcome' = "none" /\ res' = "none"
      /\ opt.target = "volumes" /\ opt \in Options /\ created \in Nat
      /\ volumes \in Seq(Nat) /\ left \in Nat
  BY <1>0, EmitFigures
<1>2. PICK n \in Nat \ {0}, m \in Nat :
        /\ Len(Spool.data) = n /\ Len(Spool.data)' = n
        /\ Len(out) = m /\ Len(out)' = m + 1 /\ m < n
  BY <1>0, EmitFigures
<1>3. PICK i \in Nat \ {0} : i = Len(volumes)
  BY <1>0, <1>1 DEF StagedInv, CopyInv
<1>4. PICK v \in Nat : v = volumes[i]
  BY <1>1, <1>3
<1>5. /\ Len(volumes)' = i /\ DOMAIN volumes = 1 .. i /\ DOMAIN volumes' = 1 .. i
      /\ volumes'[i] = v + 1 /\ \A j \in 1 .. i : j # i => volumes'[j] = volumes[j]
  BY <1>0, <1>1, <1>3, <1>4
<1>6. PICK x \in Nat : x = n - m + v
  BY <1>2
<1>7. CurrentVolume = i /\ UnitsAhead = x
  BY <1>0, <1>2, <1>3, <1>4, <1>6 DEF CurrentVolume, UnitsAhead
<1>8. CurrentVolume' = i /\ UnitsAhead' = x
  <2>1. n - (m + 1) + (v + 1) = x
    BY <1>6
  <2> QED
    BY <1>0, <1>2, <1>5, <2>1 DEF CurrentVolume, UnitsAhead
<1>9. created > 0 /\ OnPlan(n, i, x) /\ v > 0 /\ left = VolumeSize(i) - v
  BY <1>0, <1>1, <1>2, <1>3, <1>4, <1>7 DEF VolumeInv
<1>10. OnPlan(n, i, x)'
  BY <1>1, <1>9, OnPlanStays
<1>11. \A j : VolumeSize(j)' = VolumeSize(j)
  BY <1>1 DEF VolumeSize
<1>12. VolumeSize(i) \in Nat \ {0}
  BY <1>1, VolumeSizeType
<1>13. left' = VolumeSize(i) - (v + 1) /\ v + 1 <= VolumeSize(i) /\ v + 1 > 0
  BY <1>0, <1>1, <1>9, <1>12
<1>14. OnPlan(Len(Spool.data), CurrentVolume, UnitsAhead)'
  BY <1>2, <1>8, <1>10 DEF OnPlan
<1>15. VolumeInv'
  BY <1>0, <1>1, <1>5, <1>9, <1>11, <1>13, <1>14 DEF VolumeInv
<1>16. \A j \in 1 .. i : volumes[j] <= VolumeSize(j) /\ (j < i => volumes[j] = VolumeSize(j))
  BY <1>1, <1>3, <1>5 DEF VolumesMatchPlan
<1>17. \A j \in 1 .. i : volumes'[j] <= VolumeSize(j) /\ (j < i => volumes'[j] = VolumeSize(j))
  BY <1>5, <1>13, <1>16
<1>18. i <= created /\ ~Over(opt.maxVolumes, created)
  BY <1>1, <1>3 DEF VolumesMatchPlan
<1>19. VolumesMatchPlan'
  BY <1>1, <1>5, <1>11, <1>17, <1>18 DEF VolumesMatchPlan, Over
<1> QED
  BY <1>15, <1>19

(* What is known of the volumes when the spool has been read up to m. *)
LEMMA VolumeFigures ==
  ASSUME StagedInv, DataInv, pc \in {"next", "fill"}
  PROVE  /\ opt.target = "volumes" /\ opt \in Options /\ created \in Nat
         /\ volumes \in Seq(Nat) /\ left \in Nat /\ outcome = "none" /\ res = "none"
         /\ \E n \in Nat \ {0}, m \in Nat :
              /\ Len(Spool.data) = n /\ Len(out) = m /\ m <= n
              /\ EndOfSpool <=> m = n
<1>1. Copying
  BY DEF Copying
<1>2. /\ opt.target = "volumes" /\ opt \in Options /\ created \in Nat
      /\ volumes \in Seq(Nat) /\ left \in Nat /\ outcome = "none" /\ res = "none"
  BY <1>1 DEF StagedInv, TypeOK, CopyInv
<1>3. Spool.data \in Seq(Nat) /\ out \in Seq(Nat) /\ Len(Spool.data) > 0
  BY <1>1 DEF StagedInv, TypeOK, Bytes, Spool, DataInv
<1>4. Len(out) = Spool.pos /\ Len(out) <= Len(Spool.data)
  BY <1>1 DEF StagedInv, CopyInv
<1>5. PICK n \in Nat \ {0}, m \in Nat : n = Len(Spool.data) /\ m = Len(out)
  BY <1>3
<1>6. m <= n /\ (EndOfSpool <=> m = n)
  BY <1>4, <1>5 DEF EndOfSpool
<1> QED
  BY <1>2, <1>5, <1>6

(* The output ends when all planned volumes were written. *)
LEMMA NoMoreVolumesPlanned ==
  ASSUME StagedInv, DataInv, VolumeInv, VolumesMatchPlan, NoMoreVolumes
  PROVE  VolumeInv' /\ VolumesMatchPlan'
<1>0. /\ pc = "next" /\ EndOfSpool /\ pc' = "cleanup" /\ outcome' = "ok"
      /\ UNCHANGED <<opt, volumes, created, res>>
  BY DEF NoMoreVolumes, Succeed
<1>1. /\ opt.target = "volumes" /\ opt \in Options /\ created \in Nat
      /\ volumes \in Seq(Nat) /\ res = "none"
  BY <1>0, VolumeFigures
<1>2. PICK n \in Nat \ {0} : Len(Spool.data) = n /\ Len(out) = n
  BY <1>0, VolumeFigures
<1>3. PICK i \in Nat \ {0} : i = Len(volumes) + 1
  BY <1>1
<1>4. CurrentVolume = i /\ UnitsAhead = 0
  BY <1>0, <1>2, <1>3 DEF CurrentVolume, UnitsAhead
<1>5. created > 0 /\ OnPlan(n, i, 0) /\ \A j \in DOMAIN volumes : volumes[j] = VolumeSize(j)
  BY <1>0, <1>1, <1>2, <1>4 DEF VolumeInv
<1>6. i = created + 1
  BY <1>1, <1>5, OnPlanNext
<1>7. Len(volumes) = created /\ Len(volumes) \in Nat \ {0}
  BY <1>1, <1>3, <1>5, <1>6
<1>8. volumes # <<>> /\ volumes[Len(volumes)] = VolumeSize(Len(volumes))
  BY <1>1, <1>5, <1>7
<1>9. volumes[Len(volumes)] > 0
  BY <1>1, <1>7, <1>8, VolumeSizeType
<1>10. VolumeInv'
  BY <1>0, <1>1, <1>7, <1>8, <1>9 DEF VolumeInv
<1>11. \A j : VolumeSize(j)' = VolumeSize(j)
  BY <1>0 DEF VolumeSize
<1> QED
  BY <1>0, <1>1, <1>10, <1>11 DEF VolumesMatchPlan, Over

(* A full volume leaves the rest to the next one; one that is not full is  *)
(* the last one planned.                                                   *)
LEMMA CloseVolumePlanned ==
  ASSUME StagedInv, DataInv, VolumeInv, VolumesMatchPlan, CloseVolume
  PROVE  VolumeInv' /\ VolumesMatchPlan'
<1>0. /\ pc = "fill" /\ (left = 0 \/ EndOfSpool)
      /\ UNCHANGED <<opt, volumes, created, res>>
  BY DEF CloseVolume, Succeed
<1>1. /\ opt.target = "volumes" /\ opt \in Options /\ created \in Nat
      /\ volumes \in Seq(Nat) /\ left \in Nat /\ outcome = "none" /\ res = "none"
  BY <1>0, VolumeFigures
<1>2. PICK n \in Nat \ {0}, m \in Nat :
        Len(Spool.data) = n /\ Len(out) = m /\ m <= n /\ (EndOfSpool <=> m = n)
  BY <1>0, VolumeFigures
<1>3. PICK i \in Nat \ {0} : i = Len(volumes)
  BY <1>0, <1>1 DEF StagedInv, CopyInv
<1>4. PICK v \in Nat : v = volumes[i]
  BY <1>1, <1>3
<1>5. PICK x \in Nat : x = n - m + v
  BY <1>2
<1>6. CurrentVolume = i /\ UnitsAhead = x
  BY <1>0, <1>2, <1>3, <1>4, <1>5 DEF CurrentVolume, UnitsAhead
<1>7. created > 0 /\ OnPlan(n, i, x) /\ v > 0 /\ left = VolumeSize(i) - v
  BY <1>0, <1>1, <1>2, <1>3, <1>4, <1>6 DEF VolumeInv
<1>8. PICK s \in Nat \ {0} : s = VolumeSize(i)
  BY <1>1, VolumeSizeType
<1>9. \A j : VolumeSize(j)' = VolumeSize(j)
  BY <1>0 DEF VolumeSize
<1>10. x > 0
  BY <1>2, <1>5, <1>7
<1>11. /\ i <= created
       /\ x >= s => OnPlan(n, i + 1, x - s)
       /\ x < s => i = created
  BY <1>1, <1>7, <1>8, <1>10, OnPlanNext
<1>12. VolumesMatchPlan'
  BY <1>0, <1>1, <1>9 DEF VolumesMatchPlan, Over
<1>13. ASSUME left > 0 PROVE VolumeInv'
  <2>1. outcome' = "ok" /\ pc' = "cleanup"
    BY <1>13 DEF CloseVolume, Succeed
  <2>2. m = n /\ x = v /\ v < s
    BY <1>0, <1>1, <1>2, <1>5, <1>7, <1>8, <1>13
  <2>3. Len(volumes) = created /\ volumes[Len(volumes)] > 0 /\ volumes # <<>>
    BY <1>1, <1>3, <1>4, <1>7, <1>11, <2>2
  <2> QED
    BY <1>0, <1>1, <2>1, <2>3 DEF VolumeInv
<1>14. ASSUME left = 0 PROVE VolumeInv'
  <2>1. pc' = "next" /\ UNCHANGED <<inner, mem, file, out, outcome>>
    BY <1>14 DEF CloseVolume, spoolVars
  <2>2. v = s
    BY <1>7, <1>8, <1>14
  <2>3. PICK y \in Nat : y = n - m
    BY <1>2
  <2>4. x >= s /\ x - s = y
    BY <1>2, <1>5, <2>2, <2>3
  <2>5. PICK k \in Nat : k = i + 1
    OBVIOUS
  <2>6. OnPlan(n, k, y)
    BY <1>11, <2>4, <2>5
  <2>7. OnPlan(n, k, y)'
    BY <1>0, <2>6, OnPlanStays
  <2>8. CurrentVolume' = k /\ UnitsAhead' = y
    BY <1>0, <1>2, <1>3, <2>1, <2>3, <2>5 DEF CurrentVolume, UnitsAhead, Spool
  <2>9. Len(Spool.data)' = n
    BY <1>2, <2>1 DEF Spool
  <2>10. OnPlan(Len(Spool.data), CurrentVolume, UnitsAhead)'
    BY <2>7, <2>8, <2>9 DEF OnPlan
  <2>11. \A j \in DOMAIN volumes : volumes[j] = VolumeSize(j)
    <3>1. \A j \in DOMAIN volumes : j < i => volumes[j] = VolumeSize(j)
      BY <1>1, <1>3 DEF VolumesMatchPlan
    <3>2. \A j \in DOMAIN volumes : j < i \/ j = i
      BY <1>1, <1>3
    <3> QED
      BY <1>4, <1>8, <2>2, <3>1, <3>2
  <2> QED
    BY <1>0, <1>1, <1>7, <1>9, <2>1, <2>10, <2>11 DEF VolumeInv
<1> QED
  BY <1>1, <1>12, <1>13, <1>14

(* A volume that was created but not written to was planned as well. *)
LEMMA OutputFailsPlanned ==
  ASSUME StagedInv, DataInv, VolumeInv, VolumesMatchPlan, OutputFails
  PROVE  VolumeInv' /\ VolumesMatchPlan'
<1>0. /\ pc' = "cleanup" /\ outcome' = "err" /\ UNCHANGED <<opt, created, res>>
      /\ Copying
  BY DEF OutputFails, Copying
<1>1. res' = "none"
  BY <1>0 DEF StagedInv, CopyInv, Copying
<1>2. VolumeInv'
  BY <1>0, <1>1 DEF VolumeInv
<1>3. \A j : VolumeSize(j)' = VolumeSize(j)
  BY <1>0 DEF VolumeSize
<1>4. CASE volumes' = volumes
  BY <1>0, <1>1, <1>2, <1>3, <1>4 DEF VolumesMatchPlan, Over
<1>5. CASE pc = "next" /\ ~EndOfSpool /\ volumes' = Append(volumes, 0)
  <2>1. /\ opt.target = "volumes" /\ opt \in Options /\ created \in Nat
        /\ volumes \in Seq(Nat)
    BY <1>5, VolumeFigures
  <2>2. PICK n \in Nat \ {0}, m \in Nat : Len(Spool.data) = n /\ Len(out) = m /\ m < n
    BY <1>5, VolumeFigures
  <2>3. PICK i \in Nat \ {0} : i = Len(volumes) + 1
    BY <2>1
  <2>4. PICK x \in Nat \ {0} : x = n - m
    BY <2>2
  <2>5. CurrentVolume = i /\ UnitsAhead = x
    BY <1>5, <2>2, <2>3, <2>4 DEF CurrentVolume, UnitsAhead
  <2>6. OnPlan(n, i, x) /\ \A j \in DOMAIN volumes : volumes[j] = VolumeSize(j)
    BY <1>5, <2>1, <2>2, <2>5 DEF VolumeInv
  <2>7. i <= created
    BY <2>1, <2>6, OnPlanNext
  <2>8. /\ Len(volumes') = i /\ volumes'[i] = 0 /\ DOMAIN volumes' = 1 .. i
        /\ \A j \in 1 .. i - 1 : volumes'[j] = volumes[j] /\ j \in DOMAIN volumes
    BY <1>5, <2>1, <2>3
  <2>9. \A j \in 1 .. i : volumes'[j] <= VolumeSize(j) /\ (j < i => volumes'[j] = VolumeSize(j))
    <3> SUFFICES ASSUME NEW j \in 1 .. i
                 PROVE  volumes'[j] <= VolumeSize(j) /\ (j < i => volumes'[j] = VolumeSize(j))
      OBVIOUS
    <3>1. VolumeSize(j) \in Nat
      BY <2>1, VolumeSizeType
    <3>2. CASE j = i
      BY <2>8, <3>1, <3>2
    <3>3. CASE j \in 1 .. i - 1
      BY <2>6, <2>8, <3>1, <3>3
    <3> QED
      BY <3>2, <3>3
  <2>10. ~Over(opt.maxVolumes, created)
    BY <2>1 DEF VolumesMatchPlan
  <2> QED
    BY <1>0, <1>1, <1>2, <1>3, <2>7, <2>8, <2>9, <2>10 DEF VolumesMatchPlan, Over
<1> QED
  BY <1>4, <1>5 DEF OutputFails

(* The cleanup reports success only for a build that succeeded. *)
LEMMA CleanupPlanned ==
  ASSUME StagedInv, VolumeInv, VolumesMatchPlan, Cleanup
  PROVE  VolumeInv' /\ VolumesMatchPlan'
<1>1. /\ pc = "cleanup" /\ pc' = "returned" /\ UNCHANGED <<opt, volumes, created, outcome>>
  BY DEF Cleanup, copyVars
<1>2. res' = "ok" => outcome' = "ok"
  BY <1>1 DEF Cleanup
<1> QED
  BY <1>1, <1>2, QuietVolumes

(* Before anything is planned no volume is there. *)
LEMMA InitVolumes == Init => DataInv /\ VolumeInv /\ VolumesMatchPlan
<1> SUFFICES ASSUME Init PROVE DataInv /\ VolumeInv /\ VolumesMatchPlan
  OBVIOUS
<1>1. DataInv
  BY DEF Init, DataInv, Copying
<1>2. VolumeInv
  BY DEF Init, VolumeInv
<1>3. VolumesMatchPlan
  <2>1. opt.maxVolumes \in Int /\ (opt.maxVolumes = None \/ opt.maxVolumes > 0)
    BY OptionAssumption DEF Init, Option, None
  <2> QED
    BY <2>1 DEF Init, VolumesMatchPlan, Over
<1> QED
  BY <1>1, <1>2, <1>3

(* Every step keeps the volumes on their plan. *)
LEMMA NextVolumes ==
  StagedInv /\ StagedInv' /\ DataInv /\ VolumeInv /\ VolumesMatchPlan /\ [Next]_vars
    => VolumeInv' /\ VolumesMatchPlan'
<1> SUFFICES ASSUME StagedInv, StagedInv', DataInv, VolumeInv, VolumesMatchPlan, [Next]_vars
             PROVE  VolumeInv' /\ VolumesMatchPlan'
  OBVIOUS
<1> USE DEF spoolVars, fillVars, copyVars
<1>1. CASE UNCHANGED vars \/ Cancel
  BY <1>1, SameVolumes DEF vars, Cancel
<1>2. CASE NewSpool \/ BeginBlank \/ BeginSignature \/ BuildFails
  <2>1. /\ pc \in {"new", "build"} /\ pc' \in {"build", "check", "cleanup"}
        /\ UNCHANGED <<opt, volumes, created, res>> /\ outcome' \in {outcome, "err"}
        /\ res' = "none"
    BY <1>2 DEF NewSpool, BeginBlank, BeginSignature, BuildFails, WriteAll, StagedInv, CopyInv
  <2> QED
    BY <2>1, QuietVolumes
<1>3. CASE NewSpoolFails
  BY <1>3, QuietVolumes DEF NewSpoolFails
<1>4. ASSUME NEW n \in 1 .. MaxRun, BeginBody(n) \/ BeginHeader(n)
      PROVE  VolumeInv' /\ VolumesMatchPlan'
  BY <1>4, QuietVolumes DEF BeginBody, BeginHeader, WriteAll
<1>5. CASE Built
  BY <1>5, QuietVolumes DEF Built
<1>6. CASE CheckTemporary \/ NoRoll \/ RollRefused \/ RollFails \/ Roll \/ PutFails
  <2>1. /\ pc \in {"check", "roll", "put"} /\ pc' \in {"build", "roll", "put"}
        /\ UNCHANGED <<opt, volumes, created, outcome, res>>
    BY <1>6 DEF CheckTemporary, NoRoll, RollRefused, RollFails, Roll, PutFails, WriteError, GoOn
  <2> QED
    BY <2>1, QuietVolumes
<1>7. ASSUME NEW n \in 1 .. MaxRun, PutFile(n)
      PROVE  VolumeInv' /\ VolumesMatchPlan'
  <2>1. /\ pc = "put" /\ pc' \in {"build", "check"}
        /\ UNCHANGED <<opt, volumes, created, outcome, res>>
    BY <1>7 DEF PutFile, WriteError, Stored
  <2> QED
    BY <2>1, QuietVolumes
<1>8. CASE PutMemory
  <2>1. /\ pc = "put" /\ pc' \in {"build", "check"}
        /\ UNCHANGED <<opt, volumes, created, outcome, res>>
    BY <1>8 DEF PutMemory, WriteError, Stored
  <2> QED
    BY <2>1, QuietVolumes
<1>9. CASE CopyUnit \/ CopyEnds
  <2>1. pc = "copy" /\ UNCHANGED opt
    BY <1>9 DEF CopyUnit, CopyEnds, EmitUnit, Succeed
  <2> QED
    BY <2>1 DEF VolumeInv, VolumesMatchPlan
<1> QED
  BY <1>1, <1>2, <1>3, <1>4, <1>5, <1>6, <1>7, <1>8, <1>9, PlanVolumesPlanned,
     NextVolumePlanned, NoMoreVolumesPlanned, FillUnitPlanned, CloseVolumePlanned,
     OutputFailsPlanned, CleanupPlanned
  DEF Next, Step

(* Volumes hold what VolumeOptions says, and there are exactly as many as  *)
(* required_volume_count charged before the first one was written, for     *)
(* every list of sizes and every length of the archive.                    *)
THEOREM VolumesArePlanned == Spec => []VolumesMatchPlan
<1>1. Init => DataInv /\ VolumeInv /\ VolumesMatchPlan
  BY InitVolumes
<1>2. /\ StagedInv /\ StagedInv' /\ DataInv /\ VolumeInv /\ VolumesMatchPlan
      /\ [Next]_vars
      => DataInv' /\ VolumeInv' /\ VolumesMatchPlan'
  BY NextData, NextVolumes
<1> QED
  BY <1>1, <1>2, StagedInvariance, PTL DEF Spec

-----------------------------------------------------------------------------
(***************************************************************************)
(* Cancellation.                                                           *)
(***************************************************************************)

(* A copy that met cancellation is running, has failed or has returned an  *)
(* error.                                                                  *)
Doomed ==
  /\ cancelled
  /\ Copying \/ (pc = "cleanup" /\ outcome # "ok") \/ (pc = "returned" /\ res # "ok")

(* Nothing saves it any more. *)
LEMMA DoomedStays == StagedInv /\ Doomed /\ [Next]_vars => Doomed'
<1> SUFFICES ASSUME StagedInv, Doomed, [Next]_vars PROVE Doomed'
  OBVIOUS
<1> USE DEF spoolVars, fillVars, copyVars
<1>1. cancelled /\ pc \in {"copy", "plan", "next", "fill", "cleanup", "returned"}
  BY DEF Doomed, Copying
<1>2. CASE UNCHANGED vars
  BY <1>2 DEF vars, Doomed, Copying
<1>3. CASE OutputFails
  BY <1>1, <1>3 DEF OutputFails, Doomed
<1>4. CASE Cleanup
  <2>1. pc = "cleanup" /\ pc' = "returned" /\ outcome # "ok" /\ UNCHANGED cancelled
    BY <1>4 DEF Cleanup, Doomed, Copying
  <2>2. res' # "ok"
    BY <1>4, <2>1 DEF Cleanup
  <2> QED
    BY <1>1, <2>1, <2>2 DEF Doomed
<1>5. \A n \in 1 .. MaxRun : ~BeginBody(n) /\ ~BeginHeader(n) /\ ~PutFile(n)
  BY <1>1 DEF BeginBody, BeginHeader, PutFile
<1>6. /\ ~Cancel /\ ~NewSpool /\ ~NewSpoolFails /\ ~BeginBlank /\ ~BeginSignature
      /\ ~Built /\ ~BuildFails
  BY <1>1 DEF Cancel, NewSpool, NewSpoolFails, BeginBlank, BeginSignature, Built, BuildFails
<1>7. /\ ~CheckTemporary /\ ~NoRoll /\ ~RollRefused /\ ~RollFails /\ ~Roll /\ ~PutMemory
      /\ ~PutFails
  BY <1>1 DEF CheckTemporary, NoRoll, RollRefused, RollFails, Roll, PutMemory, PutFails
<1>8. /\ ~CopyUnit /\ ~CopyEnds /\ ~PlanVolumes /\ ~NextVolume /\ ~NoMoreVolumes
      /\ ~FillUnit /\ ~CloseVolume
  BY <1>1 DEF CopyUnit, CopyEnds, PlanVolumes, NextVolume, NoMoreVolumes, FillUnit,
              CloseVolume, EmitUnit
<1> QED
  BY <1>2, <1>3, <1>4, <1>5, <1>6, <1>7, <1>8 DEF Next, Step

(* The monitored copy never turns a cancellation it met into success.      *)
THEOREM CancelledCopiesFail == Spec => CancelledCopyFails
<1>1. Copying /\ cancelled => Doomed
  BY DEF Doomed
<1>2. StagedInv /\ Doomed => res # "ok"
  BY DEF Doomed, StagedInv, CopyInv, Copying
<1>3. Spec => [](Copying /\ cancelled => [](res # "ok"))
  BY <1>1, <1>2, DoomedStays, StagedInvariance, PTL DEF Spec
<1> QED
  BY <1>3 DEF CancelledCopyFails

-----------------------------------------------------------------------------
(***************************************************************************)
(* The refinement.                                                         *)
(***************************************************************************)

(* The abstract file is the spool's contents. *)
USE DEF SO!outputVars

(* An empty spool is an empty file. *)
LEMMA InitRefines == Init => SO!Init
BY DEF Init, SO!Init, NoBytes

(* What a seek is to the abstract file. *)
LEMMA SeekRefines ==
  ASSUME StagedInv, NEW p \in Nat, SeekTo(p), pc = "build" \/ pc = "plan",
         UNCHANGED <<inner, out, res>>
  PROVE  SO!Seek
<1>1. out = <<>> /\ res = "none"
  BY DEF StagedInv, CopyInv
<1> QED
  BY <1>1, SeekType DEF SO!Seek, StagedInv, TypeOK

(* Every step is a step of the abstract file or leaves it alone: moving    *)
(* from memory to a file is invisible.                                     *)
LEMMA NextRefines == StagedInv /\ [Next]_vars => [SO!Next]_(SO!outputVars)
<1> SUFFICES ASSUME StagedInv, [Next]_vars PROVE [SO!Next]_(SO!outputVars)
  OBVIOUS
<1> USE DEF spoolVars, fillVars, copyVars
<1>1. CASE UNCHANGED vars
  BY <1>1 DEF vars
<1>2. CASE Cancel
  BY <1>2 DEF Cancel
<1>3. CASE NewSpool
  BY <1>3 DEF NewSpool, StagedInv, SpoolInv, NoBytes
<1>4. CASE NewSpoolFails
  BY <1>4 DEF NewSpoolFails, StagedInv, CopyInv, SO!Next, SO!Return
<1>5. CASE BeginBlank
  BY <1>5, SeekRefines DEF BeginBlank, WriteAll, SO!Next
<1>6. ASSUME NEW n \in 1 .. MaxRun, BeginBody(n) PROVE SO!Next
  <2>1. Spool.pos \in Nat
    BY DEF StagedInv, TypeOK, Bytes, Spool
  <2> QED
    BY <1>6, <2>1, SeekRefines DEF BeginBody, WriteAll, SO!Next
<1>7. ASSUME NEW n \in 1 .. MaxRun, BeginHeader(n) PROVE SO!Next
  <2>1. (IF stage = "start" THEN 1 ELSE Len(Spool.data)) \in Nat
    BY DEF StagedInv, TypeOK, Bytes, Spool
  <2> QED
    BY <1>7, <2>1, SeekRefines DEF BeginHeader, WriteAll, SO!Next
<1>8. CASE BeginSignature
  BY <1>8, SeekRefines DEF BeginSignature, WriteAll, SO!Next
<1>9. CASE Built
  BY <1>9, SeekRefines DEF Built, SO!Next
<1>10. CASE BuildFails
  BY <1>10 DEF BuildFails
<1>11. CASE CheckTemporary
  BY <1>11 DEF CheckTemporary, WriteError, GoOn, SO!Next, SO!WriteFails
<1>12. CASE NoRoll
  BY <1>12 DEF NoRoll, GoOn
<1>13. CASE RollRefused
  BY <1>13 DEF RollRefused, WriteError, SO!Next, SO!WriteFails
<1>14. CASE RollFails
  BY <1>14 DEF RollFails, WriteError, SO!Next, SO!WriteFails
<1>15. CASE Roll
  BY <1>15 DEF Roll, MustRoll, WriteError, GoOn, Migrated, SO!Next, SO!WriteFails
<1>16. CASE PutMemory
  <2>1. CASE Over(opt.retained, Resized)
    BY <1>16, <2>1 DEF PutMemory, WriteError, SO!Next, SO!WriteFails
  <2>2. CASE ~Over(opt.retained, Resized)
    <3>0. /\ mem.data \in Seq(Nat) /\ mem.pos \in Nat /\ buf.value \in Nat
          /\ buf.left \in Nat /\ buf.left > 0
      BY <1>16 DEF PutMemory, StagedInv, TypeOK, Bytes, SpoolInv
    <3>1. /\ inner = "memory" /\ inner' = "memory" /\ pc = "put" /\ pc' \in {"check", "build"}
          /\ mem' = StoredAt(mem, buf.left) /\ UNCHANGED <<out, res>>
      BY <1>16, <2>2 DEF PutMemory, Stored
    <3>2. /\ SO!WriteAt(mem.data, mem.pos, buf.value, buf.left)[mem.pos + 1] = buf.value
          /\ Len(SO!WriteAt(mem.data, mem.pos, buf.value, buf.left)) >= mem.pos + buf.left
      BY <3>0, WriteAtSeq DEF SO!Larger
    <3>3. /\ mem'.data = SO!WriteAt(mem.data, mem.pos, buf.value, buf.left)
          /\ mem'.pos = mem.pos + buf.left /\ mem'.pos - mem.pos = buf.left
      BY <3>0, <3>1 DEF StoredAt
    <3> QED
      BY <3>0, <3>1, <3>2, <3>3 DEF SO!Next, SO!Write
  <2> QED
    BY <2>1, <2>2
<1>17. ASSUME NEW n \in 1 .. MaxRun, PutFile(n) PROVE SO!Next
  <2>0. /\ file.data \in Seq(Nat) /\ file.pos \in Nat /\ buf.value \in Nat
        /\ n \in Nat /\ n > 0
    BY <1>17 DEF StagedInv, TypeOK, Bytes
  <2>1. /\ inner = "file" /\ inner' = "file" /\ pc = "put" /\ pc' \in {"check", "build"}
        /\ file' = StoredAt(file, n) /\ UNCHANGED <<out, res>>
    BY <1>17 DEF PutFile, Stored, WriteError
  <2>2. /\ SO!WriteAt(file.data, file.pos, buf.value, n)[file.pos + 1] = buf.value
        /\ Len(SO!WriteAt(file.data, file.pos, buf.value, n)) >= file.pos + n
    BY <2>0, WriteAtSeq DEF SO!Larger
  <2>3. /\ file'.data = SO!WriteAt(file.data, file.pos, buf.value, n)
        /\ file'.pos = file.pos + n /\ file'.pos - file.pos = n
    BY <2>0, <2>1 DEF StoredAt
  <2> QED
    BY <2>0, <2>1, <2>2, <2>3 DEF SO!Next, SO!Write
<1>18. CASE PutFails
  BY <1>18 DEF PutFails, WriteError, SO!Next, SO!WriteFails
<1>19. ASSUME EmitUnit, pc \in {"copy", "next", "fill"}, pc' \in {"copy", "fill"} PROVE SO!Next
  <2>1. res = "none" /\ UNCHANGED <<inner, res>>
    BY <1>19 DEF StagedInv, CopyInv, EmitUnit
  <2>2. Spool.data \in Seq(Nat) /\ Spool.pos \in Nat /\ Spool.pos < Len(Spool.data)
    BY <1>19 DEF StagedInv, TypeOK, Bytes, Spool, CopyInv, Copying, EmitUnit, EndOfSpool
  <2>3. Spool.pos + 1 \in Nat /\ SeekTo(Spool.pos + 1)
    BY <1>19, <2>2 DEF EmitUnit
  <2>4. Spool'.data = Spool.data /\ Spool'.pos = Spool.pos + 1
    BY <2>1, <2>3, SeekType DEF StagedInv, TypeOK, Spool
  <2>5. out' = Append(out, Spool.data[Spool.pos + 1])
    BY <1>19 DEF EmitUnit
  <2> QED
    BY <1>19, <2>1, <2>2, <2>4, <2>5 DEF SO!Next, SO!Emit, Spool
<1>20. CASE CopyUnit
  BY <1>19, <1>20 DEF CopyUnit
<1>21. CASE NextVolume
  BY <1>19, <1>21 DEF NextVolume
<1>22. CASE FillUnit
  BY <1>19, <1>22 DEF FillUnit
<1>23. CASE CopyEnds
  BY <1>23 DEF CopyEnds, Succeed
<1>24. CASE NoMoreVolumes
  BY <1>24 DEF NoMoreVolumes, Succeed
<1>25. CASE PlanVolumes
  BY <1>25, SeekRefines DEF PlanVolumes, SO!Next
<1>26. CASE CloseVolume
  BY <1>26 DEF CloseVolume, Succeed
<1>27. CASE OutputFails
  BY <1>27 DEF OutputFails
<1>28. CASE Cleanup
  <2>1. res = "none" /\ outcome \in {"ok", "err"} /\ (outcome = "ok" => out = Spool.data)
    BY <1>28 DEF Cleanup, StagedInv, CopyInv, TypeOK
  <2>2. res' \in {"ok", "err", "limit"} /\ (res' = "ok" => outcome = "ok")
    BY <1>28, <2>1 DEF Cleanup
  <2>3. UNCHANGED <<inner, mem, file, out>> /\ pc = "cleanup" /\ pc' = "returned"
    BY <1>28 DEF Cleanup
  <2> QED
    BY <2>1, <2>2, <2>3 DEF SO!Next, SO!Return, Spool
<1> QED
  BY <1>1, <1>2, <1>3, <1>4, <1>5, <1>6, <1>7, <1>8, <1>9, <1>10, <1>11, <1>12, <1>13, <1>14,
     <1>15, <1>16, <1>17, <1>18, <1>20, <1>21, <1>22, <1>23, <1>24, <1>25, <1>26, <1>27, <1>28
  DEF Next, Step

(* Staging implements one seekable file that is copied out in order, and   *)
(* reports success only for a whole copy.                                  *)
THEOREM StagingRefines == Spec => ImplementsSeekableOutput
<1>1. Spec => SO!Init /\ [][SO!Next]_(SO!outputVars)
  BY InitRefines, NextRefines, StagedInvariance, PTL DEF Spec
<1> QED
  BY <1>1 DEF ImplementsSeekableOutput, SO!Spec
=============================================================================

--------------------------- MODULE SeekableOutput ---------------------------
(***************************************************************************)
(* What staging an archive promises: the archive is built in a file that   *)
(* can be sought, `data' with a read and write position `pos', and is then *)
(* copied out from its start.  Success is reported only for a whole copy.  *)
(* Where the bytes are kept, in memory or on disk, does not show here.     *)
(***************************************************************************)
EXTENDS Integers, Sequences

VARIABLES
  data, pos,
  writing,      \* a write call is running
  out, res

outputVars == <<data, pos, writing, out, res>>

Larger(a, b) == IF a >= b THEN a ELSE b

(* d after n units of value u are stored at offset p, past its end or not. *)
WriteAt(d, p, u, n) ==
  [i \in 1 .. Larger(Len(d), p + n) |->
     IF p < i /\ i <= p + n THEN u ELSE IF i <= Len(d) THEN d[i] ELSE 0]

Init == data = <<>> /\ pos = 0 /\ writing = FALSE /\ out = <<>> /\ res = "none"

(* Positioning, for a write call that begins or for the copy. *)
Seek ==
  /\ ~writing /\ out = <<>> /\ res = "none"
  /\ pos' \in Nat /\ writing' \in BOOLEAN
  /\ UNCHANGED <<data, out, res>>

(* A run of equal units is stored at the position; the call may go on. *)
Write ==
  /\ writing
  /\ pos' \in Nat /\ pos' > pos /\ Len(data') >= pos'
  /\ data' = WriteAt(data, pos, data'[pos + 1], pos' - pos)
  /\ writing' \in BOOLEAN
  /\ UNCHANGED <<out, res>>

WriteFails ==
  /\ writing /\ writing' = FALSE
  /\ UNCHANGED <<data, pos, out, res>>

(* The next unit is copied to the output. *)
Emit ==
  /\ ~writing /\ res = "none" /\ pos < Len(data)
  /\ out' = Append(out, data[pos + 1])
  /\ pos' = pos + 1
  /\ UNCHANGED <<data, writing, res>>

Return ==
  /\ ~writing /\ res = "none"
  /\ res' \in {"ok", "err", "limit"}
  /\ res' = "ok" => out = data
  /\ UNCHANGED <<data, pos, writing, out>>

Next == Seek \/ Write \/ WriteFails \/ Emit \/ Return

Spec == Init /\ [][Next]_outputVars
=============================================================================

---------------------------- MODULE ExtractCommand ----------------------------
(***************************************************************************)
(* The x, e and t commands and Archive::extract_all: selected entries are  *)
(* written to a directory that holds other files already, with a question  *)
(* for each collision, while other programs use the directory too; or they *)
(* are only decoded, folder by folder.                                     *)
(*                                                                         *)
(* A path is a sequence of names.  A file's data names the entry it came   *)
(* from (0 is a file of somebody else) and says whether it is complete.    *)
(***************************************************************************)
EXTENDS Integers, Sequences

CONSTANTS
  Archives,   \* archives tried: sequences of entries
  Paths,      \* paths in the destination
  Trees,      \* contents of the destination tried: path -> node
  Commands,   \* [cmd, pick, mode, yes, tty]
  Checked,    \* folders that have a checksum of their own
  BadEnd,     \* folders that hold more than their entries, or whose checksum is wrong
  MaxTouches  \* bound on what other programs do

(* An entry: its kind, its path or Unsafe, its folder or 0, and whether    *)
(* its own data can be read and is what its checksum says.                 *)
Unsafe == <<>>
Entry(kind, path, folder, sound) ==
  [kind |-> kind, path |-> path, folder |-> folder, sound |-> sound]

Missing == [kind |-> "missing", by |-> 0, full |-> TRUE]
Directory == [kind |-> "dir", by |-> 0, full |-> TRUE]
Link == [kind |-> "link", by |-> 0, full |-> TRUE]
File(e, full) == [kind |-> "file", by |-> e, full |-> full]
Parents(p) == {SubSeq(p, 1, n) : n \in 1 .. Len(p) - 1}

(* Paths are closed under parents and cover the entries, with and without  *)
(* their directories; what is there already is in directories.             *)
ASSUME PathAssumption ==
  /\ Paths \subseteq Seq(STRING) /\ \A p \in Paths : Parents(p) \subseteq Paths
  /\ \A a \in Archives : \A e \in DOMAIN a : LET path == a[e].path IN
       path # Unsafe => path \in Paths /\ <<path[Len(path)]>> \in Paths
(* The entries of a folder follow one another. *)
ASSUME ArchiveAssumption ==
  \A a \in Archives :
    /\ DOMAIN a \subseteq Nat \ {0}
    /\ \A d, e \in DOMAIN a : d < e /\ a[d].folder # 0 /\ a[e].folder # 0
                               => a[d].folder <= a[e].folder
ASSUME TreeAssumption ==
  \A t \in Trees :
    /\ t \in [Paths -> {Missing, Directory, Link, File(0, TRUE)}]
    /\ \A p \in Paths : t[p] # Missing => \A q \in Parents(p) : t[q] = Directory

VARIABLES
  archive, command, tree,
  todo,      \* entries still to be visited, which are visited in order
  target,    \* path and entry being written
  mode,      \* overwrite_mode, which answers may change
  code,      \* exit code so far
  last,      \* entry read last from the folder the session has open, 0 if none is
  failed,    \* test: folders that failed
  pc, touches,
  consent,   \* history: paths the user agreed to lose
  lost       \* history: paths from which a file of somebody else was removed

inputs == <<archive, command>>
vars == <<inputs, tree, todo, target, mode, code, last, failed, pc, touches, consent, lost>>

NoTarget == [path |-> <<>>, entry |-> 0]
OK == 0
Warning == 1
Fatal == 2

(* EntryPatterns: no pattern at all selects everything. *)
Selected == {e \in DOMAIN archive : command.pick = {} \/ e \in command.pick}

(* extract_all makes the directories first. *)
IsDir(e) == archive[e].kind = "Directory"
Earlier(d, e) == IF command.cmd = "all" /\ IsDir(d) # IsDir(e) THEN IsDir(d) ELSE d < e
First(e) == e \in todo /\ \A d \in todo \ {e} : Earlier(e, d)

Init ==
  /\ archive \in Archives /\ command \in Commands /\ tree \in Trees
  /\ command.pick \subseteq DOMAIN archive \cup {0}
  /\ todo = {e \in Selected : command.cmd = "t" => archive[e].folder # 0}
  /\ target = NoTarget /\ mode = command.mode /\ code = OK
  /\ last = 0 /\ failed = {}
  /\ pc = IF command.cmd = "t" THEN "test" ELSE "next"
  /\ touches = 0
  /\ consent = IF command.cmd = "all" \/ mode = "Overwrite" \/ (mode = "Ask" /\ command.yes)
               THEN Paths ELSE {}
  /\ lost = {}

-----------------------------------------------------------------------------
(***************************************************************************)
(* The file system.                                                        *)
(***************************************************************************)
Reachable(p) == \A q \in Parents(p) : tree[q].kind = "dir"

(* symlink_metadata: an error is taken for a path that does not exist. *)
At(p) == IF Reachable(p) THEN tree[p].kind ELSE "missing"

(* create_dir_all, when no file and no link leading elsewhere is on the way. *)
CanMakeDirs(ps) == \A q \in ps : tree[q].kind \in {"missing", "dir"}
WithDirs(ps) == [q \in Paths |-> IF q \in ps THEN Directory ELSE tree[q]]

(* Another program makes or removes a file. *)
Touch(p) ==
  /\ touches < MaxTouches /\ pc # "done" /\ Reachable(p)
  /\ tree[p].kind \in {"missing", "file"}
  /\ tree' = [tree EXCEPT ![p] = IF @.kind = "file" THEN Missing ELSE File(0, TRUE)]
  /\ touches' = touches + 1
  /\ UNCHANGED <<inputs, todo, target, mode, code, last, failed, pc, consent, lost>>

-----------------------------------------------------------------------------
(***************************************************************************)
(* The read session, which has one folder open and reads it in order.      *)
(***************************************************************************)
FolderOf(e) == archive[e].folder
Members(f) == {d \in DOMAIN archive : FolderOf(d) = f}
Open == IF last = 0 THEN 0 ELSE FolderOf(last)

(* skip_to decodes and checks what is before an entry in its folder. *)
Readable(e) == \A d \in Members(FolderOf(e)) : d <= e => archive[d].sound

(* ActiveFolder::finish: what nobody asked for at the end of a folder is   *)
(* read as well, and the end checked, unless the folder has no checksum.   *)
FinishFails ==
  /\ Open # 0
  /\ LET unread == {d \in Members(Open) : d > last}
     IN /\ command.cmd = "all" \/ Open \in Checked \/ unread = {}
        /\ Open \in BadEnd \/ \E d \in unread : ~archive[d].sound

(* A folder is finished when an entry of another one is read. *)
LeavesBadFolder(e) == FolderOf(e) \notin {0, Open} /\ FinishFails

-----------------------------------------------------------------------------
(***************************************************************************)
(* extract_archive_with_ui.                                                *)
(***************************************************************************)
Flat == command.cmd = "e"
PathOf(e) ==
  LET path == archive[e].path IN IF Flat THEN <<path[Len(path)]>> ELSE path

(* ExtractionTarget::from_entry. *)
Skipped(e) ==
  \/ archive[e].kind = "Anti"
  \/ Flat /\ archive[e].kind = "Directory" /\ archive[e].path # Unsafe

End(result) == pc' = "done" /\ code' = result
Done(e) == todo' = todo \ {e} /\ pc' = "next"

NothingToDo ==
  /\ pc = "next" /\ command.pick # {} /\ Selected = {}
  /\ End(Warning)
  /\ UNCHANGED <<inputs, tree, todo, target, mode, last, failed, touches, consent, lost>>

PassOver(e) ==
  /\ pc = "next" /\ First(e) /\ Skipped(e)
  /\ Done(e)
  /\ UNCHANGED <<inputs, tree, target, mode, code, last, failed, touches, consent, lost>>

(* extract_all has an entry decoded before it looks at the path. *)
Begin(e) ==
  /\ pc = "next" /\ First(e) /\ ~Skipped(e)
  /\ IF archive[e].path = Unsafe \/ (command.cmd = "all" /\ LeavesBadFolder(e))
       THEN End(Fatal) /\ UNCHANGED target
       ELSE /\ target' = [path |-> PathOf(e), entry |-> e]
            /\ pc' = IF command.cmd = "all" THEN "write" ELSE "check"
            /\ UNCHANGED code
  /\ UNCHANGED <<inputs, tree, todo, mode, last, failed, touches, consent, lost>>

IsDirectory == IsDir(target.entry)

(* ExtractionTarget::prepare, without a collision *)
CheckFree ==
  /\ pc = "check"
  /\ At(target.path) = "missing" \/ (IsDirectory /\ At(target.path) = "dir")
  /\ pc' = "write"
  /\ UNCHANGED <<inputs, tree, todo, target, mode, code, last, failed, touches, consent, lost>>

(* Faulty variant: a file that cannot be written is skipped silently. *)
CheckDirectoryQuietly ==
  /\ pc = "check" /\ ~IsDirectory /\ At(target.path) = "dir"
  /\ Done(target.entry)
  /\ UNCHANGED <<inputs, tree, target, mode, code, last, failed, touches, consent, lost>>

(* and with a directory in the place of a file. *)
CheckDirectory ==
  /\ pc = "check" /\ ~IsDirectory /\ At(target.path) = "dir"
  /\ Done(target.entry) /\ code' = Warning
  /\ UNCHANGED <<inputs, tree, target, mode, last, failed, touches, consent, lost>>

Collides == pc = "check" /\ At(target.path) \notin {"missing", "dir"}

Overwrite == pc' = "remove" /\ UNCHANGED <<todo, code>>
Skip(warn) == Done(target.entry) /\ code' = IF warn THEN Warning ELSE code

(* decide_overwrite, without a question *)
DecideByMode ==
  /\ Collides
  /\ \/ mode = "Overwrite" /\ Overwrite
     \/ mode = "SkipExisting" /\ Skip(FALSE)
     \/ mode = "Ask" /\ command.yes /\ Overwrite
     \/ mode = "Ask" /\ ~command.yes /\ ~command.tty /\ Skip(TRUE)
  /\ UNCHANGED <<inputs, tree, target, mode, last, failed, touches, consent, lost>>

Asks == Collides /\ mode = "Ask" /\ ~command.yes /\ command.tty

AnswerYes ==
  /\ Asks /\ Overwrite
  /\ consent' = consent \cup {target.path}
  /\ UNCHANGED <<inputs, tree, target, mode, last, failed, touches, lost>>

AnswerAll ==
  /\ Asks /\ Overwrite
  /\ mode' = "Overwrite" /\ consent' = Paths
  /\ UNCHANGED <<inputs, tree, target, last, failed, touches, lost>>

AnswerNo ==
  /\ Asks /\ Skip(TRUE)
  /\ UNCHANGED <<inputs, tree, target, mode, last, failed, touches, consent, lost>>

AnswerSkipAll ==
  /\ Asks /\ Skip(TRUE)
  /\ mode' = "SkipExisting"
  /\ UNCHANGED <<inputs, tree, target, last, failed, touches, consent, lost>>

AnswerQuit ==
  /\ Asks /\ code' = Warning /\ todo' = {} /\ pc' = "next"
  /\ UNCHANGED <<inputs, tree, target, mode, last, failed, touches, consent, lost>>

Removed == [tree EXCEPT ![target.path] = Missing]
NoteLoss == lost' = IF tree[target.path].by = 0 /\ tree[target.path].kind # "missing"
                    THEN lost \cup {target.path} ELSE lost

(* remove_file, which another program may have made impossible. *)
RemoveFile ==
  /\ pc = "remove"
  /\ IF At(target.path) \in {"file", "link"}
       THEN tree' = Removed /\ NoteLoss /\ pc' = "write" /\ UNCHANGED code
       ELSE End(Fatal) /\ UNCHANGED <<tree, lost>>
  /\ UNCHANGED <<inputs, todo, target, mode, last, failed, touches, consent>>

WriteDirectory ==
  /\ pc = "write" /\ IsDirectory
  /\ LET ps == Parents(target.path) \cup {target.path}
     IN IF CanMakeDirs(ps) THEN tree' = WithDirs(ps) /\ Done(target.entry) /\ UNCHANGED code
        ELSE End(Fatal) /\ UNCHANGED <<tree, todo>>
  /\ UNCHANGED <<inputs, target, mode, last, failed, touches, consent, lost>>

MakeParents ==
  /\ pc = "write" /\ ~IsDirectory
  /\ IF CanMakeDirs(Parents(target.path))
       THEN /\ tree' = WithDirs(Parents(target.path))
            /\ pc' = IF command.cmd = "all" THEN "replace" ELSE "create"
            /\ UNCHANGED code
       ELSE End(Fatal) /\ UNCHANGED tree
  /\ UNCHANGED <<inputs, todo, target, mode, last, failed, touches, consent, lost>>

(* create_file of the library removes what is there. *)
Replace ==
  /\ pc = "replace"
  /\ IF At(target.path) = "dir" THEN End(Fatal) /\ UNCHANGED <<tree, lost>>
     ELSE tree' = Removed /\ NoteLoss /\ pc' = "create" /\ UNCHANGED code
  /\ UNCHANGED <<inputs, todo, target, mode, last, failed, touches, consent>>

Put(full) == [tree EXCEPT ![target.path] = File(target.entry, full)]

(* Faulty variant: the file is opened with truncation. *)
CreateTruncates ==
  /\ pc = "create"
  /\ IF Reachable(target.path) /\ At(target.path) # "dir"
       THEN tree' = Put(FALSE) /\ NoteLoss /\ pc' = "copy" /\ UNCHANGED code
       ELSE End(Fatal) /\ UNCHANGED <<tree, lost>>
  /\ UNCHANGED <<inputs, todo, target, mode, last, failed, touches, consent>>

(* create_new fails on whatever is there. *)
Create ==
  /\ pc = "create"
  /\ IF Reachable(target.path) /\ At(target.path) = "missing"
       THEN tree' = Put(FALSE) /\ pc' = "copy" /\ UNCHANGED code
       ELSE End(Fatal) /\ UNCHANGED tree
  /\ UNCHANGED <<inputs, todo, target, mode, last, failed, touches, consent, lost>>

(* Faulty variant: an entry that does not decode is only worth a warning. *)
CopyWarns ==
  /\ pc = "copy" /\ Done(target.entry)
  /\ LET e == target.entry
         good == FolderOf(e) = 0 \/ Readable(e)
     IN /\ tree' = IF good /\ tree[target.path] = File(e, FALSE) THEN Put(TRUE) ELSE tree
        /\ code' = IF good THEN code ELSE Warning
        /\ last' = IF FolderOf(e) = 0 THEN last ELSE IF good THEN e ELSE 0
  /\ UNCHANGED <<inputs, target, mode, failed, touches, consent, lost>>

(* extract_to_writer, for entries with data; the handle outlives the path. *)
Copy ==
  /\ pc = "copy"
  /\ LET e == target.entry
         finished == IF tree[target.path] = File(e, FALSE) THEN Put(TRUE) ELSE tree
         fails == ~Readable(e) \/ LeavesBadFolder(e)
     IN \/ /\ FolderOf(e) = 0
           /\ tree' = finished /\ Done(e) /\ UNCHANGED <<code, last>>
        \/ /\ FolderOf(e) # 0 /\ ~fails
           /\ tree' = finished /\ last' = e /\ Done(e) /\ UNCHANGED code
        \/ /\ FolderOf(e) # 0 /\ fails
           /\ End(Fatal) /\ UNCHANGED <<tree, todo, last>>
  /\ UNCHANGED <<inputs, target, mode, failed, touches, consent, lost>>

(* The terminal, the destination or the archive itself fails: the question *)
(* is not answered, a call of the file system returns an error, or the     *)
(* data is read or written only in part.                                   *)
IoFails ==
  /\ \/ Asks
     \/ pc \in {"remove", "write", "replace", "create"}
     \/ pc = "copy" /\ FolderOf(target.entry) # 0
  /\ End(Fatal)
  /\ UNCHANGED <<inputs, tree, todo, target, mode, last, failed, touches, consent, lost>>

(* Extraction::finish. *)
Finish ==
  /\ pc = "next" /\ todo = {} /\ (command.pick = {} \/ Selected # {})
  /\ End(IF FinishFails THEN Fatal ELSE code)
  /\ UNCHANGED <<inputs, tree, todo, target, mode, last, failed, touches, consent, lost>>

-----------------------------------------------------------------------------
(***************************************************************************)
(* test_selected_folders: a folder that fails does not stop the others.    *)
(***************************************************************************)

Tests(e) == pc = "test" /\ First(e) /\ Open \in {0, FolderOf(e)}
OthersThan(f) == {d \in todo : FolderOf(d) # f}

(* Faulty variant: the verdict is that of the last entry. *)
TestEntryForgets(e) ==
  /\ Tests(e)
  /\ IF Readable(e)
       THEN last' = e /\ todo' = todo \ {e} /\ code' = OK /\ UNCHANGED failed
       ELSE /\ failed' = failed \cup {FolderOf(e)} /\ code' = Warning
            /\ last' = 0 /\ todo' = OthersThan(FolderOf(e))
  /\ UNCHANGED <<inputs, tree, target, mode, pc, touches, consent, lost>>

TestEntry(e) ==
  /\ Tests(e)
  /\ IF Readable(e)
       THEN last' = e /\ todo' = todo \ {e} /\ UNCHANGED <<code, failed>>
       ELSE /\ failed' = failed \cup {FolderOf(e)} /\ code' = Warning
            /\ last' = 0 /\ todo' = OthersThan(FolderOf(e))
  /\ UNCHANGED <<inputs, tree, target, mode, pc, touches, consent, lost>>

(* finish_folder after the last entry of a group. *)
TestFolder ==
  /\ pc = "test" /\ Open # 0 /\ todo = OthersThan(Open)
  /\ last' = 0
  /\ IF FinishFails THEN failed' = failed \cup {Open} /\ code' = Warning
                    ELSE UNCHANGED <<failed, code>>
  /\ UNCHANGED <<inputs, tree, todo, target, mode, pc, touches, consent, lost>>

EndTest ==
  /\ pc = "test" /\ todo = {} /\ Open = 0
  /\ End(IF command.pick # {} /\ Selected = {} THEN Warning ELSE code)
  /\ UNCHANGED <<inputs, tree, todo, target, mode, last, failed, touches, consent, lost>>

-----------------------------------------------------------------------------
Decide ==
  \/ CheckFree \/ CheckDirectory \/ DecideByMode
  \/ AnswerYes \/ AnswerAll \/ AnswerNo \/ AnswerSkipAll \/ AnswerQuit

Next ==
  \/ NothingToDo \/ Decide \/ RemoveFile
  \/ \E e \in todo : PassOver(e) \/ Begin(e) \/ TestEntry(e)
  \/ WriteDirectory \/ MakeParents \/ Replace \/ Create \/ Copy \/ IoFails \/ Finish
  \/ TestFolder \/ EndTest
  \/ \E p \in Paths : Touch(p)

Spec == Init /\ [][Next]_vars
-----------------------------------------------------------------------------
(***************************************************************************)
(* Properties.                                                             *)
(***************************************************************************)

(* A file of somebody else is lost only where the switches or an answer    *)
(* allow it, also when it appears between the check and the write.         *)
LossesAreAgreedTo == lost \subseteq consent

(* A file cut short means that the command failed, or is still at it. *)
PartialFilesAreReported ==
  pc = "done" /\ code # Fatal =>
    \A p \in Paths : tree[p].kind = "file" => tree[p].full

(* Entries of the command that go to a path. *)
GoesTo(p) == {e \in Selected : ~Skipped(e) /\ PathOf(e) = p}
Newest(S) == CHOOSE e \in S : \A d \in S : d <= e

(* Success without -aos means that each path holds what the last selected  *)
(* entry for it holds.                                                     *)
SuccessIsComplete ==
  pc = "done" /\ code = OK /\ touches = 0 /\ command.cmd \in {"x", "e", "all"}
    /\ command.mode # "SkipExisting" =>
    \A p \in Paths : GoesTo(p) # {} =>
      IF \E e \in GoesTo(p) : IsDir(e)
        THEN tree[p].kind = "dir"
        ELSE tree[p] = File(Newest(GoesTo(p)), TRUE)

(* What a test of the selected entries vouches for in a folder: all of it  *)
(* if it has a checksum, and otherwise up to the last entry selected.      *)
Covered(f) ==
  {d \in Members(f) : f \in Checked \/ \E e \in Selected : FolderOf(e) = f /\ d <= e}
Faulty(f) ==
  \/ \E d \in Covered(f) : ~archive[d].sound
  \/ Covered(f) = Members(f) /\ f \in BadEnd

(* A test names the folders in which something it vouches for is wrong, no *)
(* others, and reports success if and only if there are none.              *)
TestVerdictIsRight ==
  pc = "done" /\ command.cmd = "t" /\ Selected # {} =>
    LET bad == {f \in {FolderOf(e) : e \in Selected} \ {0} : Faulty(f)}
    IN failed = bad /\ (code = OK <=> bad = {})
-----------------------------------------------------------------------------
(***************************************************************************)
(* The inductive invariant.                                                *)
(***************************************************************************)
Node == [kind : {"missing", "dir", "link", "file"}, by : Nat, full : BOOLEAN]
Filling == {"write", "replace", "create", "copy"}
Working == {"check", "remove"} \cup Filling

TypeOK ==
  /\ archive \in Archives /\ tree \in [Paths -> Node]
  /\ todo \subseteq Selected /\ touches \in Nat
  /\ pc \in {"next", "test", "done"} \cup Working

(* Where the command is, and the entry it is at. *)
StageInv ==
  /\ pc = "test" => command.cmd = "t"
  /\ command.cmd = "t" => pc \in {"test", "done"}
  /\ command.cmd = "all" => pc \notin {"check", "remove"}
  /\ pc = "replace" => command.cmd = "all"
  /\ pc \in Filling \ {"write"} => ~IsDirectory
  /\ pc \in Working =>
       /\ First(target.entry) /\ ~Skipped(target.entry)
       /\ target.path = PathOf(target.entry) /\ target.path \in Paths

(* What exists is in a directory. *)
TreeInv == \A p \in Paths : tree[p].kind # "missing" => Reachable(p)

ConsentInv ==
  /\ lost \subseteq consent /\ consent \subseteq Paths
  /\ command.cmd = "all" \/ mode = "Overwrite" \/ (mode = "Ask" /\ command.yes) => consent = Paths
  /\ pc = "remove" => target.path \in consent

PartialInv ==
  \A p \in Paths : tree[p].kind = "file" /\ ~tree[p].full =>
    \/ pc = "done" /\ code = Fatal
    \/ pc = "copy" /\ p = target.path /\ tree[p] = File(target.entry, FALSE)

(* Without other programs, what was visited is in place as long as all went well. *)
Visited(p) == {e \in Selected \ todo : ~Skipped(e) /\ PathOf(e) = p}
Placed(p) ==
  Visited(p) # {} =>
    IF \E e \in Visited(p) : IsDir(e) THEN tree[p].kind = "dir"
    ELSE tree[p] = File(Newest(Visited(p)), TRUE) \/ (pc \in Filling /\ p = target.path)

Undisturbed ==
  /\ code = OK /\ touches = 0
  /\ command.cmd \in {"x", "e", "all"} /\ command.mode # "SkipExisting"

PlacedInv ==
  Undisturbed =>
    /\ mode # "SkipExisting"
    /\ \A d \in Selected \ todo, e \in todo : Earlier(d, e)
    /\ \A p \in Paths : Placed(p)
    /\ pc = "copy" => tree[target.path] = File(target.entry, FALSE)
    /\ pc = "done" => todo = {}

(* Every folder with an entry that was tested is open or judged, and what  *)
(* was read of an open one is sound.                                       *)
Tested == {e \in Selected : FolderOf(e) # 0}
OpenInv ==
  last # 0 =>
    /\ last \in Tested \ todo /\ Readable(last)
    /\ \A d \in Tested \ todo : FolderOf(d) = Open => d <= last
TestInv ==
  command.cmd = "t" =>
    /\ OpenInv
    /\ todo \subseteq Tested
    /\ pc = "test" \/ Selected # {} => code = IF failed = {} THEN OK ELSE Warning
    /\ \A f \in failed : Faulty(f) /\ \E e \in Tested : FolderOf(e) = f
    /\ \A e \in Tested \ todo : Faulty(FolderOf(e)) => FolderOf(e) \in failed \cup {Open}
    /\ \A d \in Tested \ todo, e \in todo : FolderOf(d) = FolderOf(e) => d < e
    /\ pc = "done" => todo = {} /\ last = 0

IInv ==
  TypeOK /\ StageInv /\ TreeInv /\ ConsentInv /\ PartialInv /\ PlacedInv /\ TestInv
=============================================================================

------------------------- MODULE ExtractCommandProofs -------------------------
(***************************************************************************)
(* Proofs about ExtractCommand, for any archives, destinations, commands   *)
(* and checksums, and any number of steps of other programs.               *)
(***************************************************************************)
EXTENDS ExtractCommand, TLAPS

(* The steps that write, read or only decide. *)
Change ==
  RemoveFile \/ WriteDirectory \/ MakeParents \/ Replace \/ Create \/ Copy
Test == (\E e \in todo : TestEntry(e)) \/ TestFolder \/ EndTest

LEMMA NextCases ==
  ASSUME [Next]_vars
  PROVE  \/ UNCHANGED vars \/ NothingToDo \/ Finish \/ IoFails
         \/ (\E e \in todo : PassOver(e) \/ Begin(e))
         \/ CheckFree \/ CheckDirectory \/ DecideByMode
         \/ AnswerYes \/ AnswerAll \/ AnswerNo \/ AnswerSkipAll \/ AnswerQuit
         \/ Change \/ Test \/ \E p \in Paths : Touch(p)
BY DEF Next, Decide, Change, Test

(* No step changes the archive or the command. *)
LEMMA InputsKept ==
  ASSUME [Next]_vars
  PROVE  UNCHANGED inputs
<1> USE DEF Next, Decide, vars
<1>1. CASE UNCHANGED vars  BY <1>1
<1>2. CASE NothingToDo  BY <1>2 DEF NothingToDo
<1>3. CASE Finish \/ IoFails  BY <1>3 DEF Finish, IoFails
<1>4. ASSUME NEW e \in todo, PassOver(e) \/ Begin(e) PROVE UNCHANGED inputs
  BY <1>4 DEF PassOver, Begin
<1>5. CASE CheckFree \/ CheckDirectory \/ DecideByMode
  BY <1>5 DEF CheckFree, CheckDirectory, DecideByMode
<1>6. CASE AnswerYes \/ AnswerAll \/ AnswerNo \/ AnswerSkipAll \/ AnswerQuit
  BY <1>6 DEF AnswerYes, AnswerAll, AnswerNo, AnswerSkipAll, AnswerQuit
<1>7. CASE Change
  BY <1>7 DEF Change, RemoveFile, WriteDirectory, MakeParents, Replace, Create, Copy
<1>8. CASE Test  BY <1>8 DEF Test, TestEntry, TestFolder, EndTest
<1>9. ASSUME NEW p \in Paths, Touch(p) PROVE UNCHANGED inputs  BY <1>9 DEF Touch
<1> QED
  BY <1>1, <1>2, <1>3, <1>4, <1>5, <1>6, <1>7, <1>8, <1>9, NextCases

LEMMA ReadingsKept ==
  ASSUME UNCHANGED inputs
  PROVE  /\ archive' = archive /\ command' = command /\ Selected' = Selected /\ Flat' = Flat
         /\ Tested' = Tested
         /\ \A e : /\ IsDir(e)' = IsDir(e) /\ (Skipped(e)' <=> Skipped(e))
                   /\ PathOf(e)' = PathOf(e) /\ FolderOf(e)' = FolderOf(e)
                   /\ (Readable(e)' <=> Readable(e)) /\ (Faulty(e)' <=> Faulty(e))
         /\ \A d, e : Earlier(d, e)' <=> Earlier(d, e)
BY DEF inputs, Selected, Flat, Tested, IsDir, Skipped, PathOf, FolderOf, Members, Readable, Covered,
   Faulty, Earlier

LEMMA TargetTypes ==
  ASSUME TypeOK, StageInv, pc \in Working
  PROVE  /\ target.entry \in Nat \ {0} /\ target.entry \in todo /\ target.entry \in DOMAIN archive
         /\ target.path \in Paths
         /\ \A full \in BOOLEAN : File(target.entry, full) \in Node
<1>1. target.entry \in todo /\ target.path \in Paths
  BY DEF StageInv, First
<1>2. target.entry \in DOMAIN archive
  BY <1>1 DEF TypeOK, Selected
<1>3. target.entry \in Nat \ {0}
  BY <1>2, ArchiveAssumption DEF TypeOK
<1> QED
  BY <1>1, <1>2, <1>3 DEF File, Node

LEMMA Nodes == Missing \in Node /\ Directory \in Node /\ Link \in Node /\ File(0, TRUE) \in Node
BY DEF Missing, Directory, Link, File, Node

-----------------------------------------------------------------------------
(***************************************************************************)
(* The test command.                                                       *)
(***************************************************************************)
LEMMA EntriesAreNumbers ==
  ASSUME TypeOK
  PROVE  Selected \subseteq Nat \ {0} /\ Tested \subseteq Selected
         /\ \A f : Members(f) \subseteq Nat \ {0}
BY ArchiveAssumption DEF TypeOK, Selected, Tested, Members

(* An entry that cannot be read makes its folder faulty. *)
LEMMA UnreadableIsFaulty ==
  ASSUME NEW e \in Tested, ~Readable(e)
  PROVE  Faulty(FolderOf(e))
<1>1. PICK d \in Members(FolderOf(e)) : d <= e /\ ~archive[d].sound
  BY DEF Readable
<1>2. d \in Covered(FolderOf(e))
  BY <1>1 DEF Covered, Tested
<1> QED
  BY <1>1, <1>2 DEF Faulty

(* Once the last of its selected entries is read, a folder is faulty if    *)
(* and only if finish fails.                                               *)
LEMMA FinishDecides ==
  ASSUME TypeOK, command.cmd = "t", Open # 0, last \in Tested, Readable(last),
         \A d \in Tested : FolderOf(d) = Open => d <= last
  PROVE  FinishFails <=> Faulty(Open)
<1> DEFINE f == Open
           read == {d \in Members(f) : d <= last}
           unread == {d \in Members(f) : d > last}
<1>0. f = FolderOf(last) /\ f # 0
  BY DEF Open
<1>1. Members(f) \subseteq Nat /\ last \in Nat /\ last \in Selected
  BY EntriesAreNumbers
<1>2. \A d \in read : archive[d].sound
  BY <1>0 DEF Readable
<1>3. \A d \in Selected : FolderOf(d) = f => d \in Nat /\ d <= last
  BY <1>0, EntriesAreNumbers DEF Tested
<1>4. Members(f) = read \cup unread /\ read \cap unread = {}
  BY <1>1
<1>5. Covered(f) = IF f \in Checked THEN Members(f) ELSE read
  <2>1. ASSUME NEW d \in Members(f)
        PROVE  (\E e \in Selected : FolderOf(e) = f /\ d <= e) <=> d <= last
    BY <1>0, <1>1, <1>3
  <2> QED
    BY <2>1 DEF Covered
<1>6. FinishFails <=> (f \in Checked \/ unread = {})
                      /\ (f \in BadEnd \/ \E d \in unread : ~archive[d].sound)
  BY <1>0 DEF FinishFails
<1>7. Faulty(f) <=> (\E d \in Covered(f) : ~archive[d].sound)
                    \/ (Covered(f) = Members(f) /\ f \in BadEnd)
  BY DEF Faulty
<1> HIDE DEF f, read, unread
<1>8. FinishFails <=> Faulty(f)
  <2>1. CASE f \in Checked
    BY <1>2, <1>4, <1>5, <1>6, <1>7, <2>1
  <2>2. CASE f \notin Checked /\ unread = {}
    BY <1>2, <1>4, <1>5, <1>6, <1>7, <2>2
  <2>3. CASE f \notin Checked /\ unread # {}
    BY <1>2, <1>4, <1>5, <1>6, <1>7, <2>3
  <2> QED
    BY <2>1, <2>2, <2>3
<1> QED
  BY <1>8 DEF f

LEMMA TestStep == TypeOK /\ StageInv /\ TestInv /\ [Next]_vars => TestInv'
<1> SUFFICES ASSUME TypeOK, StageInv, TestInv, [Next]_vars PROVE TestInv'
  OBVIOUS
<1>0. command' = command
  BY InputsKept, ReadingsKept
<1> SUFFICES ASSUME command.cmd = "t" PROVE TestInv'
  BY <1>0 DEF TestInv
<1>a. /\ archive' = archive /\ Selected' = Selected /\ Tested' = Tested
      /\ \A e : /\ FolderOf(e)' = FolderOf(e)
                /\ (Readable(e)' <=> Readable(e)) /\ (Faulty(e)' <=> Faulty(e))
  BY InputsKept, ReadingsKept
<1>b. /\ todo \subseteq Tested
      /\ pc = "test" \/ Selected # {} => code = IF failed = {} THEN OK ELSE Warning
      /\ \A f \in failed : Faulty(f) /\ \E e \in Tested : FolderOf(e) = f
      /\ \A e \in Tested \ todo : Faulty(FolderOf(e)) => FolderOf(e) \in failed \cup {Open}
      /\ \A d \in Tested \ todo, e \in todo : FolderOf(d) = FolderOf(e) => d < e
      /\ pc = "done" => todo = {} /\ last = 0
  BY DEF TestInv
<1>c. last # 0 => /\ last \in Tested \ todo /\ Readable(last)
                  /\ \A d \in Tested \ todo : FolderOf(d) = Open => d <= last
  BY DEF TestInv, OpenInv
<1>d. pc \in {"test", "done"} /\ \A e \in Tested : FolderOf(e) # 0
  BY DEF StageInv, Tested
<1>e. last' = last => Open' = Open
  BY <1>a DEF Open
<1>f. ASSUME OpenInv', todo' \subseteq Tested,
             pc' = "test" \/ Selected # {} => code' = IF failed' = {} THEN OK ELSE Warning,
             \A f \in failed' : Faulty(f) /\ \E e \in Tested : FolderOf(e) = f,
             \A e \in Tested \ todo' :
               Faulty(FolderOf(e)) => FolderOf(e) \in failed' \cup {Open'},
             \A d \in Tested \ todo', e \in todo' : FolderOf(d) = FolderOf(e) => d < e,
             pc' = "done" => todo' = {} /\ last' = 0
      PROVE  TestInv'
  BY <1>a, <1>f DEF TestInv
<1>1. CASE UNCHANGED <<todo, code, failed, last, pc>>
  <2>1. OpenInv'
    BY <1>1, <1>a, <1>c, <1>e DEF OpenInv
  <2> QED
    BY <1>1, <1>b, <1>e, <1>f, <2>1
<1>2. ASSUME NEW e \in todo, TestEntry(e) PROVE TestInv'
  <2>1. /\ pc = "test" /\ pc' = "test" /\ Open \in {0, FolderOf(e)} /\ e \in Tested
        /\ First(e)
    BY <1>2, <1>b DEF TestEntry, Tests
  <2>2. e \in Nat \ {0} /\ Tested \subseteq Nat
    BY <2>1, EntriesAreNumbers
  <2>3. \A d \in todo \ {e} : e < d
    BY <2>1 DEF First, Earlier
  <2>4. CASE Readable(e)
    <3>1. last' = e /\ todo' = todo \ {e} /\ UNCHANGED <<code, failed>>
      BY <1>2, <2>4 DEF TestEntry
    <3>2. Open' = FolderOf(e) /\ Tested \ todo' = (Tested \ todo) \cup {e}
      BY <1>a, <2>1, <2>2, <3>1 DEF Open
    <3>3. OpenInv'
      <4>1. \A d \in Tested \ todo' : FolderOf(d) = FolderOf(e) => d <= e
        BY <1>b, <2>1, <2>2, <3>2
      <4> QED
        BY <1>a, <2>1, <2>4, <3>1, <3>2, <4>1 DEF OpenInv
    <3>4. \A d \in Tested \ todo' : Faulty(FolderOf(d)) => FolderOf(d) \in failed' \cup {Open'}
      BY <1>b, <1>d, <2>1, <3>1, <3>2
    <3>5. \A d \in Tested \ todo', c \in todo' : FolderOf(d) = FolderOf(c) => d < c
      BY <1>b, <2>3, <3>1, <3>2
    <3> QED
      BY <1>b, <1>f, <2>1, <3>1, <3>3, <3>4, <3>5
  <2>5. CASE ~Readable(e)
    <3>1. failed' = failed \cup {FolderOf(e)} /\ code' = Warning /\ last' = 0
          /\ todo' = {d \in todo : FolderOf(d) # FolderOf(e)}
      BY <1>2, <2>5 DEF TestEntry, OthersThan
    <3>2. Faulty(FolderOf(e))
      BY <2>1, <2>5, UnreadableIsFaulty
    <3>3. OpenInv'
      BY <3>1 DEF OpenInv
    <3>4. \A d \in Tested \ todo' : Faulty(FolderOf(d)) => FolderOf(d) \in failed'
      BY <1>b, <1>d, <2>1, <3>1
    <3>5. \A d \in Tested \ todo', c \in todo' : FolderOf(d) = FolderOf(c) => d < c
      BY <1>b, <3>1
    <3> QED
      BY <1>b, <1>f, <2>1, <3>1, <3>2, <3>3, <3>4, <3>5
  <2> QED
    BY <2>4, <2>5
<1>3. CASE TestFolder
  <2>1. /\ pc = "test" /\ pc' = "test" /\ Open # 0 /\ last' = 0 /\ todo' = todo
        /\ \A d \in todo : FolderOf(d) # Open
    BY <1>3 DEF TestFolder, OthersThan
  <2>2. /\ Open = FolderOf(last) /\ last \in Tested /\ Readable(last)
        /\ \A d \in Tested : FolderOf(d) = Open => d <= last
    BY <1>c, <2>1 DEF Open
  <2>3. FinishFails <=> Faulty(Open)
    BY <2>1, <2>2, FinishDecides
  <2>4. OpenInv'
    BY <2>1 DEF OpenInv
  <2>5. CASE FinishFails
    <3>1. failed' = failed \cup {Open} /\ code' = Warning
      BY <1>3, <2>5 DEF TestFolder
    <3> QED
      BY <1>b, <1>f, <2>1, <2>2, <2>3, <2>4, <2>5, <3>1
  <2>6. CASE ~FinishFails
    <3>1. UNCHANGED <<failed, code>>
      BY <1>3, <2>6 DEF TestFolder
    <3> QED
      BY <1>b, <1>f, <2>1, <2>3, <2>4, <2>6, <3>1
  <2> QED
    BY <2>5, <2>6
<1>4. CASE EndTest
  <2>1. /\ pc = "test" /\ todo = {} /\ Open = 0 /\ pc' = "done"
        /\ UNCHANGED <<todo, last, failed>> /\ (Selected # {} => code' = code)
    BY <1>4 DEF EndTest, End
  <2>2. last = 0
    BY <1>c, <1>d, <2>1 DEF Open
  <2>3. OpenInv'
    BY <2>1, <2>2 DEF OpenInv
  <2> QED
    BY <1>b, <1>e, <1>f, <2>1, <2>2, <2>3
<1>5. ASSUME NEW p \in Paths, Touch(p) PROVE UNCHANGED <<todo, code, failed, last, pc>>
  BY <1>5 DEF Touch
<1>6. ~(NothingToDo \/ Finish \/ IoFails \/ CheckFree \/ CheckDirectory \/ DecideByMode)
  BY <1>d DEF NothingToDo, Finish, IoFails, Asks, CheckFree, CheckDirectory, DecideByMode, Collides
<1>7. ~(AnswerYes \/ AnswerAll \/ AnswerNo \/ AnswerSkipAll \/ AnswerQuit)
  BY <1>d DEF AnswerYes, AnswerAll, AnswerNo, AnswerSkipAll, AnswerQuit, Asks, Collides
<1>8. ~Change /\ \A e : ~PassOver(e) /\ ~Begin(e)
  BY <1>d DEF Change, RemoveFile, WriteDirectory, MakeParents, Replace, Create, Copy, PassOver,
     Begin
<1>9. UNCHANGED vars => UNCHANGED <<todo, code, failed, last, pc>>
  BY DEF vars
<1> QED
  BY <1>1, <1>2, <1>3, <1>4, <1>5, <1>6, <1>7, <1>8, <1>9, NextCases DEF Test

-----------------------------------------------------------------------------
(***************************************************************************)
(* The extract commands: types, where the command is, and the consent.     *)
(***************************************************************************)
LEMMA TreeTypes ==
  ASSUME TypeOK, StageInv
  PROVE  /\ \A p : [tree EXCEPT ![p] = Missing] \in [Paths -> Node]
         /\ \A p : [tree EXCEPT ![p] = File(0, TRUE)] \in [Paths -> Node]
         /\ \A ps : WithDirs(ps) \in [Paths -> Node]
         /\ pc \in Working => \A full \in BOOLEAN : Put(full) \in [Paths -> Node]
<1>1. tree \in [Paths -> Node]
  BY DEF TypeOK
<1>2. \A ps : WithDirs(ps) \in [Paths -> Node]
  BY <1>1, Nodes DEF WithDirs
<1>3. pc \in Working => \A full \in BOOLEAN : Put(full) \in [Paths -> Node]
  BY <1>1, TargetTypes DEF Put
<1> QED
  BY <1>1, <1>2, <1>3, Nodes

LEMMA TypeStep == TypeOK /\ StageInv /\ [Next]_vars => TypeOK'
<1> SUFFICES ASSUME TypeOK, StageInv, [Next]_vars PROVE TypeOK'
  OBVIOUS
<1>a. archive' = archive /\ Selected' = Selected
  BY InputsKept, ReadingsKept
<1>b. archive \in Archives /\ tree \in [Paths -> Node] /\ todo \subseteq Selected /\ touches \in Nat
      /\ pc \in {"next", "test", "done"} \cup Working
  BY DEF TypeOK
<1>c. \A s \in {"next", "test", "done", "check", "remove", "write", "replace", "create", "copy"} :
        s \in {"next", "test", "done"} \cup Working
  BY DEF Working, Filling
<1>1. ASSUME tree' \in [Paths -> Node], todo' \subseteq todo, touches' \in Nat,
             pc' \in {"next", "test", "done"} \cup Working
      PROVE  TypeOK'
  BY <1>1, <1>a, <1>b DEF TypeOK
<1>2. CASE UNCHANGED vars  BY <1>2, <1>1, <1>b DEF vars
<1>3. CASE NothingToDo  BY <1>3, <1>1, <1>b, <1>c DEF NothingToDo, End
<1>4. CASE Finish \/ IoFails  BY <1>4, <1>1, <1>b, <1>c DEF Finish, IoFails, End
<1>5. ASSUME NEW e \in todo, PassOver(e) PROVE TypeOK'
  BY <1>5, <1>1, <1>b, <1>c DEF PassOver, Done
<1>6. ASSUME NEW e \in todo, Begin(e) PROVE TypeOK'
  BY <1>6, <1>1, <1>b, <1>c DEF Begin, End
<1>7. CASE CheckFree  BY <1>7, <1>1, <1>b, <1>c DEF CheckFree
<1>8. CASE CheckDirectory  BY <1>8, <1>1, <1>b, <1>c DEF CheckDirectory, Done
<1>9. CASE DecideByMode
  BY <1>9, <1>1, <1>b, <1>c DEF DecideByMode, Overwrite, Skip, Done
<1>10. CASE AnswerYes  BY <1>10, <1>1, <1>b, <1>c DEF AnswerYes, Overwrite
<1>11. CASE AnswerAll  BY <1>11, <1>1, <1>b, <1>c DEF AnswerAll, Overwrite
<1>12. CASE AnswerNo  BY <1>12, <1>1, <1>b, <1>c DEF AnswerNo, Skip, Done
<1>13. CASE AnswerSkipAll  BY <1>13, <1>1, <1>b, <1>c DEF AnswerSkipAll, Skip, Done
<1>14. CASE AnswerQuit  BY <1>14, <1>1, <1>b, <1>c DEF AnswerQuit
<1>15. CASE RemoveFile
  BY <1>15, <1>1, <1>b, <1>c, TreeTypes DEF RemoveFile, Removed, End
<1>16. CASE WriteDirectory
  BY <1>16, <1>1, <1>b, <1>c, TreeTypes DEF WriteDirectory, Done, End
<1>17. CASE MakeParents  BY <1>17, <1>1, <1>b, <1>c, TreeTypes DEF MakeParents, End
<1>18. CASE Replace  BY <1>18, <1>1, <1>b, <1>c, TreeTypes DEF Replace, Removed, End
<1>19. CASE Create  BY <1>19, <1>1, <1>b, <1>c, TreeTypes DEF Create, End
<1>20. CASE Copy  BY <1>20, <1>1, <1>b, <1>c, TreeTypes DEF Copy, Done, End
<1>21. CASE Test
  BY <1>21, <1>1, <1>b, <1>c DEF Test, TestEntry, Tests, OthersThan, TestFolder, EndTest, End
<1>22. ASSUME NEW p \in Paths, Touch(p) PROVE TypeOK'
  <2>1. tree' = [tree EXCEPT ![p] = Missing] \/ tree' = [tree EXCEPT ![p] = File(0, TRUE)]
    BY <1>22 DEF Touch
  <2>2. tree' \in [Paths -> Node]
    BY <1>b, <2>1, Nodes
  <2>3. UNCHANGED <<todo, pc>> /\ touches' \in Nat
    BY <1>22, <1>b DEF Touch
  <2> QED
    BY <1>1, <1>b, <2>2, <2>3
<1> QED
  BY <1>2, <1>3, <1>4, <1>5, <1>6, <1>7, <1>8, <1>9, <1>10, <1>11, <1>12, <1>13, <1>14, <1>15,
     <1>16, <1>17, <1>18, <1>19, <1>20, <1>21, <1>22, NextCases DEF Change

LEMMA TargetPath ==
  ASSUME TypeOK, NEW e \in todo, archive[e].path # Unsafe
  PROVE  PathOf(e) \in Paths
BY PathAssumption DEF TypeOK, Selected, PathOf

(* Where the command is, and that it works on the first entry of the rest. *)
LEMMA StageStep == TypeOK /\ StageInv /\ [Next]_vars => StageInv'
<1> SUFFICES ASSUME TypeOK, StageInv, [Next]_vars PROVE StageInv'
  OBVIOUS
<1>a. /\ command' = command
      /\ \A e : /\ IsDir(e)' = IsDir(e) /\ (Skipped(e)' <=> Skipped(e)) /\ PathOf(e)' = PathOf(e)
      /\ \A d, e : Earlier(d, e)' <=> Earlier(d, e)
  BY InputsKept, ReadingsKept
<1>b. /\ pc = "test" => command.cmd = "t"
      /\ command.cmd = "t" => pc \in {"test", "done"}
      /\ command.cmd = "all" => pc \notin {"check", "remove"}
      /\ pc = "replace" => command.cmd = "all"
      /\ pc \in Filling \ {"write"} => ~IsDirectory
      /\ pc \in Working =>
           /\ First(target.entry) /\ ~Skipped(target.entry)
           /\ target.path = PathOf(target.entry) /\ target.path \in Paths
  BY DEF StageInv
<1>c. /\ Working = {"check", "remove", "write", "replace", "create", "copy"}
      /\ Filling \ {"write"} = {"replace", "create", "copy"}
  BY DEF Working, Filling
<1>1. ASSUME pc' = pc, UNCHANGED <<todo, target>> PROVE StageInv'
  BY <1>1, <1>a, <1>b DEF StageInv, IsDirectory, First
<1>2. ASSUME pc' = "done" PROVE StageInv'
  BY <1>2, <1>a, <1>c DEF StageInv
<1>3. ASSUME pc \in Working \cup {"next"}, pc' = "next" PROVE StageInv'
  BY <1>3, <1>a, <1>b, <1>c DEF StageInv
<1>4. ASSUME UNCHANGED <<todo, target>>, pc \in Working, pc' \in Working,
             pc' \in {"check", "remove"} => pc \in {"check", "remove"},
             pc' = "replace" => command.cmd = "all",
             pc' \in {"replace", "create", "copy"} => ~IsDirectory
      PROVE  StageInv'
  BY <1>4, <1>a, <1>b, <1>c DEF StageInv, IsDirectory, First
<1>5. CASE UNCHANGED vars  BY <1>5, <1>1 DEF vars
<1>6. CASE NothingToDo  BY <1>6, <1>2 DEF NothingToDo, End
<1>7. CASE Finish \/ IoFails  BY <1>7, <1>2 DEF Finish, IoFails, End
<1>8. ASSUME NEW e \in todo, PassOver(e) PROVE StageInv'
  BY <1>8, <1>3 DEF PassOver, Done
<1>9. ASSUME NEW e \in todo, Begin(e), pc' # "done" PROVE StageInv'
  <2>1. /\ pc = "next" /\ First(e) /\ ~Skipped(e) /\ todo' = todo
        /\ target' = [path |-> PathOf(e), entry |-> e]
        /\ pc' = IF command.cmd = "all" THEN "write" ELSE "check"
        /\ archive[e].path # Unsafe
    BY <1>9 DEF Begin, End
  <2>2. target'.path = PathOf(e) /\ target'.entry = e /\ PathOf(e) \in Paths
    BY <2>1, TargetPath
  <2>3. First(e)'
    BY <1>a, <2>1 DEF First
  <2> QED
    BY <1>a, <1>b, <1>c, <2>1, <2>2, <2>3 DEF StageInv
<1>10. ASSUME NEW e \in todo, Begin(e), pc' = "done" PROVE StageInv'
  BY <1>10, <1>2
<1>11. CASE CheckFree  BY <1>11, <1>4, <1>c DEF CheckFree
<1>12. CASE CheckDirectory  BY <1>12, <1>3, <1>c DEF CheckDirectory, Done
<1>13. CASE DecideByMode
  BY <1>13, <1>3, <1>4, <1>c DEF DecideByMode, Collides, Overwrite, Skip, Done
<1>14. CASE AnswerYes  BY <1>14, <1>4, <1>c DEF AnswerYes, Asks, Collides, Overwrite
<1>15. CASE AnswerAll  BY <1>15, <1>4, <1>c DEF AnswerAll, Asks, Collides, Overwrite
<1>16. CASE AnswerNo  BY <1>16, <1>3, <1>c DEF AnswerNo, Asks, Collides, Skip, Done
<1>17. CASE AnswerSkipAll
  BY <1>17, <1>3, <1>c DEF AnswerSkipAll, Asks, Collides, Skip, Done
<1>18. CASE AnswerQuit  BY <1>18, <1>3, <1>c DEF AnswerQuit, Asks, Collides
<1>19. CASE RemoveFile  BY <1>19, <1>2, <1>4, <1>c DEF RemoveFile, End
<1>20. CASE WriteDirectory  BY <1>20, <1>2, <1>3, <1>c DEF WriteDirectory, Done, End
<1>21. CASE MakeParents  BY <1>21, <1>2, <1>4, <1>c DEF MakeParents, End
<1>22. CASE Replace  BY <1>22, <1>2, <1>4, <1>b, <1>c DEF Replace, End
<1>23. CASE Create  BY <1>23, <1>2, <1>4, <1>b, <1>c DEF Create, End
<1>24. CASE Copy  BY <1>24, <1>2, <1>3, <1>c DEF Copy, Done, End
<1>25. CASE Test
  <2>1. pc = "test" /\ pc' \in {"test", "done"}
    BY <1>25 DEF Test, TestEntry, Tests, TestFolder, EndTest, End
  <2> QED
    BY <2>1, <1>a, <1>b, <1>c DEF StageInv
<1>26. ASSUME NEW p \in Paths, Touch(p) PROVE StageInv'
  BY <1>26, <1>1 DEF Touch
<1> QED
  BY <1>5, <1>6, <1>7, <1>8, <1>9, <1>10, <1>11, <1>12, <1>13, <1>14, <1>15, <1>16, <1>17,
     <1>18, <1>19, <1>20, <1>21, <1>22, <1>23, <1>24, <1>25, <1>26, NextCases DEF Change

(* What the user agreed to. *)
LEMMA ConsentStep == TypeOK /\ StageInv /\ ConsentInv /\ [Next]_vars => ConsentInv'
<1> SUFFICES ASSUME TypeOK, StageInv, ConsentInv, [Next]_vars PROVE ConsentInv'
  OBVIOUS
<1>a. command' = command
  BY InputsKept, ReadingsKept
<1>b. /\ lost \subseteq consent
      /\ command.cmd = "all" \/ mode = "Overwrite" \/ (mode = "Ask" /\ command.yes)
           => consent = Paths
      /\ pc = "remove" => target.path \in consent
      /\ consent \subseteq Paths
  BY DEF ConsentInv
<1>c. pc \in Working => target.path \in Paths
  BY DEF StageInv
<1>1. ASSUME UNCHANGED <<mode, consent, lost>>, pc' = "remove" => pc = "remove" /\ target' = target
      PROVE  ConsentInv'
  BY <1>1, <1>a, <1>b DEF ConsentInv
<1>2. CASE UNCHANGED vars  BY <1>2, <1>1 DEF vars
<1>3. CASE NothingToDo \/ Finish \/ IoFails
  BY <1>3, <1>1 DEF NothingToDo, Finish, IoFails, End
<1>4. ASSUME NEW e \in todo, PassOver(e) \/ Begin(e) PROVE ConsentInv'
  BY <1>4, <1>1 DEF PassOver, Begin, Done, End
<1>5. CASE CheckFree \/ CheckDirectory  BY <1>5, <1>1 DEF CheckFree, CheckDirectory, Done
<1>6. CASE DecideByMode
  <2>1. UNCHANGED <<mode, consent, lost, target>> /\ pc = "check" /\ pc' \in {"remove", "next"}
        /\ (pc' = "remove" => mode = "Overwrite" \/ (mode = "Ask" /\ command.yes))
    BY <1>6 DEF DecideByMode, Collides, Overwrite, Skip, Done
  <2>2. target.path \in Paths
    BY <1>c, <2>1 DEF Working
  <2> QED
    BY <1>a, <1>b, <2>1, <2>2 DEF ConsentInv
<1>7. CASE AnswerYes
  <2>1. UNCHANGED <<mode, lost, target>> /\ consent' = consent \cup {target.path}
        /\ pc = "check"
    BY <1>7 DEF AnswerYes, Asks, Collides
  <2>2. target.path \in Paths
    BY <1>c, <2>1 DEF Working
  <2> QED
    BY <1>a, <1>b, <2>1, <2>2 DEF ConsentInv
<1>8. CASE AnswerAll
  <2>1. UNCHANGED <<lost, target>> /\ consent' = Paths /\ pc = "check" /\ mode = "Ask"
        /\ ~command.yes
    BY <1>8 DEF AnswerAll, Asks, Collides
  <2>2. target.path \in Paths
    BY <1>c, <2>1 DEF Working
  <2> QED
    BY <1>a, <1>b, <2>1, <2>2 DEF ConsentInv
<1>9. CASE AnswerNo \/ AnswerQuit
  BY <1>9, <1>1 DEF AnswerNo, AnswerQuit, Skip, Done
<1>10. CASE AnswerSkipAll
  BY <1>10, <1>a, <1>b DEF AnswerSkipAll, Skip, Done, ConsentInv
<1>11. CASE RemoveFile
  <2>1. UNCHANGED <<mode, consent, target>> /\ pc = "remove" /\ pc' # "remove"
        /\ lost' \subseteq lost \cup {target.path}
    BY <1>11 DEF RemoveFile, End, NoteLoss
  <2> QED
    BY <1>a, <1>b, <2>1 DEF ConsentInv
<1>12. CASE Replace
  <2>1. UNCHANGED <<mode, consent, target>> /\ pc = "replace" /\ pc' # "remove"
        /\ lost' \subseteq lost \cup {target.path}
    BY <1>12 DEF Replace, End, NoteLoss
  <2>2. consent = Paths /\ target.path \in Paths
    BY <1>b, <1>c, <2>1 DEF StageInv, Working, Filling
  <2> QED
    BY <1>a, <1>b, <2>1, <2>2 DEF ConsentInv
<1>13. CASE WriteDirectory \/ MakeParents
  BY <1>13, <1>1 DEF WriteDirectory, MakeParents, Done, End
<1>14. CASE Create \/ Copy  BY <1>14, <1>1 DEF Create, Copy, Done, End
<1>15. CASE Test  BY <1>15, <1>1 DEF Test, TestEntry, Tests, TestFolder, EndTest, End
<1>16. ASSUME NEW p \in Paths, Touch(p) PROVE ConsentInv'
  BY <1>16, <1>1 DEF Touch
<1> QED
  BY <1>2, <1>3, <1>4, <1>5, <1>6, <1>7, <1>8, <1>9, <1>10, <1>11, <1>12, <1>13, <1>14, <1>15,
     <1>16, NextCases DEF Change

(* Which files are cut short. *)
LEMMA PartialStep == TypeOK /\ StageInv /\ PartialInv /\ [Next]_vars => PartialInv'
<1> SUFFICES ASSUME TypeOK, StageInv, PartialInv, [Next]_vars PROVE PartialInv'
  OBVIOUS
<1> DEFINE Partial(node) == node.kind = "file" /\ ~node.full
<1>a. tree \in [Paths -> Node]
  BY DEF TypeOK
<1>b. ~Partial(Missing) /\ ~Partial(Directory) /\ \A e : ~Partial(File(e, TRUE))
  BY DEF Missing, Directory, File
<1>c. \A p \in Paths : Partial(tree[p]) =>
        \/ pc = "done" /\ code = Fatal
        \/ pc = "copy" /\ p = target.path /\ tree[p] = File(target.entry, FALSE)
  BY DEF PartialInv
<1>1. ASSUME pc \notin {"copy", "done"},
             \A p \in Paths : tree'[p] = tree[p] \/ ~Partial(tree'[p])
      PROVE  PartialInv'
  <2> SUFFICES ASSUME NEW p \in Paths, Partial(tree'[p]) PROVE FALSE
    BY DEF PartialInv
  <2>1. Partial(tree[p])
    BY <1>1
  <2> QED
    BY <1>1, <1>c, <2>1
<1>2. CASE UNCHANGED vars  BY <1>2 DEF vars, PartialInv
<1>3. CASE NothingToDo \/ Finish  BY <1>3, <1>1 DEF NothingToDo, Finish
<1>13. CASE IoFails  BY <1>13 DEF IoFails, End, PartialInv
<1>4. ASSUME NEW e \in todo, PassOver(e) \/ Begin(e) PROVE PartialInv'
  BY <1>4, <1>1 DEF PassOver, Begin
<1>5. CASE CheckFree \/ CheckDirectory \/ DecideByMode
  BY <1>5, <1>1 DEF CheckFree, CheckDirectory, DecideByMode, Collides
<1>6. CASE AnswerYes \/ AnswerAll \/ AnswerNo \/ AnswerSkipAll \/ AnswerQuit
  BY <1>6, <1>1 DEF AnswerYes, AnswerAll, AnswerNo, AnswerSkipAll, AnswerQuit, Asks, Collides
<1>7. CASE RemoveFile \/ Replace
  <2>1. pc \in {"remove", "replace"} /\ (tree' = tree \/ tree' = [tree EXCEPT ![target.path] = Missing])
    BY <1>7 DEF RemoveFile, Replace, Removed
  <2> QED
    BY <1>1, <1>a, <1>b, <2>1
<1>8. CASE WriteDirectory \/ MakeParents
  <2>1. pc = "write" /\ (tree' = tree \/ \E ps : tree' = WithDirs(ps))
    BY <1>8 DEF WriteDirectory, MakeParents
  <2> QED
    BY <1>1, <1>a, <1>b, <2>1 DEF WithDirs
<1>9. CASE Create
  <2>1. pc = "create" /\ target' = target
    BY <1>9 DEF Create
  <2>2. CASE tree' = tree
    BY <1>1, <2>1, <2>2
  <2>3. CASE tree' = Put(FALSE) /\ pc' = "copy"
    BY <1>a, <1>c, <2>1, <2>3 DEF Put, PartialInv
  <2> QED
    BY <1>9, <2>2, <2>3 DEF Create
<1>10. CASE Copy
  <2>1. pc = "copy" /\ target' = target
    BY <1>10 DEF Copy
  <2>2. CASE pc' = "done" /\ code' = Fatal
    BY <2>2 DEF PartialInv
  <2>3. CASE tree' = IF tree[target.path] = File(target.entry, FALSE) THEN Put(TRUE) ELSE tree
    <3>1. \A p \in Paths : ~Partial(tree'[p])
      BY <1>a, <1>b, <1>c, <2>1, <2>3 DEF Put
    <3> QED
      BY <3>1 DEF PartialInv
  <2> QED
    BY <1>10, <2>2, <2>3 DEF Copy, End
<1>11. CASE Test
  <2>1. pc = "test" /\ tree' = tree
    BY <1>11 DEF Test, TestEntry, Tests, TestFolder, EndTest
  <2> QED
    BY <1>1, <2>1
<1>12. ASSUME NEW p \in Paths, Touch(p) PROVE PartialInv'
  <2>1. tree' = [tree EXCEPT ![p] = Missing] \/ tree' = [tree EXCEPT ![p] = File(0, TRUE)]
    BY <1>12 DEF Touch
  <2>2. \A q \in Paths : tree'[q] = tree[q] \/ ~Partial(tree'[q])
    BY <1>a, <1>b, <2>1
  <2>3. UNCHANGED <<pc, code, target>>
    BY <1>12 DEF Touch
  <2> QED
    BY <1>c, <2>2, <2>3 DEF PartialInv
<1> QED
  BY <1>2, <1>3, <1>4, <1>5, <1>6, <1>7, <1>8, <1>9, <1>10, <1>11, <1>12, <1>13, NextCases DEF Change

-----------------------------------------------------------------------------
(***************************************************************************)
(* The extract commands: what is in the destination.                       *)
(***************************************************************************)

(* Parents of parents are parents, and no path is its own parent. *)
LEMMA ParentsAreClosed ==
  ASSUME NEW p \in Paths
  PROVE  /\ Parents(p) \subseteq Paths /\ p \notin Parents(p)
         /\ \A q \in Parents(p) : Parents(q) \subseteq Parents(p)
<1>1. p \in Seq(STRING) /\ Parents(p) \subseteq Paths /\ Len(p) \in Nat
  BY PathAssumption
<1>2. \A n \in 1 .. Len(p) - 1 : Len(SubSeq(p, 1, n)) = n
  BY <1>1
<1>3. p \notin Parents(p)
  <2> SUFFICES ASSUME NEW n \in 1 .. Len(p) - 1, p = SubSeq(p, 1, n) PROVE FALSE
    BY DEF Parents
  <2> QED
    BY <1>1, <1>2
<1>4. ASSUME NEW q \in Parents(p), NEW r \in Parents(q) PROVE r \in Parents(p)
  <2>1. PICK n \in 1 .. Len(p) - 1 : q = SubSeq(p, 1, n)
    BY DEF Parents
  <2>2. Len(q) = n
    BY <1>2, <2>1
  <2>3. PICK m \in 1 .. n - 1 : r = SubSeq(q, 1, m)
    BY <2>2 DEF Parents
  <2>4. m \in 1 .. Len(p) - 1 /\ n \in Nat /\ m \in Nat /\ m < n /\ n < Len(p)
    BY <1>1, <2>1, <2>3
  <2>5. q \in Seq(STRING)
    BY <1>1, <2>1
  <2>6. r = [i \in 1 .. m |-> q[i]] /\ q = [i \in 1 .. n |-> p[i]]
    BY <1>1, <2>1, <2>2, <2>3, <2>4, <2>5
  <2>7. SubSeq(p, 1, m) = [i \in 1 .. m |-> p[i]]
    BY <1>1, <2>4
  <2>8. \A i \in 1 .. m : q[i] = p[i]
    BY <2>4, <2>6
  <2>9. r = SubSeq(p, 1, m)
    BY <2>6, <2>7, <2>8
  <2> QED
    BY <2>4, <2>9 DEF Parents
<1> QED
  BY <1>1, <1>3, <1>4

(* One node that is not a directory changes. *)
LEMMA NodeChanges ==
  ASSUME TypeOK, TreeInv, NEW t \in Paths, NEW node, tree' = [tree EXCEPT ![t] = node],
         tree[t].kind # "dir", node.kind # "missing" => Reachable(t)
  PROVE  TreeInv'
<1>a. tree \in [Paths -> Node]
  BY DEF TypeOK
<1> SUFFICES ASSUME NEW p \in Paths, tree'[p].kind # "missing", NEW q \in Parents(p)
             PROVE  tree'[q].kind = "dir"
  BY DEF TreeInv, Reachable
<1>1. q \in Paths
  BY ParentsAreClosed
<1>2. tree[q].kind = "dir"
  <2>1. CASE p = t
    BY <1>a, <2>1 DEF Reachable
  <2>2. CASE p # t
    BY <1>a, <2>2 DEF TreeInv, Reachable
  <2> QED
    BY <2>1, <2>2
<1>3. q # t
  BY <1>2
<1> QED
  BY <1>a, <1>1, <1>2, <1>3

(* Directories are made with all those above them. *)
LEMMA DirectoriesMade ==
  ASSUME TypeOK, TreeInv, NEW ps \in SUBSET Paths, \A q \in ps : Parents(q) \subseteq ps,
         tree' = WithDirs(ps)
  PROVE  TreeInv'
<1> SUFFICES ASSUME NEW p \in Paths, tree'[p].kind # "missing", NEW q \in Parents(p)
             PROVE  tree'[q].kind = "dir"
  BY DEF TreeInv, Reachable
<1>1. q \in Paths
  BY ParentsAreClosed
<1>2. q \in ps \/ tree[q].kind = "dir"
  <2>1. CASE p \in ps
    BY <2>1
  <2>2. CASE p \notin ps
    <3>1. tree[p].kind # "missing"
      BY <2>2 DEF WithDirs
    <3> QED
      BY <3>1 DEF TreeInv, Reachable
  <2> QED
    BY <2>1, <2>2
<1> QED
  BY <1>1, <1>2 DEF WithDirs, Directory

(* A path that is not taken for a directory is none. *)
LEMMA AtIsKind ==
  ASSUME TreeInv, NEW p \in Paths
  PROVE  At(p) = tree[p].kind
BY DEF TreeInv, At

LEMMA DirectoryParents ==
  ASSUME TypeOK, StageInv, pc \in Working
  PROVE  LET up == Parents(target.path)  all == up \cup {target.path}
         IN /\ up \in SUBSET Paths /\ \A q \in up : Parents(q) \subseteq up
            /\ all \in SUBSET Paths /\ \A q \in all : Parents(q) \subseteq all
            /\ target.path \notin up
<1>1. target.path \in Paths
  BY TargetTypes
<1> QED
  BY <1>1, ParentsAreClosed

LEMMA TreeStep == TypeOK /\ StageInv /\ TreeInv /\ [Next]_vars => TreeInv'
<1> SUFFICES ASSUME TypeOK, StageInv, TreeInv, [Next]_vars PROVE TreeInv'
  OBVIOUS
<1>1. ASSUME tree' = tree PROVE TreeInv'
  BY <1>1 DEF TreeInv, Reachable
<1>2. CASE NothingToDo \/ Finish \/ IoFails \/ UNCHANGED vars
  BY <1>2, <1>1 DEF NothingToDo, Finish, IoFails, vars
<1>3. ASSUME NEW e \in todo, PassOver(e) \/ Begin(e) PROVE TreeInv'
  BY <1>3, <1>1 DEF PassOver, Begin
<1>4. CASE CheckFree \/ CheckDirectory \/ DecideByMode
  BY <1>4, <1>1 DEF CheckFree, CheckDirectory, DecideByMode
<1>5. CASE AnswerYes \/ AnswerAll \/ AnswerNo \/ AnswerSkipAll \/ AnswerQuit
  BY <1>5, <1>1 DEF AnswerYes, AnswerAll, AnswerNo, AnswerSkipAll, AnswerQuit
<1>6. CASE Test  BY <1>6, <1>1 DEF Test, TestEntry, TestFolder, EndTest
<1>7. ASSUME pc \in Working PROVE target.path \in Paths /\ At(target.path) = tree[target.path].kind
  BY <1>7, TargetTypes, AtIsKind
<1>8. CASE RemoveFile
  <2>1. tree' = tree \/ (tree[target.path].kind \in {"file", "link"} /\ tree' = Removed)
    BY <1>7, <1>8 DEF RemoveFile, Working
  <2> QED
    BY <1>1, <1>7, <1>8, <2>1, NodeChanges DEF RemoveFile, Working, Removed, Missing
<1>9. CASE Replace
  <2>1. tree' = tree \/ (tree[target.path].kind # "dir" /\ tree' = Removed)
    BY <1>7, <1>9 DEF Replace, Working, Filling
  <2> QED
    BY <1>1, <1>7, <1>9, <2>1, NodeChanges DEF Replace, Working, Filling, Removed, Missing
<1>10. CASE Create
  <2>1. \/ tree' = tree
        \/ tree[target.path].kind = "missing" /\ Reachable(target.path) /\ tree' = Put(FALSE)
    BY <1>7, <1>10 DEF Create, Working, Filling
  <2> QED
    BY <1>1, <1>7, <1>10, <2>1, NodeChanges DEF Create, Working, Filling, Put
<1>11. CASE Copy
  <2>1. tree' = tree \/ (tree[target.path] = File(target.entry, FALSE) /\ tree' = Put(TRUE))
    BY <1>11 DEF Copy
  <2>2. tree[target.path] = File(target.entry, FALSE) =>
          tree[target.path].kind = "file" /\ Reachable(target.path)
    BY <1>7, <1>11 DEF Copy, Working, Filling, File, TreeInv
  <2> QED
    BY <1>1, <1>7, <1>11, <2>1, <2>2, NodeChanges DEF Copy, Working, Filling, Put
<1>12. CASE WriteDirectory
  <2>1. pc \in Working
    BY <1>12 DEF WriteDirectory, Working, Filling
  <2> QED
    BY <1>1, <1>12, <2>1, DirectoryParents, DirectoriesMade DEF WriteDirectory
<1>13. CASE MakeParents
  <2>1. pc \in Working
    BY <1>13 DEF MakeParents, Working, Filling
  <2> QED
    BY <1>1, <1>13, <2>1, DirectoryParents, DirectoriesMade DEF MakeParents
<1>14. ASSUME NEW p \in Paths, Touch(p) PROVE TreeInv'
  <2>1. Reachable(p) /\ tree[p].kind # "dir"
    BY <1>14 DEF Touch
  <2>2. PICK node : tree' = [tree EXCEPT ![p] = node]
    BY <1>14 DEF Touch
  <2> QED
    BY <2>1, <2>2, NodeChanges
<1> QED
  BY <1>2, <1>3, <1>4, <1>5, <1>6, <1>8, <1>9, <1>10, <1>11, <1>12, <1>13, <1>14, NextCases
     DEF Change

LEMMA NewestIs ==
  ASSUME NEW S \in SUBSET Nat, NEW e \in S, \A d \in S : d <= e
  PROVE  Newest(S) = e
<1>1. \A c \in S : (\A d \in S : d <= c) => c = e
  OBVIOUS
<1> QED
  BY <1>1 DEF Newest

(* Steps that set a warning, fail or follow other programs have no say. *)
LEMMA UndisturbedBefore ==
  ASSUME TypeOK, StageInv, [Next]_vars, Undisturbed'
  PROVE  /\ Undisturbed
         /\ ~NothingToDo /\ ~IoFails /\ ~CheckDirectory /\ ~AnswerNo /\ ~AnswerSkipAll /\ ~AnswerQuit
         /\ ~Test /\ \A p \in Paths : ~Touch(p)
         /\ UNCHANGED <<code, touches>>
<1>a. code' = OK /\ touches' = 0 /\ touches \in Nat /\ command' = command
  BY InputsKept, ReadingsKept DEF Undisturbed, TypeOK
<1>b. command.cmd \in {"x", "e", "all"} /\ command.mode # "SkipExisting"
  BY <1>a DEF Undisturbed
<1>c. OK # Warning /\ OK # Fatal
  BY DEF OK, Warning, Fatal
<1>1. ~NothingToDo /\ ~IoFails /\ ~CheckDirectory /\ ~AnswerQuit
  BY <1>a, <1>c DEF NothingToDo, IoFails, End, CheckDirectory, AnswerQuit
<1>2. ~AnswerNo /\ ~AnswerSkipAll
  BY <1>a, <1>c DEF AnswerNo, AnswerSkipAll, Skip
<1>3. ~Test
  BY <1>b DEF Test, TestEntry, Tests, TestFolder, EndTest, StageInv
<1>4. ASSUME NEW p \in Paths PROVE ~Touch(p)
  <2>1. Touch(p) => touches' = touches + 1
    BY DEF Touch
  <2> QED
    BY <1>a, <2>1
<1>5. ASSUME NEW e \in todo, PassOver(e) \/ Begin(e) PROVE UNCHANGED <<code, touches>>
  BY <1>5, <1>a, <1>c DEF PassOver, Begin, End
<1>6. ASSUME Finish \/ UNCHANGED vars PROVE UNCHANGED <<code, touches>>
  BY <1>6, <1>a, <1>c DEF Finish, vars, End
<1>7. ASSUME CheckFree PROVE UNCHANGED <<code, touches>>
  BY <1>7 DEF CheckFree
<1>8. ASSUME DecideByMode PROVE UNCHANGED <<code, touches>>
  BY <1>8, <1>a, <1>c DEF DecideByMode, Overwrite, Skip
<1>9. ASSUME AnswerYes \/ AnswerAll PROVE UNCHANGED <<code, touches>>
  BY <1>9 DEF AnswerYes, AnswerAll, Overwrite
<1>10. ASSUME RemoveFile \/ WriteDirectory \/ MakeParents PROVE UNCHANGED <<code, touches>>
  BY <1>10, <1>a, <1>c DEF RemoveFile, WriteDirectory, MakeParents, End
<1>11. ASSUME Replace \/ Create \/ Copy PROVE UNCHANGED <<code, touches>>
  BY <1>11, <1>a, <1>c DEF Replace, Create, Copy, End
<1>12. UNCHANGED <<code, touches>>
  BY <1>1, <1>2, <1>3, <1>4, <1>5, <1>6, <1>7, <1>8, <1>9, <1>10, <1>11, NextCases DEF Change
<1> QED
  BY <1>1, <1>2, <1>3, <1>4, <1>12, <1>a, <1>b DEF Undisturbed

(* The entry that was written last is the newest at its path. *)
LEMMA VisitedAdds ==
  ASSUME TypeOK, StageInv, UNCHANGED inputs, NEW e, First(e), todo' = todo \ {e}
  PROVE  /\ \A p : Visited(p)' = IF ~Skipped(e) /\ PathOf(e) = p THEN Visited(p) \cup {e}
                                 ELSE Visited(p)
         /\ (\A d \in Selected \ todo, c \in todo : Earlier(d, c))
              => (\A d \in Selected' \ todo', c \in todo' : Earlier(d, c)')
<1>1. e \in todo /\ todo \subseteq Selected /\ \A d \in todo \ {e} : Earlier(e, d)
  BY DEF First, TypeOK
<1>2. /\ Selected' = Selected
      /\ \A c : (Skipped(c)' <=> Skipped(c)) /\ PathOf(c)' = PathOf(c)
      /\ \A d, c : Earlier(d, c)' <=> Earlier(d, c)
  BY ReadingsKept
<1>3. Selected' \ todo' = (Selected \ todo) \cup {e}
  BY <1>1, <1>2
<1>4. \A p : Visited(p)' = IF ~Skipped(e) /\ PathOf(e) = p THEN Visited(p) \cup {e} ELSE Visited(p)
  BY <1>2, <1>3 DEF Visited
<1> QED
  BY <1>1, <1>2, <1>3, <1>4

LEMMA VisitedKept ==
  ASSUME UNCHANGED inputs, todo' = todo
  PROVE  /\ \A p : Visited(p)' = Visited(p)
         /\ (\A d \in Selected \ todo, c \in todo : Earlier(d, c))
              => (\A d \in Selected' \ todo', c \in todo' : Earlier(d, c)')
<1>1. /\ Selected' = Selected
      /\ \A c : (Skipped(c)' <=> Skipped(c)) /\ PathOf(c)' = PathOf(c)
      /\ \A d, c : Earlier(d, c)' <=> Earlier(d, c)
  BY ReadingsKept
<1> QED
  BY <1>1 DEF Visited

(* What is in place at p when the nodes and the visited entries change. *)
LEMMA PlacedSame ==
  ASSUME UNCHANGED inputs, NEW p, Visited(p)' = Visited(p), tree'[p] = tree[p], Placed(p),
         ~(pc \in Filling /\ p = target.path)
  PROVE  Placed(p)'
<1>1. \A e : IsDir(e)' = IsDir(e)
  BY ReadingsKept
<1> QED
  BY <1>1 DEF Placed, Newest, File

LEMMA PlacedFilling ==
  ASSUME UNCHANGED inputs, NEW p, Visited(p)' = Visited(p), Placed(p),
         tree[p].kind = "dir" => tree'[p].kind = "dir",
         pc' \in Filling /\ p = target'.path
  PROVE  Placed(p)'
<1>1. \A e : IsDir(e)' = IsDir(e)
  BY ReadingsKept
<1> QED
  BY <1>1 DEF Placed

LEMMA PlacedAsDirectory ==
  ASSUME NEW p, tree'[p] = Directory, Visited(p)' # {} => \E e \in Visited(p)' : IsDir(e)'
  PROVE  Placed(p)'
<1>1. tree'[p].kind = "dir"
  BY DEF Directory
<1>2. (\E e \in Visited(p) : IsDir(e))' <=> \E e \in Visited(p)' : IsDir(e)'
  OBVIOUS
<1> QED
  BY <1>1, <1>2 DEF Placed

LEMMA PlacedDirectory ==
  ASSUME UNCHANGED inputs, NEW p, Visited(p)' = Visited(p), Placed(p),
         tree[p].kind \in {"missing", "dir"}, tree'[p] = Directory,
         ~(pc \in Filling /\ p = target.path)
  PROVE  Placed(p)'
<1>1. \A e : IsDir(e)' = IsDir(e)
  BY ReadingsKept
<1>2. \A e : tree[p] # File(e, TRUE)
  BY DEF File
<1>3. Visited(p) # {} => \E e \in Visited(p) : IsDir(e)
  BY <1>2 DEF Placed
<1>4. Visited(p)' # {} => \E e \in Visited(p)' : IsDir(e)'
  BY <1>1, <1>3
<1> QED
  BY <1>4, PlacedAsDirectory

LEMMA PlacedStep ==
  TypeOK /\ StageInv /\ TreeInv /\ PlacedInv /\ [Next]_vars => PlacedInv'
<1> SUFFICES ASSUME TypeOK, StageInv, TreeInv, PlacedInv, [Next]_vars, Undisturbed'
             PROVE  PlacedInv'
  BY DEF PlacedInv
<1>a. /\ mode # "SkipExisting"
      /\ \A d \in Selected \ todo, e \in todo : Earlier(d, e)
      /\ \A p \in Paths : Placed(p)
      /\ pc = "copy" => tree[target.path] = File(target.entry, FALSE)
      /\ pc = "done" => todo = {}
  BY UndisturbedBefore DEF PlacedInv
<1>b. UNCHANGED inputs /\ code' = code /\ code = OK /\ OK # Fatal /\ OK # Warning
  BY InputsKept, UndisturbedBefore DEF Undisturbed, OK, Fatal, Warning
<1>c. tree \in [Paths -> Node]
  BY DEF TypeOK
<1>d. pc \in Working =>
        /\ target.path \in Paths /\ At(target.path) = tree[target.path].kind
        /\ First(target.entry) /\ ~Skipped(target.entry) /\ PathOf(target.entry) = target.path
  BY TargetTypes, AtIsKind DEF StageInv
<1>1. ASSUME tree' = tree, todo' = todo, pc \notin Filling, mode' # "SkipExisting", pc' # "copy",
             pc' = "done" => todo = {}
      PROVE  PlacedInv'
  <2>1. \A p \in Paths : Placed(p)'
    BY <1>1, <1>a, <1>b, VisitedKept, PlacedSame
  <2> QED
    BY <1>1, <1>a, <1>b, <2>1, VisitedKept DEF PlacedInv
<1>2. CASE UNCHANGED vars
  <2>1. UNCHANGED <<tree, todo, pc, target, mode>>
    BY <1>2 DEF vars
  <2>2. ASSUME NEW p \in Paths PROVE Placed(p)'
    <3>1. Visited(p)' = Visited(p) /\ Placed(p)
      BY <1>a, <1>b, <2>1, VisitedKept
    <3>2. CASE pc \in Filling /\ p = target.path
      BY <1>b, <2>1, <3>1, <3>2, PlacedFilling
    <3>3. CASE ~(pc \in Filling /\ p = target.path)
      BY <1>b, <2>1, <3>1, <3>3, PlacedSame
    <3> QED
      BY <3>2, <3>3
  <2> QED
    BY <1>a, <1>b, <2>1, <2>2, VisitedKept DEF PlacedInv, File
<1>3. CASE Finish
  BY <1>3, <1>1, <1>a DEF Finish, End, Filling
<1>4. ASSUME NEW e \in todo, Begin(e) PROVE PlacedInv'
  <2>1. pc = "next" /\ tree' = tree /\ todo' = todo /\ mode' = mode /\ pc' \in {"write", "check"}
    BY <1>4, <1>b DEF Begin, End
  <2> QED
    BY <1>1, <1>a, <2>1 DEF Filling
<1>5. ASSUME NEW e \in todo, PassOver(e) PROVE PlacedInv'
  <2>1. /\ pc = "next" /\ pc' = "next" /\ First(e) /\ Skipped(e) /\ todo' = todo \ {e}
        /\ UNCHANGED <<tree, mode>>
    BY <1>5 DEF PassOver, Done
  <2>2. \A p \in Paths : Visited(p)' = Visited(p)
    BY <1>b, <2>1, VisitedAdds
  <2>3. \A p \in Paths : Placed(p)'
    BY <1>a, <1>b, <2>1, <2>2, PlacedSame DEF Filling
  <2> QED
    BY <1>a, <1>b, <2>1, <2>3, VisitedAdds DEF PlacedInv
<1>6. CASE CheckFree  BY <1>6, <1>1, <1>a DEF CheckFree, Filling
<1>7. CASE DecideByMode \/ AnswerYes \/ AnswerAll
  <2>1. pc = "check" /\ UNCHANGED <<tree, todo>> /\ mode' # "SkipExisting" /\ pc' = "remove"
    BY <1>7, <1>a, <1>b DEF DecideByMode, AnswerYes, AnswerAll, Asks, Collides, Overwrite, Skip
  <2> QED
    BY <1>1, <2>1 DEF Filling
<1>8. ASSUME pc \in {"remove", "replace", "create"}, pc' \in {"write", "create", "copy"},
             UNCHANGED <<todo, target, mode>>, NEW node, tree[target.path].kind # "dir",
             tree' = [tree EXCEPT ![target.path] = node],
             pc' = "copy" => node = File(target.entry, FALSE)
      PROVE  PlacedInv'
  <2>0. pc \in Working /\ pc' \in Filling /\ pc' # "done"
    BY <1>8 DEF Working, Filling
  <2>1. ASSUME NEW p \in Paths PROVE Placed(p)'
    <3>1. Visited(p)' = Visited(p) /\ Placed(p)
      BY <1>8, <1>a, <1>b, VisitedKept
    <3>2. CASE p = target.path
      BY <1>8, <1>b, <2>0, <3>1, <3>2, PlacedFilling
    <3>3. CASE p # target.path
      BY <1>8, <1>b, <1>c, <3>1, <3>3, PlacedSame
    <3> QED
      BY <3>2, <3>3
  <2> QED
    BY <1>8, <1>a, <1>b, <1>c, <1>d, <2>0, <2>1, VisitedKept DEF PlacedInv
<1>9. CASE RemoveFile
  <2>1. /\ pc = "remove" /\ pc' = "write" /\ UNCHANGED <<todo, target, mode>>
        /\ At(target.path) \in {"file", "link"}
        /\ tree' = [tree EXCEPT ![target.path] = Missing]
    BY <1>9, <1>b DEF RemoveFile, Removed, End
  <2>2. tree[target.path].kind # "dir"
    BY <1>d, <2>1 DEF Working
  <2> QED
    BY <1>8, <2>1, <2>2
<1>10. CASE Replace
  <2>1. /\ pc = "replace" /\ pc' = "create" /\ UNCHANGED <<todo, target, mode>>
        /\ At(target.path) # "dir"
        /\ tree' = [tree EXCEPT ![target.path] = Missing]
    BY <1>10, <1>b DEF Replace, Removed, End
  <2>2. tree[target.path].kind # "dir"
    BY <1>d, <2>1 DEF Working, Filling
  <2> QED
    BY <1>8, <2>1, <2>2
<1>11. CASE Create
  <2>1. /\ pc = "create" /\ pc' = "copy" /\ UNCHANGED <<todo, target, mode>>
        /\ At(target.path) = "missing"
        /\ tree' = [tree EXCEPT ![target.path] = File(target.entry, FALSE)]
    BY <1>11, <1>b DEF Create, Put, End
  <2>2. tree[target.path].kind # "dir"
    BY <1>d, <2>1 DEF Working, Filling
  <2> QED
    BY <1>8, <2>1, <2>2
<1>12. CASE MakeParents
  <2>1. /\ pc = "write" /\ pc' \in {"replace", "create"} /\ UNCHANGED <<todo, target, mode>>
        /\ CanMakeDirs(Parents(target.path)) /\ tree' = WithDirs(Parents(target.path))
    BY <1>12, <1>b DEF MakeParents, End
  <2>2. pc \in Working /\ pc' \in Filling /\ pc' # "copy" /\ pc' # "done"
    BY <2>1 DEF Working, Filling
  <2>3. target.path \notin Parents(target.path)
    BY <1>d, <2>2, ParentsAreClosed
  <2>4. ASSUME NEW p \in Paths PROVE Placed(p)'
    <3>1. Visited(p)' = Visited(p) /\ Placed(p)
      BY <1>a, <1>b, <2>1, VisitedKept
    <3>2. CASE p = target.path
      <4>1. tree'[p] = tree[p]
        BY <2>1, <2>3, <3>2 DEF WithDirs
      <4> QED
        BY <1>b, <2>1, <2>2, <3>1, <3>2, <4>1, PlacedFilling
    <3>3. CASE p # target.path /\ p \notin Parents(target.path)
      <4>1. tree'[p] = tree[p]
        BY <2>1, <3>3 DEF WithDirs
      <4> QED
        BY <1>b, <3>1, <3>3, <4>1, PlacedSame
    <3>4. CASE p # target.path /\ p \in Parents(target.path)
      <4>1. tree'[p] = Directory /\ tree[p].kind \in {"missing", "dir"}
        BY <2>1, <3>4 DEF WithDirs, CanMakeDirs
      <4> QED
        BY <1>b, <3>1, <3>4, <4>1, PlacedDirectory
    <3> QED
      BY <3>2, <3>3, <3>4
  <2> QED
    BY <1>a, <1>b, <2>1, <2>2, <2>4, VisitedKept DEF PlacedInv
<1>13. CASE WriteDirectory
  <2> DEFINE e == target.entry
             ps == Parents(target.path) \cup {target.path}
  <2>1. /\ pc = "write" /\ pc' = "next" /\ UNCHANGED <<target, mode>> /\ todo' = todo \ {e}
        /\ CanMakeDirs(ps) /\ tree' = WithDirs(ps) /\ IsDir(e)
    BY <1>13, <1>b DEF WriteDirectory, IsDirectory, Done, End
  <2>2. First(e) /\ ~Skipped(e) /\ PathOf(e) = target.path /\ target.path \in Paths
    BY <1>d, <2>1 DEF Working, Filling
  <2>3. ASSUME NEW p \in Paths PROVE Placed(p)'
    <3>1. Placed(p) /\ Visited(p)' = IF p = target.path THEN Visited(p) \cup {e} ELSE Visited(p)
      BY <1>a, <1>b, <2>1, <2>2, VisitedAdds
    <3>2. CASE p = target.path
      <4>1. tree'[p] = Directory
        BY <2>1, <3>2 DEF WithDirs
      <4>2. \A d : IsDir(d)' = IsDir(d)
        BY <1>b, ReadingsKept
      <4>3. PICK d : d = target.entry
        OBVIOUS
      <4>4. d \in Visited(p)' /\ IsDir(d)'
        BY <2>1, <3>1, <3>2, <4>2, <4>3
      <4> QED
        BY <4>1, <4>4, PlacedAsDirectory
    <3>3. CASE p # target.path /\ p \notin ps
      <4>1. tree'[p] = tree[p]
        BY <2>1, <3>3 DEF WithDirs
      <4> QED
        BY <1>b, <3>1, <3>3, <4>1, PlacedSame
    <3>4. CASE p # target.path /\ p \in ps
      <4>1. tree'[p] = Directory /\ tree[p].kind \in {"missing", "dir"}
        BY <2>1, <3>4 DEF WithDirs, CanMakeDirs
      <4> QED
        BY <1>b, <3>1, <3>4, <4>1, PlacedDirectory
    <3> QED
      BY <3>2, <3>3, <3>4
  <2>4. \A d \in Selected' \ todo', c \in todo' : Earlier(d, c)'
    BY <1>a, <1>b, <2>1, <2>2, VisitedAdds
  <2> QED
    BY <1>a, <1>b, <2>1, <2>3, <2>4 DEF PlacedInv
<1>14. CASE Copy
  <2> DEFINE e == target.entry
  <2>1. pc = "copy" /\ UNCHANGED <<target, mode>> /\ tree[target.path] = File(e, FALSE)
    BY <1>14, <1>a DEF Copy
  <2>2. pc' = "next" /\ todo' = todo \ {e} /\ tree' = [tree EXCEPT ![target.path] = File(e, TRUE)]
    BY <1>14, <1>b, <2>1 DEF Copy, Done, End, Put
  <2>3. /\ First(e) /\ ~Skipped(e) /\ PathOf(e) = target.path /\ target.path \in Paths
        /\ ~IsDir(e) /\ e \in todo /\ e \in Nat
    BY <1>d, <2>1, TargetTypes DEF Working, Filling, StageInv, IsDirectory
  <2>4. ASSUME NEW p \in Paths PROVE Placed(p)'
    <3>1. Placed(p) /\ Visited(p)' = IF p = target.path THEN Visited(p) \cup {e} ELSE Visited(p)
      BY <1>a, <1>b, <2>2, <2>3, VisitedAdds
    <3>2. CASE p = target.path
      <4>1. tree[p].kind # "dir"
        BY <2>1, <3>2 DEF File
      <4>2. \A d \in Visited(p) : ~IsDir(d)
        BY <3>1, <4>1 DEF Placed
      <4>3. \A d \in Visited(p) : d \in Nat /\ d < e
        <5> SUFFICES ASSUME NEW d \in Visited(p) PROVE d \in Nat /\ d < e
          OBVIOUS
        <5>1. d \in Selected \ todo /\ d \in Nat
          BY ArchiveAssumption DEF Visited, Selected, TypeOK
        <5>2. Earlier(d, e)
          BY <1>a, <2>3, <5>1
        <5> QED
          BY <2>3, <4>2, <5>1, <5>2 DEF Earlier
      <4>4. Newest(Visited(p)') = e
        <5>1. Visited(p)' \in SUBSET Nat /\ e \in Visited(p)' /\ \A d \in Visited(p)' : d <= e
          BY <2>3, <3>1, <3>2, <4>3
        <5> QED
          BY <5>1, NewestIs
      <4>5. \A d \in Visited(p)' : ~IsDir(d)'
        BY <1>b, <2>3, <3>1, <3>2, <4>2, ReadingsKept
      <4>6. tree'[p] = File(e, TRUE)
        BY <1>c, <2>2, <3>2
      <4>7. Newest(Visited(p))' = e
        BY <4>4 DEF Newest
      <4> QED
        BY <4>5, <4>6, <4>7 DEF Placed, File
    <3>3. CASE p # target.path
      <4>1. tree'[p] = tree[p]
        BY <1>c, <2>2, <3>3
      <4> QED
        BY <1>b, <3>1, <3>3, <4>1, PlacedSame
    <3> QED
      BY <3>2, <3>3
  <2>5. \A d \in Selected' \ todo', c \in todo' : Earlier(d, c)'
    BY <1>a, <1>b, <2>2, <2>3, VisitedAdds
  <2> QED
    BY <1>a, <1>b, <2>1, <2>2, <2>4, <2>5 DEF PlacedInv
<1>15. CASE WriteDirectory \/ MakeParents \/ RemoveFile \/ Replace \/ Create \/ Copy
  BY <1>9, <1>10, <1>11, <1>12, <1>13, <1>14, <1>15
<1> QED
  BY <1>2, <1>3, <1>4, <1>5, <1>6, <1>7, <1>15, NextCases, UndisturbedBefore DEF Change

-----------------------------------------------------------------------------
(* Before the first entry. *)
LEMMA InitHolds == Init => IInv
<1> SUFFICES ASSUME Init PROVE IInv
  OBVIOUS
<1>1. /\ tree \in [Paths -> {Missing, Directory, Link, File(0, TRUE)}] /\ archive \in Archives
      /\ \A p \in Paths : tree[p] # Missing => \A q \in Parents(p) : tree[q] = Directory
  BY TreeAssumption DEF Init
<1>2. TypeOK
  BY <1>1, Nodes DEF Init, TypeOK
<1>3. pc \in {"next", "test"} /\ (pc = "test" <=> command.cmd = "t")
  BY DEF Init
<1>4. StageInv
  BY <1>3 DEF StageInv, Working, Filling
<1>5. TreeInv
  BY <1>1 DEF TreeInv, Reachable, Missing, Directory
<1>6. ConsentInv
  BY <1>3 DEF Init, ConsentInv
<1>7. PartialInv
  <2>1. \A p \in Paths : tree[p].full
    BY <1>1 DEF Missing, Directory, Link, File
  <2> QED
    BY <2>1 DEF PartialInv
<1>8. PlacedInv
  <2>1. Undisturbed => todo = Selected /\ mode # "SkipExisting" /\ pc = "next"
    BY DEF Init, Undisturbed
  <2>2. todo = Selected => \A p : Visited(p) = {}
    BY DEF Visited
  <2> QED
    BY <2>1, <2>2 DEF PlacedInv, Placed
<1>9. TestInv
  <2>1. command.cmd = "t" => todo = Tested /\ code = OK /\ failed = {} /\ last = 0 /\ pc = "test"
    BY DEF Init, Tested, FolderOf
  <2> QED
    BY <2>1 DEF TestInv, OpenInv
<1> QED
  BY <1>2, <1>4, <1>5, <1>6, <1>7, <1>8, <1>9 DEF IInv

(* The inductive invariant of the extract and test commands: the entry at  *)
(* hand is the first that is left, what was visited is in place, what is   *)
(* incomplete is being written, and every folder tested is judged or open. *)
THEOREM ExtractInvariant == Spec => []IInv
<1>1. IInv /\ [Next]_vars => IInv'
  BY TypeStep, StageStep, TreeStep, ConsentStep, PartialStep, PlacedStep, TestStep DEF IInv
<1> QED
  BY <1>1, InitHolds, PTL DEF Spec

(* Extraction::write and decide_overwrite remove a file of somebody else   *)
(* only with consent, although other programs act between check and write. *)
THEOREM LossesAgreedTo == Spec => []LossesAreAgreedTo
<1>1. IInv => LossesAreAgreedTo
  BY DEF IInv, ConsentInv, LossesAreAgreedTo
<1> QED
  BY <1>1, ExtractInvariant, PTL

(* A file that extract_to_writer leaves incomplete, for damage in the data *)
(* or in what is skipped before it, or for a failing write, means that the *)
(* command ends with the fatal exit code.                                  *)
THEOREM PartialReported == Spec => []PartialFilesAreReported
<1>1. IInv => PartialFilesAreReported
  BY DEF IInv, PartialInv, PartialFilesAreReported
<1> QED
  BY <1>1, ExtractInvariant, PTL

(* Exit code 0 of extract_archive means that every path holds the last     *)
(* selected entry for it, or a directory, when nobody else interferes.     *)
THEOREM SuccessComplete == Spec => []SuccessIsComplete
<1>1. IInv => SuccessIsComplete
  <2> SUFFICES ASSUME IInv, pc = "done", Undisturbed, NEW p \in Paths, GoesTo(p) # {}
               PROVE  IF \E e \in GoesTo(p) : IsDir(e) THEN tree[p].kind = "dir"
                      ELSE tree[p] = File(Newest(GoesTo(p)), TRUE)
    BY DEF SuccessIsComplete, Undisturbed
  <2>1. Placed(p) /\ todo = {}
    BY DEF IInv, PlacedInv
  <2>2. Visited(p) = GoesTo(p)
    BY <2>1 DEF Visited, GoesTo
  <2> QED
    BY <2>1, <2>2 DEF Placed, Filling
<1> QED
  BY <1>1, ExtractInvariant, PTL

(* test_selected_folders names exactly the folders in which something is   *)
(* wrong that the test vouches for: an entry up to the last one selected,  *)
(* skipped ones included, or any entry or the end of a folder that has a   *)
(* checksum.  It reports success exactly when there is none.               *)
THEOREM TestVerdict == Spec => []TestVerdictIsRight
<1>1. IInv => TestVerdictIsRight
  <2> SUFFICES ASSUME IInv, pc = "done", command.cmd = "t", Selected # {}
               PROVE  LET bad == {f \in {FolderOf(e) : e \in Selected} \ {0} : Faulty(f)}
                      IN failed = bad /\ (code = OK <=> bad = {})
    BY DEF TestVerdictIsRight
  <2> DEFINE bad == {f \in {FolderOf(e) : e \in Selected} \ {0} : Faulty(f)}
  <2>1. /\ code = IF failed = {} THEN OK ELSE Warning
        /\ \A f \in failed : Faulty(f) /\ \E e \in Tested : FolderOf(e) = f
        /\ \A e \in Tested : Faulty(FolderOf(e)) => FolderOf(e) \in failed \cup {Open}
        /\ last = 0
    BY DEF IInv, TestInv
  <2>2. \A f \in failed : f \in bad
    BY <2>1 DEF Tested
  <2>3. \A e \in Tested : Faulty(FolderOf(e)) => FolderOf(e) \in failed
    BY <2>1 DEF Open, Tested
  <2>4. \A f \in bad : f \in failed
    BY <2>3 DEF Tested
  <2>5. failed = bad
    BY <2>2, <2>4
  <2>6. code = OK <=> failed = {}
    BY <2>1 DEF OK, Warning
  <2> QED
    BY <2>5, <2>6
<1> QED
  BY <1>1, ExtractInvariant, PTL
=============================================================================

----------------------------- MODULE MoveApply -----------------------------
(***************************************************************************)
(* `structure-sweep move apply` (packages/structure-sweep/src/move/apply.ts): *)
(* rename the files of a plan in one commit and rewrite what names them in *)
(* a second, over a tree that was clean; a run cut short is taken up again *)
(* from what git says.  The user may clean up a half-made tree by throwing *)
(* it away or by committing it, as the refusal asks, and may commit other  *)
(* work on top.                                                            *)
(*                                                                         *)
(* A row moves one file.  What names it is an importer, a relative import  *)
(* in a file that stays, or the row's own: an import inside the moved file,*)
(* or an entry or dependency of its package, which only the plan of that   *)
(* row rewrites.  The refusals before the first commit change nothing and  *)
(* are left out, and so are the formatter and the lockfile.                *)
(***************************************************************************)
EXTENDS Naturals, FiniteSets

CONSTANTS
  MoveRows,        \* the rows of the plan
  MoveMaxCuts,     \* bound: runs cut short
  MoveMaxCommits   \* bound: commits the user makes

ASSUME MoveAssumption ==
  IsFiniteSet(MoveRows) /\ {MoveMaxCuts, MoveMaxCommits} \subseteq Nat

VARIABLES
  moveRefs,      \* what names a row's file: <<row, "importer" or "own">>
  moveHead,      \* the tree HEAD names: the rows renamed, the refs rewritten
  moveTree,      \* the working tree and index, likewise
  moveTop,       \* HEAD's own commit: its trailer, and the rows it renamed
  moveRun,       \* the run: where it is, the rows pending, the edits planned
  moveMade,      \* the commits apply made
  moveReturned,  \* the last run returned its report
  moveMuddled,   \* the user has committed while a rewrite was owed
  moveCuts, moveCommits

moveVars == <<moveRefs, moveHead, moveTree, moveTop, moveRun, moveMade,
              moveReturned, moveMuddled, moveCuts, moveCommits>>

NotMoving == [at |-> "idle", pending |-> {}, edits |-> {}]
OtherCommit == [step |-> "other", renamed |-> {}]

MoveInit ==
  /\ moveRefs \in SUBSET (MoveRows \X {"importer", "own"})
  /\ moveHead = [renamed |-> {}, rewritten |-> {}]
  /\ moveTree = moveHead
  /\ moveTop = OtherCommit /\ moveRun = NotMoving
  /\ moveMade = [rename |-> 0, rewrite |-> 0]
  /\ moveReturned = FALSE /\ moveMuddled = FALSE
  /\ moveCuts = 0 /\ moveCommits = 0

CleanTree == moveTree = moveHead

\* What still names the old path, in a tree with those rows renamed.
Stale(rows) == {ref \in moveRefs \ moveTree.rewritten : ref[1] \in rows}
Dangling(rows) == {ref \in Stale(rows) : ref[2] = "importer"}

-----------------------------------------------------------------------------

\* The rows whose rewrite is owed, if HEAD is this plan's rename commit.
MutRenamedAtHead == {}
RenamedAtHead == IF moveTop.step = "rename" THEN moveTop.renamed ELSE {}

MutRewriteOwed(rows) == rows # {}
RewriteOwed(rows) == rows # {} \/ Dangling(moveTree.renamed) # {}

\* Planned in memory: the refs of the rows, and every import that would dangle.
EditsFor(rows) ==
  IF RewriteOwed(rows) THEN Stale(rows) \union Dangling(rows \union moveTree.renamed) ELSE {}

BeginApply ==
  /\ moveRun.at = "idle" /\ CleanTree
  /\ LET pending == MoveRows \ moveTree.renamed
         rows == IF pending # {} THEN pending ELSE RenamedAtHead
     IN moveRun' = [at |-> "rename", pending |-> pending, edits |-> EditsFor(rows)]
  /\ moveReturned' = FALSE
  /\ UNCHANGED <<moveRefs, moveHead, moveTree, moveTop, moveMade, moveMuddled,
                 moveCuts, moveCommits>>

RenameRow(r) ==
  /\ moveRun.at = "rename" /\ r \in moveRun.pending \ moveTree.renamed
  /\ moveTree' = [moveTree EXCEPT !.renamed = @ \union {r}]
  /\ UNCHANGED <<moveRefs, moveHead, moveTop, moveRun, moveMade, moveReturned,
                 moveMuddled, moveCuts, moveCommits>>

CommitsAs(step, rows) ==
  /\ moveHead' = moveTree
  /\ moveTop' = [step |-> step, renamed |-> rows]
  /\ moveMade' = [moveMade EXCEPT ![step] = @ + 1]

CommitRenames ==
  /\ moveRun.at = "rename" /\ moveRun.pending \subseteq moveTree.renamed
  /\ IF moveRun.pending # {} THEN CommitsAs("rename", moveRun.pending)
     ELSE UNCHANGED <<moveHead, moveTop, moveMade>>
  /\ moveRun' = [moveRun EXCEPT !.at = "rewrite"]
  /\ UNCHANGED <<moveRefs, moveTree, moveReturned, moveMuddled, moveCuts, moveCommits>>

WriteEdit(ref) ==
  /\ moveRun.at = "rewrite" /\ ref \in moveRun.edits \ moveTree.rewritten
  /\ moveTree' = [moveTree EXCEPT !.rewritten = @ \union {ref}]
  /\ UNCHANGED <<moveRefs, moveHead, moveTop, moveRun, moveMade, moveReturned,
                 moveMuddled, moveCuts, moveCommits>>

CommitRewrite ==
  /\ moveRun.at = "rewrite" /\ moveRun.edits \subseteq moveTree.rewritten
  /\ IF ~CleanTree THEN CommitsAs("rewrite", {})
     ELSE UNCHANGED <<moveHead, moveTop, moveMade>>
  /\ moveRun' = NotMoving /\ moveReturned' = TRUE
  /\ UNCHANGED <<moveRefs, moveTree, moveMuddled, moveCuts, moveCommits>>

\* Killed, or git refuses (a commit hook, say).
CutShort ==
  /\ moveRun.at # "idle" /\ moveCuts < MoveMaxCuts
  /\ moveRun' = NotMoving /\ moveCuts' = moveCuts + 1
  /\ UNCHANGED <<moveRefs, moveHead, moveTree, moveTop, moveMade, moveReturned,
                 moveMuddled, moveCommits>>

-----------------------------------------------------------------------------

DiscardChanges ==
  /\ moveRun.at = "idle" /\ ~CleanTree
  /\ moveTree' = moveHead
  /\ UNCHANGED <<moveRefs, moveHead, moveTop, moveRun, moveMade, moveReturned,
                 moveMuddled, moveCuts, moveCommits>>

\* What a run left half made, or other work on top of a clean tree.
CommitByHand ==
  /\ moveRun.at = "idle" /\ moveCommits < MoveMaxCommits
  /\ ~CleanTree \/ moveTop # OtherCommit
  /\ moveHead' = moveTree /\ moveTop' = OtherCommit
  /\ moveCommits' = moveCommits + 1
  /\ moveMuddled' = (moveMuddled \/ Stale(moveTree.renamed) # {})
  /\ UNCHANGED <<moveRefs, moveTree, moveRun, moveMade, moveReturned, moveCuts>>

MoveNext ==
  \/ BeginApply \/ CommitRenames \/ CommitRewrite \/ CutShort
  \/ DiscardChanges \/ CommitByHand
  \/ \E r \in MoveRows : RenameRow(r)
  \/ \E ref \in moveRefs : WriteEdit(ref)

MoveSpec == MoveInit /\ [][MoveNext]_moveVars

-----------------------------------------------------------------------------

(* Wherever runs are cut short and however the user cleans up: a rename is *)
(* committed with no text changed, so git scores it 100%; nothing committed *)
(* names a path before its file is there; once a run returned every file   *)
(* has moved and no import dangles.  Unless the user committed while a     *)
(* rewrite was owed, nothing at all names an old path then, and all runs   *)
(* together made one commit of each kind at most ("a re-run over a         *)
(* finished manifest commits nothing").                                    *)
MovesAreWhole ==
  /\ moveRun.at = "rename" => moveTree.rewritten = moveHead.rewritten
  /\ \A ref \in moveHead.rewritten : ref[1] \in moveHead.renamed
  /\ moveReturned => /\ moveHead.renamed = MoveRows
                     /\ Dangling(MoveRows) = {}
  /\ ~moveMuddled => /\ moveReturned => Stale(MoveRows) = {}
                     /\ moveMade.rename <= 1 /\ moveMade.rewrite <= 1
=============================================================================

----------------------------- MODULE FilesProofs -----------------------------
(***************************************************************************)
(* For any savers, any values and at most one taker, through any errors,   *)
(* deaths and power cuts: the types; that Files implements SavedFile; and  *)
(* that a save which met no other and is cut off leaves the old contents   *)
(* or the new ones under one of the two names.                             *)
(*                                                                         *)
(* The argument. A saver that has not been crossed is alone at work        *)
(* (Alone), so path.tmp is what it wrote (Writing) and what it renames is  *)
(* complete. A posting is never put twice (Held), and what is handed out   *)
(* is gone or has outlived a delete it was not yet handed out for          *)
(* (Reading, Handed). The old contents are deleted only when the new ones  *)
(* are complete and closed (Keeping).                                      *)
(***************************************************************************)
EXTENDS Files, TLAPS

Alone == \A p, q \in Savers :
    saver[p].at # "idle" /\ saver[q].at # "idle" /\ p # q => p \in crossed

Writing == \A p \in Savers :
    /\ saver[p].at \in {"opened", "written"} <=> tmpOpen = p
    /\ saver[p].at = "opened" => saver[p].data \in asked \ put
    /\ saver[p].at = "written" => tmp = saver[p].data
    /\ (saver[p].at \in {"closed", "deleted"} /\ p \notin crossed) => tmp = saver[p].data
    /\ p \in crossed => saver[p].at # "idle"

Held == /\ tmp \in Values => tmp \in asked \ put
        /\ put \subseteq asked \cup {Torn}
        /\ target \in put \cup {NoFile}

Reading == \A t \in Takers :
    /\ taker[t].at = "reading" <=> targetOpen = t
    /\ taker[t].at = "reading" => target # NoFile
    /\ taker[t].at \in {"read", "removed"} => taker[t].got \in put
    /\ (taker[t].at \in {"read", "removed"} /\ taker[t].got \in Values) =>
           given[taker[t].got] <= kept[taker[t].got]
    /\ (taker[t].at = "removed" /\ taker[t].got \in Values /\ target = taker[t].got) =>
           given[target] < kept[target]

Handed == \A v \in Values : /\ given[v] # 0 => v \in put
                            /\ target = v => given[v] <= kept[v]

IInv == TypeOK /\ Alone /\ Writing /\ Held /\ Reading /\ Handed

USE DEF Contents, Resting, Away

\* A taker has what it reads open, and it stays there.
Whose == \A t \in Takers : /\ taker[t].at = "reading" <=> targetOpen = t
                           /\ taker[t].at = "reading" => target # NoFile

\* The contents of the path have a place in `kept`, which MaxKept bounds.
LEMMA RemoveTypes ==
    ASSUME TypeOK, Whose, NEW t \in Takers, Remove(t)
    PROVE  TypeOK' /\ Whose'
<1>1. kept' \in [Contents -> 0..MaxKept]
  <2>1. CASE UNCHANGED kept
    BY <2>1 DEF TypeOK
  <2>2. CASE /\ target = taker[t].got /\ kept[target] < MaxKept
             /\ kept' = [kept EXCEPT ![target] = @ + 1]
    <3>1. target \in Contents
      BY <2>2 DEF Remove, TypeOK
    <3>2. kept[target] + 1 \in 0..MaxKept
      BY <2>2, <3>1, KeptAssumption DEF TypeOK
    <3> QED BY <2>2, <3>1, <3>2 DEF TypeOK
  <2> QED BY <2>1, <2>2 DEF Remove
<1>2. target' \in Contents \cup {NoFile}
  BY DEF Remove, TypeOK
<1>3. saver' \in [Savers -> [at : {"idle", "opened", "written", "closed", "deleted"},
                             data : Values \cup {NoFile}, over : Contents \cup {NoFile}]]
  BY DEF Remove, TypeOK
<1>4. Whose'
  BY DistinctAssumption DEF Remove, TypeOK, Whose
<1> QED BY <1>1, <1>2, <1>3, <1>4 DEF Remove, TypeOK

\* Everything is at rest, and nothing was ever saved.
LEMMA Initially == Init => IInv
BY DistinctAssumption, KeptAssumption DEF Init, IInv, TypeOK, Alone, Writing, Held, Reading, Handed

\* A save that begins truncates path.tmp, and crosses whoever may have closed it.
LEMMA BeginKeeps ==
    ASSUME IInv, NEW p \in Savers, NEW v \in Values, Begin(p, v)
    PROVE  IInv'
BY DistinctAssumption DEF Begin, Met, Saving, IInv, TypeOK, Alone, Writing, Held, Reading, Handed

LEMMA WriteKeeps ==
    ASSUME IInv, NEW p \in Savers, Write(p)
    PROVE  IInv'
BY DistinctAssumption DEF Write, Moves, Returns, IInv, TypeOK, Alone, Writing, Held, Reading, Handed

LEMMA CloseKeeps ==
    ASSUME IInv, NEW p \in Savers, Close(p)
    PROVE  IInv'
BY DistinctAssumption DEF Close, Moves, watch, IInv, TypeOK, Alone, Writing, Held, Reading, Handed

LEMMA DeleteTargetKeeps ==
    ASSUME IInv, NEW p \in Savers, DeleteTarget(p)
    PROVE  IInv'
BY DistinctAssumption DEF DeleteTarget, Moves, Returns, IInv, TypeOK, Alone, Writing, Held, Reading, Handed

LEMMA RenameKeeps ==
    ASSUME IInv, NEW p \in Savers, Rename(p)
    PROVE  IInv'
BY DistinctAssumption DEF Rename, Returns, IInv, TypeOK, Alone, Writing, Held, Reading, Handed

LEMMA LookKeeps ==
    ASSUME IInv, NEW t \in Takers, Look(t)
    PROVE  IInv'
BY DistinctAssumption, TakerAssumption DEF Look, Readable, watch, IInv, TypeOK, Alone, Writing, Held, Reading, Handed

LEMMA ReadKeeps ==
    ASSUME IInv, NEW t \in Takers, Read(t)
    PROVE  IInv'
BY DistinctAssumption, TakerAssumption DEF Read, watch, IInv, TypeOK, Alone, Writing, Held, Reading, Handed

\* What is still there after the delete is counted before it is handed out.
LEMMA RemoveKeeps ==
    ASSUME IInv, NEW t \in Takers, Remove(t)
    PROVE  IInv'
<1>1. TypeOK'
  BY RemoveTypes DEF IInv, Reading, Whose
<1>2. /\ taker' = [taker EXCEPT ![t].at = "removed"]
      /\ UNCHANGED <<tmp, targetOpen, tmpOpen, crossed, asked, put, given>>
      /\ taker[t].at = "read"
      /\ \A s \in Takers : s = t
      /\ taker[t].got \in put
  BY TakerAssumption DEF Remove, IInv, Reading
<1>3. /\ taker'[t].at = "removed" /\ taker'[t].got = taker[t].got
  BY <1>2 DEF IInv, TypeOK
<1>4. \A p \in Savers : saver'[p].at = saver[p].at /\ saver'[p].data = saver[p].data
  BY DEF Remove, IInv, TypeOK
<1>5. Alone' /\ Writing'
  BY <1>2, <1>4 DEF IInv, Alone, Writing
<1>6. Held'
  BY <1>2 DEF Remove, IInv, Held
<1>7. CASE target' = NoFile /\ kept' = kept
  <2>1. Handed'
    BY <1>2, <1>7, DistinctAssumption DEF IInv, Handed
  <2>2. Reading'
    BY <1>2, <1>3, <1>7, DistinctAssumption DEF IInv, TypeOK, Reading
  <2> QED BY <1>1, <1>5, <1>6, <2>1, <2>2 DEF IInv
<1>8. CASE target' = target /\ target # taker[t].got /\ kept' = kept
  <2>1. Handed'
    BY <1>2, <1>8 DEF IInv, Handed
  <2>2. Reading'
    BY <1>2, <1>3, <1>8 DEF IInv, Reading
  <2> QED BY <1>1, <1>5, <1>6, <2>1, <2>2 DEF IInv
<1>9. CASE target' = target /\ target = taker[t].got /\ kept' = [kept EXCEPT ![target] = @ + 1]
  <2>1. target \in Contents /\ kept \in [Contents -> Nat] /\ given \in [Contents -> Nat]
    BY <1>2, <1>9, KeptAssumption DEF IInv, TypeOK
  <2>2. \A v \in Contents : /\ v # target => kept'[v] = kept[v]
                            /\ v = target => kept'[v] = kept[v] + 1
    BY <1>9, <2>1
  <2>3. target \in Values => given[target] <= kept[target]
    BY DEF IInv, Handed
  <2>4. target \in Values => given[target] < kept'[target]
    BY <2>1, <2>2, <2>3
  <2>5. Handed'
    BY <1>2, <1>9, <2>1, <2>4 DEF IInv, Handed
  <2>6. Reading'
    BY <1>2, <1>3, <1>9, <2>1, <2>4 DEF IInv, TypeOK, Reading
  <2> QED BY <1>1, <1>5, <1>6, <2>5, <2>6 DEF IInv
<1> QED
  BY <1>7, <1>8, <1>9 DEF Remove

LEMMA HandKeeps ==
    ASSUME IInv, NEW t \in Takers, Hand(t)
    PROVE  IInv'
BY DistinctAssumption, TakerAssumption DEF Hand, files, IInv, TypeOK, Alone, Writing, Held, Reading, Handed

LEMMA EndsKeeps ==
    ASSUME IInv, NEW dead, Ends(dead)
    PROVE  IInv'
BY DistinctAssumption DEF Ends, watch, IInv, TypeOK, Alone, Writing, Held, Reading, Handed

\* No step leaves the invariant.
LEMMA NextKeeps ==
    ASSUME IInv, [Next]_vars
    PROVE  IInv'
<1>1. CASE UNCHANGED vars
  BY <1>1 DEF vars, files, watch, IInv, TypeOK, Alone, Writing, Held, Reading, Handed
<1>2. CASE Next
  <2>1. ASSUME NEW p \in Savers, NEW v \in Values, Begin(p, v) PROVE IInv'
    BY <2>1, BeginKeeps
  <2>2. ASSUME NEW p \in Savers, Write(p) \/ Close(p) \/ DeleteTarget(p) \/ Rename(p)
        PROVE  IInv'
    BY <2>2, WriteKeeps, CloseKeeps, DeleteTargetKeeps, RenameKeeps
  <2>3. ASSUME NEW t \in Takers, Look(t) \/ Read(t) \/ Remove(t) \/ Hand(t) PROVE IInv'
    BY <2>3, LookKeeps, ReadKeeps, RemoveKeeps, HandKeeps
  <2>4. ASSUME NEW p \in Savers \cup Takers, Dies(p) PROVE IInv'
    BY <2>4, EndsKeeps DEF Dies
  <2>5. CASE PowerCut
    BY <2>5, EndsKeeps DEF PowerCut
  <2>6. QED
    BY <1>2, <2>1, <2>2, <2>3, <2>4, <2>5 DEF Next
<1>3. QED
  BY <1>1, <1>2

\* The invariant holds throughout.
LEMMA Invariance == Spec => []IInv
<1>1. Init => IInv
  BY Initially
<1>2. IInv /\ [Next]_vars => IInv'
  BY NextKeeps
<1>3. QED
  BY <1>1, <1>2, PTL DEF Spec

LEMMA SaverTypes ==
    ASSUME TypeOK, Whose, NEW p \in Savers,
           \/ \E v \in Values : Begin(p, v)
           \/ Write(p) \/ Close(p) \/ DeleteTarget(p) \/ Rename(p)
    PROVE  TypeOK' /\ Whose'
<1>1. ASSUME NEW v \in Values, Begin(p, v) PROVE TypeOK' /\ Whose'
  BY <1>1 DEF Begin, Met, Saving, TypeOK, Whose
<1>2. CASE Write(p)
  BY <1>2 DEF Write, Moves, Returns, TypeOK, Whose
<1>3. CASE Close(p)
  BY <1>3 DEF Close, Moves, watch, TypeOK, Whose
<1>4. CASE DeleteTarget(p)
  BY <1>4, DistinctAssumption DEF DeleteTarget, Moves, Returns, TypeOK, Whose
<1>5. CASE Rename(p)
  BY <1>5, DistinctAssumption DEF Rename, Returns, TypeOK, Whose
<1> QED BY <1>1, <1>2, <1>3, <1>4, <1>5

LEMMA TakerTypes ==
    ASSUME TypeOK, Whose, NEW t \in Takers, Look(t) \/ Read(t) \/ Remove(t) \/ Hand(t)
    PROVE  TypeOK' /\ Whose'
<1>1. CASE Look(t)
  BY <1>1, DistinctAssumption DEF Look, Readable, watch, TypeOK, Whose
<1>2. CASE Read(t)
  BY <1>2, DistinctAssumption DEF Read, watch, TypeOK, Whose
<1>3. CASE Remove(t)
  BY <1>3, RemoveTypes
<1>4. CASE Hand(t)
  BY <1>4, DistinctAssumption DEF Hand, files, TypeOK, Whose
<1> QED BY <1>1, <1>2, <1>3, <1>4

\* The contents of both files, who has them open, and where each process is in its call
\* keep their types; a taker that goes on to delete has read a file that was there.
THEOREM TypeHolds == Spec => []TypeOK
<1>1. Init => TypeOK /\ Whose
  BY DistinctAssumption, KeptAssumption DEF Init, TypeOK, Whose
<1>2. TypeOK /\ Whose /\ [Next]_vars => (TypeOK /\ Whose)'
  <2> SUFFICES ASSUME TypeOK, Whose, [Next]_vars PROVE TypeOK' /\ Whose'
    OBVIOUS
  <2>1. ASSUME NEW dead, Ends(dead) PROVE TypeOK' /\ Whose'
    BY <2>1, DistinctAssumption DEF Ends, watch, TypeOK, Whose
  <2>2. CASE UNCHANGED vars
    BY <2>2 DEF vars, files, watch, TypeOK, Whose
  <2> QED BY <2>1, <2>2, SaverTypes, TakerTypes DEF Next, Dies, PowerCut
<1> QED BY <1>1, <1>2, PTL DEF Spec

\* Until a save deletes the path it has what was there when the save began.
Keeping == \A p \in Savers \ crossed :
    saver[p].at \in {"opened", "written", "closed"} => target = saver[p].over

LEMMA KeepingStays ==
    ASSUME IInv, Keeping, [Next]_vars
    PROVE  Keeping'
<1>1. saver \in [Savers -> [at : {"idle", "opened", "written", "closed", "deleted"},
                            data : Values \cup {NoFile}, over : Contents \cup {NoFile}]]
  BY DEF IInv, TypeOK
<1>2. ASSUME NEW p \in Savers, NEW v \in Values, Begin(p, v) PROVE Keeping'
  BY <1>1, <1>2 DEF Begin, Met, Saving, Keeping
<1>3. ASSUME NEW p \in Savers, Write(p) PROVE Keeping'
  BY <1>1, <1>3 DEF Write, Moves, Returns, Keeping
<1>4. ASSUME NEW p \in Savers, Close(p) PROVE Keeping'
  BY <1>1, <1>4 DEF Close, Moves, Keeping
<1>5. ASSUME NEW p \in Savers, DeleteTarget(p) PROVE Keeping'
  BY <1>1, <1>5 DEF DeleteTarget, Moves, Returns, Keeping, IInv, Alone
<1>6. ASSUME NEW p \in Savers, Rename(p) PROVE Keeping'
  BY <1>1, <1>6 DEF Rename, Returns, Keeping, IInv, Alone
<1>7. ASSUME NEW dead, Ends(dead) PROVE Keeping'
  BY <1>1, <1>7 DEF Ends, Keeping
<1>8. ASSUME NEW t \in Takers, Remove(t) PROVE Keeping'
  BY <1>1, <1>8 DEF Remove, Saving, Keeping
<1>9. ASSUME NEW t \in Takers, Look(t) \/ Read(t) \/ Hand(t) PROVE Keeping'
  BY <1>9 DEF Look, Read, Hand, files, Keeping
<1>10. CASE UNCHANGED vars
  BY <1>10 DEF vars, files, Keeping
<1> QED BY <1>2, <1>3, <1>4, <1>5, <1>6, <1>7, <1>8, <1>9, <1>10 DEF Next, Dies, PowerCut

\* A save that has met no other and is cut off anywhere leaves the old contents in the path,
\* as far as no taker has removed them, or the new ones, complete, in path.tmp: what
\* write_atomic keeps of "either the old contents or the new ones" (fs.rs).
THEOREM NothingIsLostAtOnce == Spec => []OldOrNewSomewhere
<1>1. Init => Keeping
  BY DEF Init, Keeping
<1>2. IInv /\ Keeping /\ [Next]_vars => Keeping'
  BY KeepingStays
<1>3. IInv /\ Keeping => OldOrNewSomewhere
  BY DEF IInv, TypeOK, Writing, Keeping, Saving, OldOrNewSomewhere
<1> QED BY <1>1, <1>2, <1>3, Invariance, PTL DEF Spec
------------------------------------------------------------------------------
(* The refinement: DeleteTarget is Vanish, Remove is Vanish or Keep, Rename is Put, Hand is *)
(* Give, Begin is Ask, and the rest changes nothing the two sides see.                      *)

SeenUnchanged == UNCHANGED <<target, asked, put, given, kept>>

LEMMA UnseenRests == SeenUnchanged => Promise!FNext
BY DEF SeenUnchanged, Promise!FNext, Promise!Rest

LEMMA BeginAsks ==
    ASSUME NEW p \in Savers, NEW v \in Values, Begin(p, v)
    PROVE  Promise!FNext
BY DEF Begin, Promise!FNext, Promise!Ask

LEMMA WriteIsUnseen ==
    ASSUME NEW p \in Savers, Write(p) \/ Close(p)
    PROVE  SeenUnchanged
BY DEF Write, Close, Moves, Returns, watch, SeenUnchanged

LEMMA DeleteTargetVanishes ==
    ASSUME NEW p \in Savers, DeleteTarget(p)
    PROVE  Promise!FNext
<1>1. CASE target' = NoFile
  BY <1>1 DEF DeleteTarget, Moves, Returns, AtWork, Promise!FNext, Promise!Vanish
<1>2. CASE target' # NoFile
  BY <1>2, UnseenRests DEF DeleteTarget, Moves, Returns, SeenUnchanged
<1>3. QED
  BY <1>1, <1>2

LEMMA RenamePuts ==
    ASSUME IInv, NEW p \in Savers, Rename(p)
    PROVE  Promise!FNext
<1>1. CASE target' = tmp /\ tmp # NoFile /\ put' = put \cup {tmp}
  <2>1. AtWork
    BY DEF Rename, AtWork
  <2>2. tmp \in Promise!Holdable
    BY <1>1 DEF IInv, TypeOK, Promise!Holdable
  <2>3. tmp \in asked \ put \/ (tmp = Torn /\ crossed # {})
    BY <1>1, DistinctAssumption DEF Rename, IInv, Writing, Held, TypeOK
  <2>4. Promise!Put(tmp)
    BY <1>1, <2>1, <2>3 DEF Rename, Returns, Promise!Put
  <2>5. QED
    BY <2>2, <2>4 DEF Promise!FNext
<1>2. CASE Returns(p, "deleted")
  BY <1>2, UnseenRests DEF Rename, Returns, SeenUnchanged
<1>3. QED
  BY <1>1, <1>2 DEF Rename

LEMMA LookIsUnseen ==
    ASSUME NEW t \in Takers, Look(t) \/ Read(t)
    PROVE  SeenUnchanged
BY DEF Look, Read, watch, SeenUnchanged

LEMMA RemoveVanishes ==
    ASSUME IInv, NEW t \in Takers, Remove(t)
    PROVE  Promise!FNext
<1>1. AtWork
  BY DEF Remove, AtWork
<1>2. CASE target' = NoFile /\ UNCHANGED <<asked, put, given, kept>>
  BY <1>1, <1>2 DEF Promise!FNext, Promise!Vanish
<1>3. CASE UNCHANGED <<target, asked, put, given, kept>>
  BY <1>3, UnseenRests DEF SeenUnchanged
<1>4. CASE /\ target = taker[t].got /\ kept' = [kept EXCEPT ![target] = @ + 1]
           /\ UNCHANGED <<target, asked, put, given>>
  <2>1. target \in Promise!Holdable
    BY <1>4, DistinctAssumption DEF Remove, IInv, TypeOK, Promise!Holdable
  <2>2. Promise!Keep(target)
    BY <1>1, <1>4 DEF Promise!Keep
  <2>3. QED
    BY <2>1, <2>2 DEF Promise!FNext
<1>5. QED
  BY <1>2, <1>3, <1>4 DEF Remove

LEMMA HandGives ==
    ASSUME IInv, NEW t \in Takers, Hand(t)
    PROVE  Promise!FNext
<1>1. PICK v \in Promise!Holdable : v = taker[t].got
  BY DEF Hand, IInv, TypeOK, Promise!Holdable
<1>2. v \in put
  BY <1>1 DEF Hand, IInv, Reading
<1>3. v \in Values => given[v] <= kept[v] /\ (target = v => given[v] < kept[v])
  BY <1>1 DEF Hand, IInv, Reading
<1>4. given' = [given EXCEPT ![v] = @ + 1]
  BY <1>1 DEF Hand
<1>5. Promise!Give(v)
  BY <1>2, <1>3, <1>4 DEF Hand, files, Promise!Give
<1>6. QED
  BY <1>5 DEF Promise!FNext

LEMMA EndsIsUnseen ==
    ASSUME NEW dead, Ends(dead)
    PROVE  SeenUnchanged
BY DEF Ends, watch, SeenUnchanged

\* Each step of the processes is a step of the file they share.
LEMMA NextIsPromised ==
    ASSUME IInv, Next
    PROVE  Promise!FNext
<1>1. ASSUME NEW p \in Savers, NEW v \in Values, Begin(p, v) PROVE Promise!FNext
  BY <1>1, BeginAsks
<1>2. ASSUME NEW p \in Savers, Write(p) \/ Close(p) \/ DeleteTarget(p) \/ Rename(p)
      PROVE  Promise!FNext
  BY <1>2, WriteIsUnseen, UnseenRests, DeleteTargetVanishes, RenamePuts
<1>3. ASSUME NEW t \in Takers, Look(t) \/ Read(t) \/ Remove(t) \/ Hand(t)
      PROVE  Promise!FNext
  BY <1>3, LookIsUnseen, UnseenRests, RemoveVanishes, HandGives
<1>4. ASSUME NEW p \in Savers \cup Takers, Dies(p) PROVE Promise!FNext
  BY <1>4, EndsIsUnseen, UnseenRests DEF Dies
<1>5. CASE PowerCut
  BY <1>5, EndsIsUnseen, UnseenRests DEF PowerCut
<1>6. QED
  BY <1>1, <1>2, <1>3, <1>4, <1>5 DEF Next

\* Whoever dies and whenever the power goes, the path holds a complete posting or nothing,
\* lacks one only for a save or a take under way, and gives each posting out once at most;
\* except that saves that cross may leave a part of one, and that a posting whose delete
\* failed is given out again.
THEOREM FilesKeepWhole == Spec => KeepsWhole
<1>1. Init => Promise!FInit
  BY DEF Init, AtWork, Promise!FInit, Promise!Holdable
<1>2. IInv /\ [Next]_vars => [Promise!FNext]_(Promise!fvars)
  <2>1. IInv /\ Next => Promise!FNext
    BY NextIsPromised
  <2>2. UNCHANGED vars => UNCHANGED Promise!fvars
    BY DEF vars, files, watch, AtWork, Promise!fvars
  <2>3. QED
    BY <2>1, <2>2
<1>3. QED
  BY <1>1, <1>2, Invariance, PTL DEF Spec, KeepsWhole, Promise!FSpec
==============================================================================

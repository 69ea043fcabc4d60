------------------------- MODULE WriteLock_proofs -------------------------
(***************************************************************************)
(* For any number of processes and every bound: who commits, what a lock   *)
(* file without metadata means, and, as long as at most two live processes *)
(* compete for a dead owner's lock, that a writer is alone and overwrites  *)
(* nothing.  A third competitor is where the protocol stops excluding: one *)
(* moves the lock of another aside, and the third creates its own.         *)
(***************************************************************************)
EXTENDS WriteLock, FiniteSetTheorems, TLAPS

----------------------------------------------------------------------------
(* The invariants *)

\* What one process does: Next is some process's act.
Act(w) ==
    \/ Preview(w) \/ CreateLock(w) \/ WriteOwner(w) \/ WriteOwnerFails(w) \/ VerifyOwner(w)
    \/ Examine(w) \/ Judge(w) \/ Recheck(w) \/ MoveAside(w) \/ Confirm(w)
    \/ Reread(w) \/ AssertOwnership(w) \/ Replace(w) \/ ReplaceFails(w)
    \/ Release(w) \/ Unlink(w) \/ Crash(w)

Holding == {"write", "verify", "release", "unlink"} \cup Critical
Taking  == {"recheck", "move", "confirm"}

\* The process examined the metadata of somebody who is dead by now, and there
\* is a dead process before the start only if its lock was there.
Judged ==
    /\ \A w \in Writers : pc[w] \in Taking \cup {"judge"} => seen[w] # None
    /\ \A w \in Writers : pc[w] \in Taking => Dead(seen[w])
    /\ Old \notin LocksBefore =>
         /\ lock # Old
         /\ \A w \in Writers : aside[w] # Old /\ seen[w] # Old

\* Once past the writing of the metadata they are complete.
Complete == \A w \in Writers : pc[w] \in Holding \ {"write"} => w \in written

\* Without a dead owner nobody ever moves a lock: each one at the path is held.
Calm ==
    Old \notin LocksBefore /\ MaxCrashes = 0 =>
        \A w \in Writers : /\ pc[w] \notin {"crashed", "move", "confirm"}
                           /\ lock = w => pc[w] \in Holding

\* Two processes at most are alive when one of them moves a lock.
Paired ==
    \A u, v, w \in Writers :
        u # v /\ v # w /\ u # w /\ pc[u] \in {"move", "confirm"} =>
            pc[v] \in Ended \/ pc[w] \in Ended

\* Beside a holder nobody alive holds, and the holder's lock is at its path or
\* was moved by one who will find that it is not the lock it judged.
Alone ==
    \A w, v \in Writers : w # v /\ pc[w] \in Holding /\ pc[v] \notin Ended =>
        /\ pc[v] \notin Holding
        /\ \/ lock = w
           \/ pc[v] = "confirm" /\ aside[v] = w

\* What a process found unchanged under the lock is unchanged until it renames.
Current == \A w \in Writers :
    pc[w] \in {"staging", "checking", "replace"} => base[w] = doc

Locked == Judged /\ Complete /\ Calm /\ Paired /\ Alone /\ Current

\* At most two processes compete for the lock of a dead owner: nobody dies,
\* or there are two writers, or three and no stale lock at the start, so that one of
\* them is the dead owner.
FewContenders ==
    \/ Old \notin LocksBefore /\ MaxCrashes = 0
    \/ \A u, v, w \in Writers : u = v \/ v = w \/ u = w
    \/ /\ Old \notin LocksBefore
       /\ \A t, u, v, w \in Writers :
            t = u \/ t = v \/ t = w \/ u = v \/ u = w \/ v = w

\* Until the first commit, and without a mishap, the first owner is on its way.
UnderWay ==
    Smooth /\ doc = 0 /\ Old \notin LocksBefore =>
        /\ lock # Old
        /\ lock = None => \A w \in Writers : pc[w] \in {"idle", "lock"}
        /\ \A w \in Writers : base[w] = 0
        /\ lock \in Writers =>
             /\ pc[lock] \in {"write", "verify"} \cup Critical
             /\ pc[lock] # "write" => lock \in written
             /\ \A v \in Writers \ {lock} :
                  /\ pc[v] \in {"idle", "lock", "examine", "judge", "failed"}
                  /\ pc[v] = "judge" => seen[v] = lock

\* IncompleteLockExplained, of the locks moved aside too.
Explained(file) ==
    file \notin written \cup {None} =>
        pc[file] \in {"write", "crashed"} \/ mishaps.failures > 0

AllExplained ==
    /\ Old \in written
    /\ Explained(lock) /\ \A w \in Writers : Explained(aside[w])

----------------------------------------------------------------------------
(* Steps *)

\* A step keeps the types, and metadata are examined only when complete.
LEMMA TypeStep ==
    ASSUME TypeOK, NEW w \in Writers, Act(w)
    PROVE  TypeOK'
<1> USE LockAssumption DEF TypeOK, Owners, At, Goto, Holds, Mishap, Files, Rest,
       Places, Acquiring, Critical, Ended
<1>1. CASE CreateLock(w)
  BY <1>1 DEF CreateLock
<1>2. CASE Examine(w)
  BY <1>2 DEF Examine
<1>3. CASE MoveAside(w)
  BY <1>3 DEF MoveAside
<1>4. CASE Confirm(w)
  BY <1>4 DEF Confirm
<1>5. CASE Replace(w)
  BY <1>5 DEF Replace
<1>6. CASE Preview(w) \/ WriteOwner(w) \/ WriteOwnerFails(w) \/
           VerifyOwner(w) \/ Judge(w) \/ Recheck(w) \/ Reread(w) \/
           AssertOwnership(w) \/ ReplaceFails(w) \/ Release(w) \/ Unlink(w)
           \/ Crash(w)
  BY <1>6 DEF Preview, WriteOwner, WriteOwnerFails, VerifyOwner, Judge,
     Recheck, Reread, AssertOwnership, ReplaceFails, Release, Unlink, Crash
<1>q. QED
  BY <1>1, <1>2, <1>3, <1>4, <1>5, <1>6 DEF Act

\* A lock file stays without metadata only through a mishap, at its path or
\* moved aside.
LEMMA ExplainedStep ==
    ASSUME TypeOK, AllExplained, NEW w \in Writers, Act(w)
    PROVE  AllExplained'
<1> USE LockAssumption DEF TypeOK, Owners, At, Goto, Holds, Mishap, Files, Rest,
       AllExplained, Explained
<1>1. CASE CreateLock(w)
  BY <1>1 DEF CreateLock
<1>2. CASE WriteOwner(w)
  BY <1>2 DEF WriteOwner
<1>3. CASE WriteOwnerFails(w)
  BY <1>3 DEF WriteOwnerFails
<1>4. CASE MoveAside(w)
  BY <1>4 DEF MoveAside
<1>5. CASE Confirm(w)
  BY <1>5 DEF Confirm
<1>6. CASE Preview(w) \/ VerifyOwner(w) \/ Examine(w) \/ Judge(w) \/
           Recheck(w) \/ Reread(w) \/ AssertOwnership(w) \/ Replace(w) \/
           ReplaceFails(w) \/ Release(w) \/ Unlink(w) \/ Crash(w)
  BY <1>6 DEF Preview, VerifyOwner, Examine, Judge, Recheck, Reread,
     AssertOwnership, Replace, ReplaceFails, Release, Unlink, Crash
<1>q. QED
  BY <1>1, <1>2, <1>3, <1>4, <1>5, <1>6 DEF Act

\* The dead stay dead, and only locks of the dead are judged stale.
LEMMA JudgedStep ==
    ASSUME TypeOK, Judged, NEW w \in Writers, Act(w)
    PROVE  Judged'
<1> USE LockAssumption DEF TypeOK, Owners, At, Goto, Holds, Mishap, Files, Rest,
       Judged, Dead, Holding, Taking, Critical, Ended
<1>1. CASE Examine(w)
  BY <1>1 DEF Examine
<1>2. CASE Judge(w)
  BY <1>2 DEF Judge
<1>3. CASE MoveAside(w)
  BY <1>3 DEF MoveAside
<1>4. CASE Confirm(w)
  BY <1>4 DEF Confirm
<1>5. CASE Preview(w) \/ CreateLock(w) \/ WriteOwner(w) \/
           WriteOwnerFails(w) \/ VerifyOwner(w) \/ Recheck(w) \/ Reread(w)
           \/ AssertOwnership(w) \/ Replace(w) \/ ReplaceFails(w) \/
           Release(w) \/ Unlink(w) \/ Crash(w)
  BY <1>5 DEF Preview, CreateLock, WriteOwner, WriteOwnerFails, VerifyOwner,
     Recheck, Reread, AssertOwnership, Replace, ReplaceFails, Release, Unlink,
     Crash
<1>q. QED
  BY <1>1, <1>2, <1>3, <1>4, <1>5 DEF Act

\* A holder's metadata are complete once they are written.
LEMMA CompleteStep ==
    ASSUME TypeOK, Complete, NEW w \in Writers, Act(w)
    PROVE  Complete'
<1> USE LockAssumption DEF TypeOK, Owners, At, Goto, Holds, Mishap, Files, Rest,
       Complete, Holding, Taking, Critical, Ended
<1>1. CASE WriteOwner(w)
  BY <1>1 DEF WriteOwner
<1>2. CASE VerifyOwner(w)
  BY <1>2 DEF VerifyOwner
<1>3. CASE Preview(w) \/ CreateLock(w) \/ WriteOwnerFails(w) \/ Examine(w)
           \/ Judge(w) \/ Recheck(w) \/ MoveAside(w) \/ Confirm(w) \/
           Reread(w) \/ AssertOwnership(w) \/ Replace(w) \/ ReplaceFails(w)
           \/ Release(w) \/ Unlink(w) \/ Crash(w)
  BY <1>3 DEF Preview, CreateLock, WriteOwnerFails, Examine, Judge, Recheck,
     MoveAside, Confirm, Reread, AssertOwnership, Replace, ReplaceFails,
     Release, Unlink, Crash
<1>q. QED
  BY <1>1, <1>2, <1>3 DEF Act

\* Where nobody dies, the recheck of an ended process's lock always fails: the
\* lock at the path belongs to a live holder.
LEMMA CalmStep ==
    ASSUME TypeOK, Judged, Complete, Calm, NEW w \in Writers, Act(w)
    PROVE  Calm'
<1> USE LockAssumption DEF TypeOK, Owners, At, Goto, Holds, Mishap, Files, Rest,
       Calm, Complete, Judged, Dead, Holding, Taking, Critical, Ended
<1>1. CASE CreateLock(w)
  BY <1>1 DEF CreateLock
<1>2. CASE VerifyOwner(w)
  BY <1>2 DEF VerifyOwner
<1>3. CASE Recheck(w)
  BY <1>3 DEF Recheck
<1>4. CASE MoveAside(w)
  BY <1>4 DEF MoveAside
<1>5. CASE Confirm(w)
  BY <1>5 DEF Confirm
<1>6. CASE Release(w)
  BY <1>6 DEF Release
<1>7. CASE Crash(w)
  BY <1>7 DEF Crash
<1>8. CASE Preview(w) \/ WriteOwner(w) \/ WriteOwnerFails(w) \/ Examine(w)
           \/ Judge(w) \/ Reread(w) \/ AssertOwnership(w) \/ Replace(w) \/
           ReplaceFails(w) \/ Unlink(w)
  BY <1>8 DEF Preview, WriteOwner, WriteOwnerFails, Examine, Judge, Reread,
     AssertOwnership, Replace, ReplaceFails, Unlink
<1>q. QED
  BY <1>1, <1>2, <1>3, <1>4, <1>5, <1>6, <1>7, <1>8 DEF Act

\* A lock that may be moved is a dead writer's, one of those FewContenders
\* counts.
LEMMA PairedStep ==
    ASSUME FewContenders, TypeOK, Judged, Calm, Paired, NEW w \in Writers, Act(w)
    PROVE  Paired'
<1> USE LockAssumption DEF TypeOK, Owners, At, Goto, Holds, Mishap, Files, Rest,
       Paired, Calm, Judged, Dead, FewContenders, Holding, Taking, Critical, Ended
<1>1. CASE Recheck(w)
  BY <1>1 DEF Recheck
<1>2. CASE MoveAside(w)
  BY <1>2 DEF MoveAside
<1>3. CASE Preview(w) \/ CreateLock(w) \/ WriteOwner(w) \/
           WriteOwnerFails(w) \/ VerifyOwner(w) \/ Examine(w) \/ Judge(w)
           \/ Confirm(w) \/ Reread(w) \/ AssertOwnership(w) \/ Replace(w)
           \/ ReplaceFails(w) \/ Release(w) \/ Unlink(w) \/ Crash(w)
  BY <1>3 DEF Preview, CreateLock, WriteOwner, WriteOwnerFails, VerifyOwner,
     Examine, Judge, Confirm, Reread, AssertOwnership, Replace, ReplaceFails,
     Release, Unlink, Crash
<1>q. QED
  BY <1>1, <1>2, <1>3 DEF Act

\* Nobody creates a lock file beside a live holder: the path is empty only
\* while the one other live process has the holder's lock aside, and that
\* process then fails.
LEMMA AloneStep ==
    ASSUME TypeOK, Judged, Paired, Alone, NEW w \in Writers, Act(w)
    PROVE  Alone'
<1> USE LockAssumption DEF TypeOK, Owners, At, Goto, Holds, Mishap, Files, Rest,
       Alone, Paired, Judged, Dead, Holding, Taking, Critical, Ended
<1>1. CASE CreateLock(w)
  BY <1>1 DEF CreateLock
<1>2. CASE WriteOwnerFails(w)
  BY <1>2 DEF WriteOwnerFails
<1>3. CASE MoveAside(w)
  BY <1>3 DEF MoveAside
<1>4. CASE Confirm(w)
  BY <1>4 DEF Confirm
<1>5. CASE Unlink(w)
  BY <1>5 DEF Unlink
<1>6. CASE Preview(w) \/ WriteOwner(w) \/ VerifyOwner(w) \/ Examine(w) \/
           Judge(w) \/ Recheck(w) \/ Reread(w) \/ AssertOwnership(w) \/
           Replace(w) \/ ReplaceFails(w) \/ Release(w) \/ Crash(w)
  BY <1>6 DEF Preview, WriteOwner, VerifyOwner, Examine, Judge, Recheck,
     Reread, AssertOwnership, Replace, ReplaceFails, Release, Crash
<1>q. QED
  BY <1>1, <1>2, <1>3, <1>4, <1>5, <1>6 DEF Act

\* Only the one holder replaces the document.
LEMMA CurrentStep ==
    ASSUME TypeOK, Alone, Current, NEW w \in Writers, Act(w)
    PROVE  Current'
<1> USE LockAssumption DEF TypeOK, Owners, At, Goto, Holds, Mishap, Files, Rest,
       Current, Alone, Holding, Taking, Critical, Ended
<1>1. CASE Preview(w)
  BY <1>1 DEF Preview
<1>2. CASE Reread(w)
  BY <1>2 DEF Reread
<1>3. CASE AssertOwnership(w)
  BY <1>3 DEF AssertOwnership
<1>4. CASE Replace(w)
  BY <1>4 DEF Replace
<1>5. CASE CreateLock(w) \/ WriteOwner(w) \/ WriteOwnerFails(w) \/
           VerifyOwner(w) \/ Examine(w) \/ Judge(w) \/ Recheck(w) \/
           MoveAside(w) \/ Confirm(w) \/ ReplaceFails(w) \/ Release(w) \/
           Unlink(w) \/ Crash(w)
  BY <1>5 DEF CreateLock, WriteOwner, WriteOwnerFails, VerifyOwner, Examine,
     Judge, Recheck, MoveAside, Confirm, ReplaceFails, Release, Unlink, Crash
<1>q. QED
  BY <1>1, <1>2, <1>3, <1>4, <1>5 DEF Act

\* The first owner finds its lock and its base revision unchanged, and everyone
\* who meets its lock gives up.
LEMMA UnderWayStep ==
    ASSUME TypeOK, UnderWay, NEW w \in Writers, Act(w)
    PROVE  UnderWay'
<1> USE LockAssumption DEF TypeOK, Owners, At, Goto, Holds, Mishap, Files, Rest,
       UnderWay, Smooth, Dead, Holding, Taking, Critical, Ended
<1>1. CASE CreateLock(w)
  BY <1>1 DEF CreateLock
<1>2. CASE VerifyOwner(w)
  BY <1>2 DEF VerifyOwner
<1>3. CASE Examine(w)
  BY <1>3 DEF Examine
<1>4. CASE Judge(w)
  BY <1>4 DEF Judge
<1>5. CASE Reread(w)
  BY <1>5 DEF Reread
<1>6. CASE AssertOwnership(w)
  BY <1>6 DEF AssertOwnership
<1>7. CASE Replace(w)
  BY <1>7 DEF Replace
<1>8. CASE Preview(w) \/ WriteOwner(w) \/ WriteOwnerFails(w) \/ Recheck(w)
           \/ MoveAside(w) \/ Confirm(w) \/ ReplaceFails(w) \/ Release(w)
           \/ Unlink(w) \/ Crash(w)
  BY <1>8 DEF Preview, WriteOwner, WriteOwnerFails, Recheck, MoveAside,
     Confirm, ReplaceFails, Release, Unlink, Crash
<1>q. QED
  BY <1>1, <1>2, <1>3, <1>4, <1>5, <1>6, <1>7, <1>8 DEF Act

\* A step of the specification is some process's act or changes nothing.
LEMMA NextIsAct ==
    ASSUME Next
    PROVE  \E w \in Writers : Act(w)
BY DEF Next, Act

----------------------------------------------------------------------------
(* Theorems *)

\* The types, for any number of processes, crashes and failures.
THEOREM TypeCorrect == Spec => []TypeOK
<1>1. Init => TypeOK
  BY LockAssumption DEF Init, TypeOK, Owners, Places
<1>2. TypeOK /\ [Next]_vars => TypeOK'
  <2>1. CASE Next
    BY <2>1, NextIsAct, TypeStep
  <2>2. CASE UNCHANGED vars
    BY <2>2 DEF TypeOK, vars
  <2>q. QED
    BY <2>1, <2>2
<1>q. QED
  BY <1>1, <1>2, PTL DEF Spec

\* io.ts, readOwnerMetadata: a lock file without complete metadata, which nobody
\* may ever take over, is about to be completed or its owner had a mishap.
THEOREM LockExplained == Spec => []IncompleteLockExplained
<1>1. Init => AllExplained
  BY LockAssumption DEF Init, AllExplained, Explained
<1>2. TypeOK /\ AllExplained /\ [Next]_vars => AllExplained'
  <2>1. CASE Next
    BY <2>1, NextIsAct, ExplainedStep
  <2>2. CASE UNCHANGED vars
    BY <2>2 DEF AllExplained, Explained, vars
  <2>q. QED
    BY <2>1, <2>2
<1>3. AllExplained => IncompleteLockExplained
  BY DEF AllExplained, Explained, IncompleteLockExplained
<1>q. QED
  BY <1>1, <1>2, <1>3, TypeCorrect, PTL DEF Spec

\* The invariant of mutual exclusion.
LEMMA LockedInvariant ==
    ASSUME FewContenders
    PROVE  Spec => []Locked
<1>1. Init => Locked
  BY LockAssumption DEF Init, Locked, Judged, Complete, Calm, Paired, Alone,
     Current, Dead, Holding, Taking, Critical
<1>2. TypeOK /\ Locked /\ [Next]_vars => Locked'
  <2> SUFFICES ASSUME TypeOK, Locked, [Next]_vars
               PROVE  Locked'
    OBVIOUS
  <2>1. CASE Next
    <3>1. PICK w \in Writers : Act(w)
      BY <2>1, NextIsAct
    <3>2. Judged' /\ Complete' /\ Calm'
      BY <3>1, JudgedStep, CompleteStep, CalmStep DEF Locked
    <3>3. Paired' /\ Alone' /\ Current'
      BY <3>1, PairedStep, AloneStep, CurrentStep DEF Locked
    <3>q. QED
      BY <3>2, <3>3 DEF Locked
  <2>2. CASE UNCHANGED vars
    BY <2>2 DEF vars, Locked, Judged, Complete, Calm, Paired, Alone, Current, Dead
  <2>q. QED
    BY <2>1, <2>2
<1>q. QED
  BY <1>1, <1>2, TypeCorrect, PTL DEF Spec

\* Between acquiring the lock and the last rename a writer is alone, as long as
\* at most two live processes compete for a dead owner's lock.
THEOREM WritersExclude ==
    ASSUME FewContenders
    PROVE  Spec => []Exclusive
<1>1. TypeOK /\ Locked => Exclusive
  <2> SUFFICES ASSUME Locked
               PROVE  Exclusive
    OBVIOUS
  <2> DEFINE Inside == {w \in Writers : pc[w] \in Critical}
  <2>1. \A w, v \in Inside : w = v
    BY DEF Locked, Alone, Holding, Critical, Ended
  <2>2. CASE Inside = {}
    BY <2>2, FS_EmptySet DEF Exclusive
  <2>3. CASE Inside # {}
    <3>1. PICK w \in Inside : Inside = {w}
      BY <2>1, <2>3
    <3>2. Cardinality({w}) = 1
      BY FS_Singleton
    <3>q. QED
      BY <3>1, <3>2 DEF Exclusive
  <2>q. QED
    BY <2>2, <2>3
<1>q. QED
  BY <1>1, LockedInvariant, TypeCorrect, PTL

\* Under the same condition a change replaces only the revision it was made for.
THEOREM NoUpdateLost ==
    ASSUME FewContenders
    PROVE  Spec => NoLostUpdate
<1> DEFINE Lossless == doc' # doc =>
      \E w \in Writers : At(w, "replace") /\ pc'[w] = "release" /\ base[w] = doc
<1>1. TypeOK /\ Locked /\ [Next]_vars => [Lossless]_vars
  <2> SUFFICES ASSUME TypeOK, Locked, Next, doc' # doc
               PROVE  Lossless
    OBVIOUS
  <2>1. PICK w \in Writers : Act(w)
    BY NextIsAct
  <2>2. Replace(w)
    BY <2>1 DEF Act, Preview, CreateLock, WriteOwner, WriteOwnerFails, VerifyOwner,
       Examine, Judge, Recheck, MoveAside, Confirm, Reread,
       AssertOwnership, ReplaceFails, Release, Unlink, Crash, Files
  <2>3. At(w, "replace") /\ pc'[w] = "release" /\ base[w] = doc
    BY <2>2 DEF Replace, At, Goto, Locked, Current, TypeOK
  <2>q. QED
    BY <2>3
<1>q. QED
  BY <1>1, LockedInvariant, TypeCorrect, PTL DEF Spec, NoLostUpdate

\* Contention alone never makes everyone give up: with no stale lock at the
\* start and no mishap, somebody's change is in the document at the end.
THEOREM SomebodyCommits ==
    ASSUME Old \notin LocksBefore, Writers # {}
    PROVE  Spec => []SomeoneCommits
<1>1. Init => UnderWay
  BY LockAssumption DEF Init, UnderWay
<1>2. TypeOK /\ UnderWay /\ [Next]_vars => UnderWay'
  <2>1. CASE Next
    BY <2>1, NextIsAct, UnderWayStep
  <2>2. CASE UNCHANGED vars
    BY <2>2 DEF UnderWay, Smooth, vars
  <2>q. QED
    BY <2>1, <2>2
<1>3. TypeOK /\ UnderWay => SomeoneCommits
  BY LockAssumption DEF TypeOK, UnderWay, SomeoneCommits, AllEnded, Smooth,
     Owners, Critical, Ended
<1>q. QED
  BY <1>1, <1>2, <1>3, TypeCorrect, PTL DEF Spec
=============================================================================

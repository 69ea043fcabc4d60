------------------------------ MODULE WriteLock ------------------------------
(***************************************************************************)
(* `sdoc apply --write`: processes of the command line that change one     *)
(* document under its sibling lock file (cli/src/io.ts, cli/src/main.ts).  *)
(* A lock file is created exclusively, holds its owner's identity once     *)
(* that is written, and may be taken over when its owner is proven dead.   *)
(* Every access to the file system is a step of its own.                   *)
(*                                                                         *)
(* Each process creates at most one lock file, so a lock file is known by  *)
(* its creator.  All processes run on one host; the age of a lock is not   *)
(* counted, it may or may not have passed the grace period when judged.    *)
(***************************************************************************)
EXTENDS Naturals, FiniteSets

CONSTANTS
    Writers,      \* the processes
    Old,          \* a process that died holding the lock, before the start
    None,         \* no file at a path
    LocksBefore,  \* what may lie at the lock's path at the start
    MaxCrashes,   \* bound: processes that die
    MaxFailures   \* bound: file operations that fail

ASSUME LockAssumption ==
    /\ Old \notin Writers /\ None \notin Writers \cup {Old}
    /\ LocksBefore \subseteq {None, Old}

Owners == Writers \cup {Old}

VARIABLES
    lock,     \* the lock file at the lock's path, or None
    written,  \* the lock files whose owner metadata is complete
    aside,    \* the lock file a process moved to its quarantine path
    doc,      \* revision of the document
    base,     \* the revision a process's request was made for
    seen,     \* the owner metadata a process examined
    pc,       \* where a process is
    owners,   \* history: the processes that have acquired the lock
    mishaps   \* crashes and failures so far

vars == <<lock, written, aside, doc, base, seen, pc, owners, mishaps>>

Ended    == {"done", "failed", "crashed"}
Critical == {"owner", "staging", "checking", "replace"}
Acquiring == {"lock", "write", "verify", "examine", "judge", "recheck", "move",
              "confirm", "again"}

Places == {"idle", "release", "unlink"} \cup Acquiring \cup Critical \cup Ended

----------------------------------------------------------------------------
Init ==
    /\ lock \in LocksBefore
    /\ written = {Old}
    /\ aside = [w \in Writers |-> None]
    /\ doc = 0
    /\ base = [w \in Writers |-> 0]
    /\ seen = [w \in Writers |-> None]
    /\ pc = [w \in Writers |-> "idle"]
    /\ owners = {}
    /\ mishaps = [crashes |-> 0, failures |-> 0]

At(w, place) == pc[w] = place
Goto(w, place) == pc' = [pc EXCEPT ![w] = place]

\* Whether the lock's path holds this process's complete metadata now.
Holds(w) == lock = w /\ w \in written

\* process.kill(pid, 0) finds no such process.
Dead(owner) == owner \in Writers => pc[owner] \in Ended

Files == <<lock, written, aside>>
Rest  == <<owners, mishaps>>

----------------------------------------------------------------------------
\* The preview: the request was made for the revision now in the file.
Preview(w) ==
    /\ At(w, "idle") /\ Goto(w, "lock")
    /\ base' = [base EXCEPT ![w] = doc]
    /\ UNCHANGED <<Files, doc, seen, Rest>>

\* Seeded fault: the file is opened for writing, not created exclusively.
CreateLock_Truncates(w) ==
    /\ At(w, "lock") \/ At(w, "again")
    /\ lock' = w /\ Goto(w, "write")
    /\ UNCHANGED <<written, aside, doc, base, seen, Rest>>

\* createOwnedLock's open with "wx", the first time and after a reclaim.
CreateLock(w) ==
    /\ At(w, "lock") \/ At(w, "again")
    /\ IF lock = None
       THEN lock' = w /\ Goto(w, "write")
       ELSE UNCHANGED lock /\ Goto(w, IF At(w, "lock") THEN "examine" ELSE "failed")
    /\ UNCHANGED <<written, aside, doc, base, seen, Rest>>

WriteOwner(w) ==
    /\ At(w, "write") /\ Goto(w, "verify")
    /\ written' = written \cup {w}
    /\ UNCHANGED <<lock, aside, doc, base, seen, Rest>>

Mishap(kind, bound) ==
    /\ mishaps[kind] < bound
    /\ mishaps' = [mishaps EXCEPT ![kind] = @ + 1]

\* The metadata cannot be written: whatever is at the lock's path goes.
WriteOwnerFails(w) ==
    /\ At(w, "write") /\ Goto(w, "failed")
    /\ Mishap("failures", MaxFailures)
    /\ lock' = None
    /\ UNCHANGED <<written, aside, doc, base, seen, owners>>

VerifyOwner(w) ==
    /\ At(w, "verify")
    /\ IF Holds(w)
       THEN Goto(w, "owner") /\ owners' = owners \cup {w}
       ELSE Goto(w, "failed") /\ UNCHANGED owners
    /\ UNCHANGED <<Files, doc, base, seen, mishaps>>

\* The lock exists: read its owner.  A file that is gone is tried again once;
\* one without complete metadata is nobody's to take.
Examine(w) ==
    /\ At(w, "examine")
    /\ IF lock = None THEN Goto(w, "again") /\ UNCHANGED seen
       ELSE IF lock \in written
       THEN Goto(w, "judge") /\ seen' = [seen EXCEPT ![w] = lock]
       ELSE Goto(w, "failed") /\ UNCHANGED seen
    /\ UNCHANGED <<Files, doc, base, Rest>>

\* Seeded fault: the grace period alone makes a lock stale.
Judge_AnyOwner(w) ==
    /\ At(w, "judge")
    /\ Goto(w, "recheck") \/ Goto(w, "failed")
    /\ UNCHANGED <<Files, doc, base, seen, Rest>>

\* reclaimStaleLock: only a dead owner's lock, past the grace period.
Judge(w) ==
    /\ At(w, "judge")
    /\ \/ Dead(seen[w]) /\ Goto(w, "recheck")
       \/ Goto(w, "failed")
    /\ UNCHANGED <<Files, doc, base, seen, Rest>>

Recheck(w) ==
    /\ At(w, "recheck")
    /\ Goto(w, IF lock = seen[w] /\ lock \in written THEN "move" ELSE "failed")
    /\ UNCHANGED <<Files, doc, base, seen, Rest>>

\* The rename moves whatever is at the lock's path by now.
MoveAside(w) ==
    /\ At(w, "move")
    /\ IF lock = None
       THEN Goto(w, "failed") /\ UNCHANGED <<lock, aside>>
       ELSE /\ Goto(w, "confirm")
            /\ aside' = [aside EXCEPT ![w] = lock]
            /\ lock' = None
    /\ UNCHANGED <<written, doc, base, seen, Rest>>

\* The stale lock is removed; a competitor's is linked back, unless there is
\* a new one at the path.
Confirm(w) ==
    /\ At(w, "confirm")
    /\ IF aside[w] = seen[w]
       THEN Goto(w, "again") /\ UNCHANGED lock
       ELSE Goto(w, "failed") /\ lock' = IF lock = None THEN aside[w] ELSE lock
    /\ aside' = [aside EXCEPT ![w] =
                    IF aside[w] = seen[w] \/ lock = None THEN None ELSE @]
    /\ UNCHANGED <<written, doc, base, seen, Rest>>

----------------------------------------------------------------------------
\* Seeded fault: the request's revision is not compared under the lock.
Reread_Unchecked(w) ==
    /\ At(w, "owner") /\ Goto(w, "staging")
    /\ UNCHANGED <<Files, doc, base, seen, Rest>>

\* The document is read again under the lock; a stale request ends here.
Reread(w) ==
    /\ At(w, "owner")
    /\ Goto(w, IF base[w] = doc THEN "staging" ELSE "release")
    /\ UNCHANGED <<Files, doc, base, seen, Rest>>

\* assertActiveLockOwnership, before the temporary file is written and again
\* before it replaces the document.
AssertOwnership(w) ==
    /\ \/ At(w, "staging")  /\ Goto(w, IF Holds(w) THEN "checking" ELSE "release")
       \/ At(w, "checking") /\ Goto(w, IF Holds(w) THEN "replace" ELSE "release")
    /\ UNCHANGED <<Files, doc, base, seen, Rest>>

Replace(w) ==
    /\ At(w, "replace") /\ Goto(w, "release")
    /\ doc' = doc + 1
    /\ UNCHANGED <<Files, base, seen, Rest>>

ReplaceFails(w) ==
    /\ At(w, "replace") /\ Goto(w, "release")
    /\ Mishap("failures", MaxFailures)
    /\ UNCHANGED <<Files, doc, base, seen, owners>>

Release(w) ==
    /\ At(w, "release")
    /\ Goto(w, IF Holds(w) THEN "unlink" ELSE "done")
    /\ UNCHANGED <<Files, doc, base, seen, Rest>>

Unlink(w) ==
    /\ At(w, "unlink") /\ Goto(w, "done")
    /\ lock' = None
    /\ UNCHANGED <<written, aside, doc, base, seen, Rest>>

\* A process dies; its files stay.
Crash(w) ==
    /\ pc[w] \notin Ended /\ Goto(w, "crashed")
    /\ Mishap("crashes", MaxCrashes)
    /\ UNCHANGED <<Files, doc, base, seen, owners>>

Next == \E w \in Writers :
    \/ Preview(w) \/ CreateLock(w) \/ WriteOwner(w) \/ WriteOwnerFails(w) \/ VerifyOwner(w)
    \/ Examine(w) \/ Judge(w) \/ Recheck(w) \/ MoveAside(w) \/ Confirm(w)
    \/ Reread(w) \/ AssertOwnership(w) \/ Replace(w) \/ ReplaceFails(w)
    \/ Release(w) \/ Unlink(w) \/ Crash(w)

Spec == Init /\ [][Next]_vars

----------------------------------------------------------------------------
(* Properties *)

\* Type invariant of the lock protocol; only complete metadata is examined.
TypeOK ==
    /\ lock \in Owners \cup {None} /\ written \subseteq Owners
    /\ aside \in [Writers -> Owners \cup {None}]
    /\ doc \in Nat /\ base \in [Writers -> Nat]
    /\ seen \in [Writers -> written \cup {None}]
    /\ pc \in [Writers -> Places]
    /\ owners \subseteq Writers
    /\ mishaps \in [crashes : Nat, failures : Nat]

\* Between acquiring the lock and the last rename a process is alone.
Exclusive == Cardinality({w \in Writers : pc[w] \in Critical}) <= 1

\* A document is replaced only by a change computed from it: of two writers
\* of one revision, the second never overwrites the first.
NoLostUpdate ==
    [][doc' # doc =>
         \E w \in Writers : At(w, "replace") /\ pc'[w] = "release" /\ base[w] = doc]_vars

AllEnded == \A w \in Writers : pc[w] \in Ended
Smooth   == mishaps.crashes + mishaps.failures = 0

\* A lock file without complete metadata, which nobody may ever take over, is
\* about to be completed, or its owner crashed or could not write it.
IncompleteLockExplained ==
    lock \notin written \cup {None} =>
        pc[lock] \in {"write", "crashed"} \/ mishaps.failures > 0

\* Contention never makes everyone give up: with no stale lock to reclaim and
\* no mishap, somebody's change is in the document at the end.
SomeoneCommits ==
    AllEnded /\ Smooth => doc > 0
============================================================================

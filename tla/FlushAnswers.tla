---------------------------- MODULE FlushAnswers ----------------------------
(***************************************************************************)
(* The answers a webview posts for the host's flush requests when its      *)
(* coordinator moves: SaveCoordinator.afterAcknowledged turned a promise   *)
(* that settled into flushComplete or flushFailed.                         *)
(***************************************************************************)
EXTENDS SyncOperations, Sequences, FiniteSets

FlushAnswer(flush, resolved) ==
    [type  |-> IF resolved THEN "flushComplete" ELSE "flushFailed",
     flush |-> flush]

\* The members of a set of numbers, the smallest first.
Ascending(S) ==
    [k \in 1 .. Cardinality(S) |-> CHOOSE i \in S : Cardinality({j \in S : j <= i}) = k]

\* The flushes, of those numbered 1 .. last, that the step from s to t
\* settled, in the order they were requested.  Number 0 is the webview's own
\* barrier, behind "keep mine": the host knows nothing of it.
Left(s, t, last) ==
    Ascending({i \in 1 .. last : /\ \E w \in s.flushWaiters : w.flush = i
                                 /\ ~\E w \in t.flushWaiters : w.flush = i})

Answers(s, t, last) ==
    LET left == Left(s, t, last)
    IN  [i \in DOMAIN left |->
            FlushAnswer(left[i],
                \E w \in s.flushWaiters :
                    /\ w.flush = left[i]
                    /\ w.generation <= t.acknowledgedGeneration)]

\* Seeded fault: the flush is complete as soon as the draft is submitted.
AnswersAtOnce_Always(asked, flush) == <<FlushAnswer(flush, TRUE)>>

\* requestFlush asks state `asked` for a barrier: the answers given at once.
AnswersAtOnce(asked, flush) ==
    LET g == asked.localGeneration
    IN  IF FlushResolves(asked, g) THEN <<FlushAnswer(flush, TRUE)>>
        ELSE IF FlushRejects(asked, g) THEN <<FlushAnswer(flush, FALSE)>>
        ELSE <<>>
============================================================================

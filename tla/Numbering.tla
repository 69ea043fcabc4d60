----------------------------- MODULE Numbering -----------------------------
\* The numbers of headings and captions, as the editor, the command line and the
\* exports all compute them: one pass over the blocks in document order.
EXTENDS Naturals, Sequences

CONSTANTS
    None,
    Levels   \* heading levels, 1..MaxLevel (1..6)

Numbered(block) == block.numbered

Zeros == [level \in Levels |-> 0]

Counted_LateReset(levels, block) ==   \* Seeded fault: the next level keeps counting.
    [k \in Levels |-> IF k = block.level /\ Numbered(block) THEN levels[k] + 1
                      ELSE IF k > block.level + 1 THEN 0 ELSE levels[k]]

Counted(levels, block) ==
    [k \in Levels |-> IF k = block.level /\ Numbered(block) THEN levels[k] + 1
                      ELSE IF k > block.level THEN 0 ELSE levels[k]]

Upto(levels, level) == [k \in 1 .. level |-> levels[k]]

NumberHeading(state, block, policy) ==
    LET levels == Counted(state.levels, block)
    IN  [state EXCEPT
            !.levels = levels,
            !.active = IF block.level > 1 THEN @ ELSE IF Numbered(block) THEN levels[1] ELSE None,
            !.local = IF block.level > 1 THEN @ ELSE 0,
            !.numbers = Append(@, IF Numbered(block) /\ policy.headings
                                  THEN Upto(levels, block.level) ELSE <<>>)]

NumberTable(state, policy) ==
    LET local == state.local + 1
        number == IF ~policy.hierarchical THEN <<state.global + 1>>
                  ELSE IF state.active = None THEN <<local>> ELSE <<state.active, local>>
    IN  [state EXCEPT !.global = @ + 1, !.local = local, !.numbers = Append(@, number)]

\* buildNumberingIndex: the number of every block, <<>> where it has none.
Numbers(blocks, policy) ==
    LET Step(before, block) ==
            CASE block.type = "heading" -> NumberHeading(before, block, policy)
              [] block.type = "table" -> NumberTable(before, policy)
              [] OTHER -> [before EXCEPT !.numbers = Append(@, <<>>)]
        state[n \in 0 .. Len(blocks)] ==
            IF n = 0 THEN [levels |-> Zeros, active |-> None, local |-> 0, global |-> 0, numbers |-> <<>>]
            ELSE Step(state[n - 1], blocks[n])
    IN  state[Len(blocks)].numbers
============================================================================
